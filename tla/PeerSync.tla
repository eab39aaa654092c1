------------------------------ MODULE PeerSync ------------------------------
(***************************************************************************)
(* Transfer of blocks, state snapshots and state deltas between two peers  *)
(* (core/peer/handler.go, core/peer/handler_sync_state.go), over a stream  *)
(* both have established.  The requester keeps one Go channel per kind of  *)
(* data and gives it to the caller; a new request closes it and makes      *)
(* another.  The other side answers each request in a goroutine of its     *)
(* own, so that answers to several requests mix in the stream.             *)
(***************************************************************************)
EXTENDS Integers, Sequences, FiniteSets, SequencesExt

CONSTANTS
  ChannelSize,    \* peer.sync.*.channelSize
  MaxRequests,    \* bound: requests
  Pieces,         \* messages of an answer, without the terminating one of a snapshot
  MaxSyncHeight       \* bound: blocks added at the answering side

Kinds == {"blocks", "deltas", "snapshot"}

VARIABLES
  channels,       \* channels[k]: the channels made for kind k, the last one is current
  correlationID,  \* of snapshotRequestHandler
  syncAsked,          \* requests made, per kind
  toServer, toClient,   \* the stream
  senders,        \* goroutines that answer
  syncHeight,         \* blocks of the answering side
  reader          \* reader[k]: the caller, with the channel it reads and what it got

syncVars == <<channels, correlationID, syncAsked, toServer, toClient, senders, syncHeight, reader>>

NoChannel == [buf |-> <<>>, closed |-> FALSE]
Current(k) == Len(channels[k])

PSInit ==
  /\ channels = [k \in Kinds |-> IF k = "blocks" THEN <<>> ELSE <<NoChannel>>]
  /\ correlationID = 0
  /\ syncAsked = [k \in Kinds |-> 0]
  /\ toServer = <<>> /\ toClient = <<>> /\ senders = {} /\ syncHeight = 0
  /\ reader = [k \in Kinds |-> [chan |-> 0, got |-> <<>>, ended |-> FALSE]]

(* reset of the two handlers of handler_sync_state.go; for blocks the same *)
(* is in RequestBlocks, which has no channel to close the first time.      *)
Reset(k) ==
  channels' = [channels EXCEPT ![k] = Append([i \in DOMAIN @ |-> [@[i] EXCEPT !.closed = TRUE]], NoChannel)]

(* A request; a snapshot is asked for under a new correlation id.          *)
RequestSync(k, id) ==
  /\ SumFunction(syncAsked) < MaxRequests
  /\ Reset(k)
  /\ syncAsked' = [syncAsked EXCEPT ![k] = @ + 1]
  /\ toServer' = Append(toServer, [kind |-> k, id |-> id])
  /\ reader' = [reader EXCEPT ![k] = [chan |-> Current(k) + 1, got |-> <<>>, ended |-> FALSE]]
  /\ UNCHANGED <<toClient, senders, syncHeight>>

RequestBlocks == RequestSync("blocks", syncAsked["blocks"] + 1) /\ UNCHANGED correlationID
RequestStateDeltas == RequestSync("deltas", syncAsked["deltas"] + 1) /\ UNCHANGED correlationID
RequestStateSnapshot == RequestSync("snapshot", correlationID + 1) /\ correlationID' = correlationID + 1

(* The other side starts a goroutine that answers.                         *)
BeforeGet(k) ==
  /\ toServer # <<>> /\ Head(toServer).kind = k
  /\ toServer' = Tail(toServer)
  /\ senders' = senders \cup {[kind |-> k, id |-> Head(toServer).id, pos |-> 1, at |-> -1]}
  /\ UNCHANGED <<channels, correlationID, syncAsked, toClient, syncHeight, reader>>

beforeSyncGetBlocks == BeforeGet("blocks")
beforeSyncStateGetDeltas == BeforeGet("deltas")
beforeSyncStateGetSnapshot == BeforeGet("snapshot")

Replace(g, more) ==
  /\ senders' = (senders \ {g}) \cup more
  /\ UNCHANGED <<channels, correlationID, syncAsked, toServer, syncHeight, reader>>

(* One message of an answer, of which last is the position of the last.    *)
SendPiece(g, last) ==
  /\ toClient' = Append(toClient, g)
  /\ Replace(g, IF g.pos = last THEN {} ELSE {[g EXCEPT !.pos = @ + 1]})

(* A block or a delta that cannot be had ends the answer.                  *)
sendBlocks(g) ==
  /\ g.kind = "blocks"
  /\ SendPiece(g, Pieces) \/ (Replace(g, {}) /\ UNCHANGED toClient)
sendStateDeltas(g) ==
  /\ g.kind = "deltas"
  /\ SendPiece(g, Pieces) \/ (Replace(g, {}) /\ UNCHANGED toClient)

(* A snapshot of the state as it is when the goroutine starts, and a       *)
(* terminating message.                                                    *)
LastPiece(k) == IF k = "snapshot" THEN Pieces + 1 ELSE Pieces
sendStateSnapshot(g) ==
  /\ g.kind = "snapshot"
  /\ IF g.at = -1 THEN Replace(g, {[g EXCEPT !.at = syncHeight]}) /\ UNCHANGED toClient
     ELSE SendPiece(g, Pieces + 1)

BlockAdded ==
  /\ syncHeight < MaxSyncHeight
  /\ syncHeight' = syncHeight + 1
  /\ UNCHANGED <<channels, correlationID, syncAsked, toServer, toClient, senders, reader>>

(* A message goes to the current channel of its kind if there is room.     *)
Room(k) == Len(channels[k][Current(k)].buf) < ChannelSize
Forward(k) == channels' = [channels EXCEPT ![k][Current(k)].buf = Append(@, Head(toClient))]
BeforeData(k) ==
  /\ toClient # <<>> /\ Head(toClient).kind = k
  /\ toClient' = Tail(toClient)
  /\ UNCHANGED <<syncAsked, toServer, senders, syncHeight, reader>>

(* If there is no room a block is dropped; the other kinds close the       *)
(* channel, since its content is incomplete.                               *)
beforeSyncBlocks ==
  /\ BeforeData("blocks")
  /\ IF Room("blocks") THEN Forward("blocks") ELSE UNCHANGED channels
  /\ UNCHANGED correlationID
beforeSyncStateDeltas ==
  /\ BeforeData("deltas")
  /\ IF Room("deltas") THEN Forward("deltas") ELSE Reset("deltas")
  /\ UNCHANGED correlationID

(* Takes answers to earlier requests as well.                              *)
shouldHandleAny(m) == TRUE

shouldHandle(m) == m.id = correlationID
beforeSyncStateSnapshot ==
  /\ BeforeData("snapshot")
  /\ IF ~shouldHandle(Head(toClient)) THEN UNCHANGED <<channels, correlationID>>
     ELSE IF Room("snapshot") THEN Forward("snapshot") /\ UNCHANGED correlationID
     ELSE Reset("snapshot") /\ correlationID' = correlationID + 1

(* The caller reads its channel until it is closed and empty, or the       *)
(* answer is complete.                                                     *)
ReadData(k) ==
  LET c == reader[k].chan
      ch == channels[k][c]
  IN /\ c > 0 /\ ~reader[k].ended
     /\ \/ /\ ch.buf # <<>>
           /\ channels' = [channels EXCEPT ![k][c].buf = Tail(@)]
           /\ reader' = [reader EXCEPT ![k].got = Append(@, Head(ch.buf)),
                                       ![k].ended = Head(ch.buf).pos = LastPiece(k)]
        \/ /\ ch.buf = <<>> /\ ch.closed
           /\ reader' = [reader EXCEPT ![k].ended = TRUE]
           /\ UNCHANGED channels
     /\ UNCHANGED <<correlationID, syncAsked, toServer, toClient, senders, syncHeight>>

PSNext ==
  \/ RequestBlocks \/ RequestStateDeltas \/ RequestStateSnapshot
  \/ beforeSyncGetBlocks \/ beforeSyncStateGetDeltas \/ beforeSyncStateGetSnapshot
  \/ beforeSyncBlocks \/ beforeSyncStateDeltas \/ beforeSyncStateSnapshot
  \/ \E g \in senders : sendBlocks(g) \/ sendStateDeltas(g) \/ sendStateSnapshot(g)
  \/ \E k \in Kinds : ReadData(k)
  \/ BlockAdded

PSSpec == PSInit /\ [][PSNext]_syncVars

-----------------------------------------------------------------------------
(* Types.                                                                  *)
PSTypeOK ==
  /\ \A k \in Kinds, i \in 1 .. MaxRequests : i \in DOMAIN channels[k] => Len(channels[k][i].buf) <= ChannelSize
  /\ correlationID \in Nat /\ syncHeight \in 0 .. MaxSyncHeight

(* Who reads the terminating message of a snapshot has read every piece of *)
(* one snapshot, in order, and nothing else: answers to earlier requests   *)
(* and overflows of the channel are kept away by the correlation id and    *)
(* the reset (beforeSyncStateSnapshot).                                    *)
SnapshotComplete ==
  LET got == reader["snapshot"].got
  IN got # <<>> /\ Last(got).pos = Pieces + 1 =>
         /\ [i \in DOMAIN got |-> got[i].pos] = [i \in 1 .. Pieces + 1 |-> i]
         /\ \A i \in DOMAIN got : got[i].id = got[1].id /\ got[i].at = got[1].at

(* Deltas of one answer never skip a block in a channel, so that one that  *)
(* is applied is the next one of that answer (beforeSyncStateDeltas).      *)
DeltasWithoutGap ==
  LET got == reader["deltas"].got
  IN \A i, j \in DOMAIN got :
         i < j /\ got[i].id = got[j].id /\ (\A l \in i + 1 .. j - 1 : got[l].id # got[i].id) =>
           got[j].pos = got[i].pos + 1
=============================================================================
