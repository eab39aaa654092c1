--------------------------- MODULE StateTransfer ---------------------------
(***************************************************************************)
(* State transfer (consensus/statetransfer/statetransfer.go): a replica    *)
(* that fell behind fetches blocks, a snapshot of the state and deltas of  *)
(* the state from its peers, and checks them against the hash of a block   *)
(* that consensus named.  Three threads take part: the consensus thread    *)
(* (Initiate, AddTarget), the state thread (attemptStateTransfer) and the  *)
(* block thread (block requests of the state thread, and verification of   *)
(* the blocks that were there before).                                     *)
(*                                                                         *)
(* The chain that consensus agreed on has block n with hash n, whose state *)
(* is n.  A wrong block n has hash Wrong(n) and names Wrong(n-1) as its    *)
(* predecessor.  Faulty peers answer with wrong data; every peer may fail  *)
(* to answer.                                                              *)
(***************************************************************************)
EXTENDS Integers, Sequences, FiniteSets, SequencesExt

CONSTANTS
  Peers, Faulty,
  MaxBlock,              \* bound: height of the agreed chain
  InitialSizes,          \* heights of the replica's chain at the start
  MaxStateDeltas,        \* statetransfer.maxdeltas
  blockVerifyChunkSize,  \* statetransfer.blocksperrequest
  SnapshotsAt,           \* blocks the peers' snapshots are for
  Targets,               \* the targets consensus names, in this order
  HonestAnswer,          \* correct peers always answer
  NoBlock

VARIABLES
  blk, bsize, state,     \* ledger: blocks, blockchain size, state
  stateValid, ranges,    \* StateTransferState
  inProgress,            \* asynchronousTransferInProgress
  RecoverDamage,
  targets,               \* targets still to be named by the consensus thread
  setting,               \* the consensus thread is between the two steps of Initiate
  hashReceiver,          \* blockHashReceiver, a channel with a buffer of one
  sth, bt,                \* state thread, block thread
  completed,             \* targets that Completed was called for
  stPanic

ledgerPart == <<blk, bsize, state>>
stVars == <<blk, bsize, state, stateValid, ranges, inProgress, RecoverDamage, targets, setting,
            hashReceiver, sth, bt, completed, stPanic>>

Word == 2^5    \* width of a block number (uint64 in the code)
BlockNumbers == 0 .. MaxBlock
Wrong(n) == 50 + n
Agreed(n) == [hash |-> n, prev |-> n - 1, state |-> n]
WrongBlock(n) == [hash |-> Wrong(n), prev |-> Wrong(n - 1), state |-> Wrong(n)]
EmptyStateValue == -1

IdleState == [pc |-> "idle", cur |-> 0, reply |-> NoBlock, blocksValid |-> FALSE, left |-> {}, at |-> 0]
IdleBlock == [pc |-> "verify", high |-> 0, low |-> 0, cursor |-> 0, hash |-> 0, last |-> NoBlock, left |-> {},
              ok |-> FALSE]

(* The chain at the start may have one block that is wrong, or missing.    *)
STInit ==
  /\ bsize \in InitialSizes
  /\ \E bad \in BlockNumbers \cup {NoBlock}, b \in {"wrong", "missing"} :
       blk = [n \in BlockNumbers |-> IF n >= bsize \/ (n = bad /\ b = "missing" /\ n < bsize - 1) THEN NoBlock
                                ELSE IF n = bad /\ n < bsize - 1 THEN WrongBlock(n) ELSE Agreed(n)]
  /\ state \in {bsize - 1, Wrong(0)}
  /\ stateValid = TRUE /\ ranges = <<>> /\ inProgress = FALSE
  /\ RecoverDamage \in BOOLEAN
  /\ targets = Targets /\ setting = FALSE
  /\ hashReceiver = NoBlock
  /\ sth = IdleState /\ bt = IdleBlock
  /\ completed = {} /\ stPanic = FALSE

-----------------------------------------------------------------------------
(* The consensus thread.                                                   *)

Initiate ==
  /\ sth.pc = "idle" /\ ~setting /\ ~inProgress /\ targets # <<>>
  /\ sth' = [IdleState EXCEPT !.pc = "attempt"]
  /\ setting' = TRUE
  /\ UNCHANGED <<ledgerPart, stateValid, ranges, inProgress, RecoverDamage, targets, hashReceiver, bt,
                 completed, stPanic>>

(* The flag is set after the state thread has started.                     *)
SetInProgress ==
  /\ setting
  /\ setting' = FALSE /\ inProgress' = TRUE
  /\ UNCHANGED <<ledgerPart, stateValid, ranges, RecoverDamage, targets, hashReceiver, sth, bt, completed, stPanic>>

(* The channel holds one target; a new one replaces what is there.         *)
AddTarget ==
  /\ ~setting /\ targets # <<>> /\ (inProgress \/ hashReceiver = NoBlock)
  /\ hashReceiver' = Head(targets) /\ targets' = Tail(targets)
  /\ UNCHANGED <<ledgerPart, stateValid, ranges, inProgress, RecoverDamage, setting, sth, bt, completed, stPanic>>

-----------------------------------------------------------------------------
(* syncBlocks: one block of the answer of one peer, checked against the    *)
(* hash expected of it.  A peer whose answer is wrong or missing is given  *)
(* up.                                                                     *)

PeerBlocks(p, n) ==
  IF n \notin BlockNumbers THEN {NoBlock}
  ELSE IF p \in Faulty THEN {Agreed(n), WrongBlock(n), NoBlock}
  ELSE IF HonestAnswer THEN {Agreed(n)} ELSE {Agreed(n), NoBlock}

GiveUp(p, b) == bt' = [bt EXCEPT !.left = @ \ {p}, !.last = IF b = NoBlock THEN @ ELSE b]

(* Does not compare the hash.                                              *)
HashMatchesAny(b) == b # NoBlock

HashMatches(b) == b # NoBlock /\ b.hash = bt.hash

SyncBlock(p) ==
  /\ bt.pc \in {"sync", "recover"} /\ ~bt.ok /\ p \in bt.left
  /\ \E b \in PeerBlocks(p, bt.cursor) :
       IF ~HashMatches(b)
         THEN GiveUp(p, b) /\ UNCHANGED <<blk, bsize, stPanic>>
         ELSE LET n == bt.cursor
                  exists == n < bsize /\ blk[n] # NoBlock
              IN IF ~RecoverDamage /\ exists /\ blk[n].hash # bt.hash
                   THEN stPanic' = TRUE /\ UNCHANGED <<blk, bsize, bt>>
                   ELSE /\ blk' = [blk EXCEPT ![n] = IF ~RecoverDamage /\ exists THEN @ ELSE b]
                        /\ bsize' = IF n + 1 > bsize THEN n + 1 ELSE bsize
                        /\ bt' = [bt EXCEPT !.hash = b.prev, !.last = b, !.ok = n = bt.low,
                                            !.cursor = IF n = bt.low THEN n ELSE n - 1]
                        /\ UNCHANGED stPanic
  /\ UNCHANGED <<state, stateValid, ranges, inProgress, RecoverDamage, targets, setting, hashReceiver, sth, completed>>

SyncEnded == bt.ok \/ bt.left = {}
StartSync(pc, high, low, hash) ==
  bt' = [pc |-> pc, high |-> high, low |-> low, cursor |-> high, hash |-> hash, last |-> NoBlock,
         left |-> Peers, ok |-> FALSE]

-----------------------------------------------------------------------------
(* The block thread.                                                       *)

(* A request of the state thread: the rendezvous on blockSyncReq, and the  *)
(* start of syncBlockchainToCheckpoint.                                    *)
BlockSyncReq ==
  /\ sth.pc = "blocks" /\ bt.pc \in {"verify", "idle"}
  /\ sth' = [sth EXCEPT !.pc = "reply"]
  /\ IF sth.reply + 1 < bsize
       THEN stPanic' = TRUE /\ UNCHANGED bt
       ELSE StartSync("sync", sth.reply, sth.cur, sth.reply) /\ UNCHANGED stPanic
  /\ UNCHANGED <<ledgerPart, stateValid, ranges, inProgress, RecoverDamage, targets, setting, hashReceiver, completed>>

(* The end of syncBlockchainToCheckpoint; the thread then waits for the    *)
(* next request, whether or not it had verified the older blocks before.   *)
BlockSyncReply ==
  /\ bt.pc = "sync" /\ SyncEnded
  /\ ranges' = IF bt.ok THEN Append(ranges, [high |-> bt.high, low |-> bt.cursor, next |-> bt.last.prev]) ELSE ranges
  /\ bt' = [bt EXCEPT !.pc = "idle"]
  /\ sth' = IF bt.ok THEN [sth EXCEPT !.pc = "check", !.blocksValid = TRUE] ELSE [sth EXCEPT !.pc = "attempt"]
  /\ UNCHANGED <<ledgerPart, stateValid, inProgress, RecoverDamage, targets, setting, hashReceiver, completed, stPanic>>

(* Ledger.VerifyChain: an error only for a block that cannot be read.      *)
VerifyChain(high, low) ==
  LET missing == {n \in low .. high : blk[n] = NoBlock}
      broken == {n \in low + 1 .. high : blk[n] # NoBlock /\ blk[n - 1] # NoBlock /\ blk[n].prev # blk[n - 1].hash}
      first == CHOOSE n \in missing \cup broken : \A m \in missing \cup broken : m <= n
  IN IF high >= bsize \/ high <= low THEN [bad |-> IF high >= bsize THEN high ELSE low, err |-> TRUE]
     ELSE IF missing \cup broken = {} THEN [bad |-> 0, err |-> FALSE]
     ELSE [bad |-> first, err |-> first \in missing]

Less(a, b) == a.high > b.high \/ (a.high = b.high /\ a.low < b.low)

(* VerifyAndRecoverBlockchain up to the request for missing blocks.  Two   *)
(* ranges that touch are never joined: the result of HashBlock is used     *)
(* only when it failed; the lower range is dropped.                        *)
VerifyAndRecoverBlockchain ==
  /\ bt.pc = "verify" /\ bsize > 0 /\ sth.pc # "blocks"   \* the default case of the select
  /\ LET rs == SortSeq(IF ranges # <<>> THEN ranges
                       ELSE <<[high |-> bsize - 1, low |-> bsize - 1, next |-> blk[bsize - 1].prev]>>, Less)
         low == rs[1].low
         floor == IF Len(rs) > 1 THEN rs[2].high ELSE 0
         target == IF floor + blockVerifyChunkSize > low THEN floor ELSE low - blockVerifyChunkSize
         verified == VerifyChain(low, target)
     IN CASE Len(rs) = 1 /\ low = 0 ->
               ranges' = rs /\ bt' = [bt EXCEPT !.pc = "idle"]
          [] Len(rs) > 1 /\ rs[2].high + 1 >= low ->
               ranges' = RemoveAt(rs, 2) /\ UNCHANGED bt
          [] OTHER ->
               IF ~verified.err
                 THEN /\ ranges' = [rs EXCEPT ![1] = [@ EXCEPT !.low = target, !.next = blk[target].prev]]
                      /\ UNCHANGED bt
                 ELSE ranges' = rs /\ StartSync("recover", (verified.bad - 1) % Word, target, rs[1].next)
  /\ UNCHANGED <<ledgerPart, stateValid, inProgress, RecoverDamage, targets, setting, hashReceiver, sth, completed, stPanic>>

(* The end of VerifyAndRecoverBlockchain.                                  *)
RecoverEnds ==
  /\ bt.pc = "recover" /\ SyncEnded
  /\ bt' = [bt EXCEPT !.pc = "verify"]
  /\ ranges' = IF bt.cursor = bt.high \/ bt.last = NoBlock THEN ranges
               ELSE [ranges EXCEPT ![1] = [@ EXCEPT !.next = bt.last.prev,
                                                    !.low = IF bt.ok THEN bt.cursor ELSE bt.cursor + 1]]
  /\ UNCHANGED <<ledgerPart, stateValid, inProgress, RecoverDamage, targets, setting, hashReceiver, sth, completed, stPanic>>

-----------------------------------------------------------------------------
(* The state thread.                                                       *)

StateUnchanged == UNCHANGED <<blk, bsize, ranges, RecoverDamage, targets, setting, bt, stPanic>>
(* Never takes a state for invalid.                                        *)
AgainValid(valid) == sth' = [sth EXCEPT !.pc = "attempt"] /\ UNCHANGED stateValid

Again(valid) == sth' = [sth EXCEPT !.pc = "attempt"] /\ stateValid' = valid

(* attemptStateTransfer: which block is our state the state of?            *)
Attempt ==
  /\ sth.pc = "attempt"
  /\ sth' = IF stateValid THEN [sth EXCEPT !.pc = "target", !.cur = (bsize - 1) % Word]
                         ELSE [sth EXCEPT !.pc = "snapshot", !.left = Peers]
  /\ UNCHANGED <<state, stateValid, inProgress, hashReceiver, completed>> /\ StateUnchanged

(* syncStateSnapshot, one peer: the state is emptied first, then filled    *)
(* with what the peer sends, for the block the peer names.                 *)
Snapshot(p, n) ==
  /\ sth.pc = "snapshot" /\ p \in sth.left
  /\ \/ /\ state' \in {n} \cup (IF p \in Faulty THEN {Wrong(n)} ELSE {})
        /\ sth' = [sth EXCEPT !.pc = "target", !.cur = n]
     \/ /\ p \in Faulty \/ ~HonestAnswer
        /\ state' = EmptyStateValue
        /\ sth' = IF sth.left = {p} THEN [sth EXCEPT !.pc = "attempt"] ELSE [sth EXCEPT !.left = @ \ {p}]
  /\ UNCHANGED <<stateValid, inProgress, hashReceiver, completed>> /\ StateUnchanged

(* The target: the one known, or one from the channel that is high enough. *)
AwaitTarget ==
  /\ sth.pc = "target"
  /\ IF sth.reply # NoBlock /\ sth.reply >= sth.cur
       THEN /\ sth' = [sth EXCEPT !.pc = IF sth.blocksValid THEN "check" ELSE "blocks"]
            /\ UNCHANGED hashReceiver
       ELSE /\ hashReceiver # NoBlock
            /\ hashReceiver' = NoBlock
            /\ sth' = IF hashReceiver < sth.cur THEN [sth EXCEPT !.reply = hashReceiver]
                     ELSE [sth EXCEPT !.reply = hashReceiver, !.blocksValid = FALSE, !.pc = "blocks"]
  /\ UNCHANGED <<state, stateValid, inProgress, completed>> /\ StateUnchanged

(* Trusts a state that was valid before.                                   *)
CheckStateTrusts ==
  /\ sth.pc = "check"
  /\ CASE sth.cur + MaxStateDeltas < sth.reply -> Again(stateValid)
       [] OTHER ->
            IF ~stateValid /\ (blk[sth.cur] = NoBlock \/ state # blk[sth.cur].state) THEN Again(FALSE)
            ELSE /\ stateValid' = TRUE
                 /\ sth' = IF sth.cur < sth.reply
                            THEN [sth EXCEPT !.pc = "play", !.at = sth.cur + 1, !.left = Peers]
                            ELSE [sth EXCEPT !.pc = "complete"]
  /\ UNCHANGED <<state, inProgress, hashReceiver, completed, blk, bsize, ranges, RecoverDamage, targets,
                 setting, bt, stPanic>>

(* The state against the state hash of its block.  The block is read from  *)
(* the ledger, which gives a nil block for one that is missing.            *)
CheckState ==
  /\ sth.pc = "check"
  /\ CASE sth.cur + MaxStateDeltas < sth.reply -> Again(stateValid) /\ UNCHANGED stPanic
       [] sth.cur + MaxStateDeltas >= sth.reply /\ blk[sth.cur] = NoBlock -> stPanic' = TRUE /\ UNCHANGED <<sth, stateValid>>
       [] OTHER ->
            /\ UNCHANGED stPanic
            /\ IF state # blk[sth.cur].state THEN Again(FALSE)
               ELSE /\ stateValid' = TRUE
                    /\ sth' = IF sth.cur < sth.reply
                               THEN [sth EXCEPT !.pc = "play", !.at = sth.cur + 1, !.left = Peers]
                               ELSE [sth EXCEPT !.pc = "complete"]
  /\ UNCHANGED <<state, inProgress, hashReceiver, completed, blk, bsize, ranges, RecoverDamage, targets,
                 setting, bt>>

(* playStateUpToBlockNumber: one delta of one peer, rolled back when the   *)
(* state it gives is not the state of the block.  A faulty peer's delta    *)
(* can lead to any state.                                                  *)
PlayDelta(p) ==
  LET fits == blk[sth.at] # NoBlock /\ (p \in Faulty \/ (state = sth.at - 1 /\ blk[sth.at] = Agreed(sth.at)))
  IN /\ sth.pc = "play" /\ p \in sth.left
     /\ \/ /\ fits
           /\ state' = blk[sth.at].state
           /\ sth' = IF sth.at = sth.reply THEN [sth EXCEPT !.pc = "complete"] ELSE [sth EXCEPT !.at = @ + 1]
           /\ UNCHANGED <<stateValid, stPanic>>
        \/ /\ p \in Faulty \/ ~HonestAnswer \/ (~fits /\ blk[sth.at] # NoBlock)
           /\ IF sth.left = {p} THEN Again(FALSE)
              ELSE sth' = [sth EXCEPT !.left = @ \ {p}] /\ UNCHANGED stateValid
           /\ UNCHANGED <<state, stPanic>>
        \/ /\ blk[sth.at] = NoBlock     \* the nil block is dereferenced
           /\ stPanic' = TRUE
           /\ UNCHANGED <<sth, state, stateValid>>
     /\ UNCHANGED <<inProgress, hashReceiver, completed, blk, bsize, ranges, RecoverDamage, targets, setting, bt>>

Complete ==
  /\ sth.pc = "complete"
  /\ inProgress' = FALSE
  /\ completed' = completed \cup {sth.reply}
  /\ sth' = IdleState
  /\ UNCHANGED <<state, stateValid, hashReceiver>> /\ StateUnchanged

-----------------------------------------------------------------------------
BlockThread == BlockSyncReply \/ VerifyAndRecoverBlockchain \/ RecoverEnds \/ \E p \in Peers : SyncBlock(p)
StateSteps == Attempt \/ AwaitTarget \/ CheckState \/ Complete
StateThread == StateSteps \/ \E p \in Peers : PlayDelta(p) \/ \E n \in SnapshotsAt : Snapshot(p, n)

STNext == ~stPanic /\ (Initiate \/ SetInProgress \/ AddTarget \/ BlockSyncReq \/ BlockThread \/ StateThread)

(* Every thread runs.  tryOverPeers starts at a random peer, and the peers *)
(* move on: a correct peer is again and again the first to be asked for a  *)
(* snapshot, at each of the heights considered.                            *)
STFairness ==
  /\ WF_stVars(~stPanic /\ SetInProgress) /\ WF_stVars(~stPanic /\ AddTarget)
  /\ WF_stVars(~stPanic /\ (BlockSyncReq \/ BlockThread))
  /\ WF_stVars(~stPanic /\ StateThread)
  /\ \A p \in Peers \ Faulty, n \in SnapshotsAt : SF_stVars(~stPanic /\ Snapshot(p, n))

STSpec == STInit /\ [][STNext]_stVars /\ STFairness

-----------------------------------------------------------------------------
(* Types.                                                                  *)
STTypeOK ==
  /\ \A n \in BlockNumbers : blk[n] \in {NoBlock, Agreed(n), WrongBlock(n)}
  /\ bsize \in 0 .. MaxBlock + 1
  /\ state \in BlockNumbers \cup {EmptyStateValue} \cup {Wrong(n) : n \in BlockNumbers}
  /\ hashReceiver \in BlockNumbers \cup {NoBlock}
  /\ \A i \in DOMAIN ranges : ranges[i].low <= ranges[i].high

(* When a transfer is complete, the replica has the block that consensus   *)
(* named and the state of that block, whatever the faulty peers sent: the  *)
(* hash checks of syncBlocks, attemptStateTransfer and                     *)
(* playStateUpToBlockNumber together.                                      *)
CompletedIsTarget ==
  sth.pc = "complete" => state = sth.reply /\ blk[sth.reply] = Agreed(sth.reply) /\ sth.reply < bsize

(* A block of the agreed chain is never replaced by another one, although  *)
(* the hash a recovered block is compared with may come from a block that  *)
(* failed its own check (syncBlocks, VerifyAndRecoverBlockchain).          *)
GoodBlocksStay == [][\A n \in BlockNumbers : blk[n] = Agreed(n) => blk'[n] = Agreed(n)]_stVars

(* A transfer that has begun ends, or waits for consensus to name a higher *)
(* target, unless the replica panicked or its own state is so old that the *)
(* deltas allowed do not reach the target (that error leaves stateValid).  *)
TooFar == stateValid /\ sth.reply # NoBlock /\ sth.cur + MaxStateDeltas < sth.reply
AwaitsTarget == sth.pc = "target" /\ targets = <<>> /\ hashReceiver = NoBlock
TransferEnds == sth.pc = "attempt" ~> (sth.pc = "idle" \/ AwaitsTarget \/ stPanic \/ TooFar)
=============================================================================
