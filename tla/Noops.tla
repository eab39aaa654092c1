------------------------------- MODULE Noops -------------------------------
(***************************************************************************)
(* The NOOPS consenter (consensus/noops/noops.go, txq.go) on several       *)
(* validators.  A transaction is broadcast to the other validators and put *)
(* into the channel of the one that received it; one goroutine per         *)
(* validator moves transactions from the channel to a bounded queue and    *)
(* makes a block of the queue when it is full or the timer expires.        *)
(***************************************************************************)
EXTENDS Integers, Sequences, FiniteSets, SequencesExt

CONSTANTS
  Vals, Txs,
  BlockSize,        \* block.size
  NoopsChannel,     \* capacity of Noops.channel (100)
  MaxFaults         \* bound: failing calls of the ledger and of Broadcast

ASSUME BlockSizeAssumption == BlockSize \in Nat \ {0} /\ NoopsChannel \in Nat \ {0}

VARIABLES
  sent,             \* transactions received from clients
  wire,             \* consensus messages under way: <<to, tx>>
  channel, txQ,     \* per validator
  noopsTimer,       \* per validator: whether it runs, and the expiry in its channel
  noopsChain,            \* per validator: the blocks committed
  noopsFailed,           \* per validator: transactions of batches that were rolled back
  overrun,          \* per validator: transactions that found the queue full
  refused,          \* per validator: transactions whose broadcast failed here
  noopsFaults

noopsVars == <<sent, wire, channel, txQ, noopsTimer, noopsChain, noopsFailed, overrun, refused, noopsFaults>>

NoopsInit ==
  /\ sent = {} /\ wire = {} /\ noopsFaults = 0
  /\ channel = [v \in Vals |-> <<>>] /\ txQ = [v \in Vals |-> <<>>]
  /\ noopsTimer = [v \in Vals |-> [runs |-> FALSE, c |-> 0]]
  /\ noopsChain = [v \in Vals |-> <<>>]
  /\ noopsFailed = [v \in Vals |-> {}] /\ overrun = [v \in Vals |-> {}] /\ refused = [v \in Vals |-> {}]

(* RecvMsg of a transaction: broadcastConsensusMsg turns the message into  *)
(* a consensus message; if some validator could not be reached the error   *)
(* is returned, and the others have it.  Else RecvMsg goes on with it as a *)
(* consensus message of its own.                                           *)
broadcastConsensusMsg(v, tx, reached) == wire' = wire \cup {<<w, tx>> : w \in reached}

RecvTransaction(v, tx) ==
  /\ tx \notin sent
  /\ sent' = sent \cup {tx}
  /\ \/ broadcastConsensusMsg(v, tx, Vals) /\ UNCHANGED <<refused, noopsFaults>>
     \/ /\ noopsFaults < MaxFaults
        /\ \E w \in Vals \ {v} : broadcastConsensusMsg(v, tx, Vals \ {v, w})
        /\ refused' = [refused EXCEPT ![v] = @ \cup {tx}]
        /\ noopsFaults' = noopsFaults + 1
  /\ UNCHANGED <<channel, txQ, noopsTimer, noopsChain, noopsFailed, overrun>>

(* RecvMsg of a consensus message, which waits while the channel is full.  *)
RecvConsensusTx(v) ==
  \E m \in wire :
    /\ m[1] = v /\ Len(channel[v]) < NoopsChannel
    /\ wire' = wire \ {m}
    /\ channel' = [channel EXCEPT ![v] = Append(@, m[2])]
    /\ UNCHANGED <<sent, txQ, noopsTimer, noopsChain, noopsFailed, overrun, refused, noopsFaults>>

(* processTransactions: BeginTxBatch may fail and leave the queue as it    *)
(* is; ExecTxs or CommitTxBatch may fail, and the batch is rolled back.    *)
processTransactions(v, q) ==
  \/ /\ noopsChain' = [noopsChain EXCEPT ![v] = Append(@, q)]
     /\ txQ' = [txQ EXCEPT ![v] = <<>>]
     /\ UNCHANGED <<noopsFailed, noopsFaults>>
  \/ /\ noopsFaults < MaxFaults
     /\ noopsFaults' = noopsFaults + 1
     /\ \/ txQ' = [txQ EXCEPT ![v] = q] /\ UNCHANGED noopsFailed
        \/ txQ' = [txQ EXCEPT ![v] = <<>>] /\ noopsFailed' = [noopsFailed EXCEPT ![v] = @ \cup ToSet(q)]
     /\ UNCHANGED noopsChain

(* processBlock stops the timer; an expiry may stay in its channel.        *)
processBlock(v, q, timer) ==
  /\ noopsTimer' = [noopsTimer EXCEPT ![v] = [timer EXCEPT !.runs = FALSE]]
  /\ IF q = <<>> THEN UNCHANGED <<txQ, noopsChain, noopsFailed, noopsFaults>> ELSE processTransactions(v, q)

(* Forgets the capacity of the queue.                                      *)
txqAppendUnbounded(q, tx) == Append(q, tx)

txqAppend(q, tx) == IF Len(q) < BlockSize THEN Append(q, tx) ELSE q
isFull(q) == Len(q) = BlockSize

(* canProcessBlock appends the transaction, and starts the timer for the   *)
(* first of a block.                                                       *)
canProcessBlock(q, timer) ==
  [full |-> isFull(q), timer |-> IF Len(q) = 1 THEN [timer EXCEPT !.runs = TRUE] ELSE timer]

(* handleChannels takes a transaction, or an expiry.                       *)
HandleTx(v) ==
  LET q == txqAppend(txQ[v], Head(channel[v]))
      can == canProcessBlock(q, noopsTimer[v])
  IN /\ channel[v] # <<>>
     /\ channel' = [channel EXCEPT ![v] = Tail(@)]
     /\ overrun' = [overrun EXCEPT ![v] = IF q = txQ[v] THEN @ \cup {Head(channel[v])} ELSE @]
     /\ IF can.full
          THEN processBlock(v, q, can.timer)
          ELSE /\ txQ' = [txQ EXCEPT ![v] = q] /\ noopsTimer' = [noopsTimer EXCEPT ![v] = can.timer]
               /\ UNCHANGED <<noopsChain, noopsFailed, noopsFaults>>
     /\ UNCHANGED <<sent, wire, refused>>

HandleTimer(v) ==
  /\ noopsTimer[v].c = 1
  /\ processBlock(v, txQ[v], [noopsTimer[v] EXCEPT !.c = 0])
  /\ UNCHANGED <<sent, wire, channel, overrun, refused>>

NoopsTimerFires(v) ==
  /\ noopsTimer[v].runs
  /\ noopsTimer' = [noopsTimer EXCEPT ![v] = [runs |-> FALSE, c |-> 1]]
  /\ UNCHANGED <<sent, wire, channel, txQ, noopsChain, noopsFailed, overrun, refused, noopsFaults>>

handleChannels(v) == HandleTx(v) \/ HandleTimer(v)

NoopsNext ==
  \E v \in Vals : \/ \E tx \in Txs : RecvTransaction(v, tx)
                 \/ RecvConsensusTx(v) \/ handleChannels(v) \/ NoopsTimerFires(v)

(* Messages arrive, timers expire, and each validator's goroutine runs.    *)
NoopsFairness ==
  \A v \in Vals : /\ WF_noopsVars(RecvConsensusTx(v)) /\ WF_noopsVars(handleChannels(v))
                 /\ WF_noopsVars(NoopsTimerFires(v))

NoopsSpec == NoopsInit /\ [][NoopsNext]_noopsVars /\ NoopsFairness

-----------------------------------------------------------------------------
InChain(v) == ToSet(FlattenSeq(noopsChain[v]))

(* Types.                                                                  *)
NoopsTypeOK ==
  \A v \in Vals :
    /\ channel[v] \in Seq(Txs) /\ Len(channel[v]) <= NoopsChannel
    /\ txQ[v] \in Seq(Txs) /\ Len(txQ[v]) <= BlockSize
    /\ noopsTimer[v].runs \in BOOLEAN /\ noopsTimer[v].c \in 0 .. 1

(* Each transaction is at one place of a validator at most: it is executed *)
(* once, not again after a rollback, and none disappears unless the queue  *)
(* was still full because a batch could not begin (txq.append).            *)
ExecutedOnce ==
  \A v \in Vals :
    LET places == FlattenSeq(noopsChain[v]) \o txQ[v] \o channel[v] \o SetToSeq(noopsFailed[v]) \o SetToSeq(overrun[v])
                  \o SetToSeq(refused[v]) \o SetToSeq({m[2] : m \in {x \in wire : x[1] = v}})
    IN /\ Cardinality(ToSet(places)) = Len(places)
       /\ noopsFaults = 0 => ToSet(places) = sent

(* If no call fails, every validator executes every transaction, although  *)
(* a stale expiry of the timer may close a block early or find an empty    *)
(* queue (processBlock stops the timer without emptying its channel).      *)
EverywhereExecuted ==
  \A v \in Vals, tx \in Txs : tx \in sent ~> (tx \in InChain(v) \/ noopsFaults > 0)
=============================================================================
