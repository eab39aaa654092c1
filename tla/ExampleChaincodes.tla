-------------------------- MODULE ExampleChaincodes --------------------------
(***************************************************************************)
(* Three of the example chaincodes, run one transaction at a time on the   *)
(* state of a validator: the unspent outputs of examples/chaincode/go/utxo *)
(* (Bitcoin transactions), the ownership table of asset_management and the *)
(* payments of chaincode_example02.                                        *)
(*                                                                         *)
(* Each read and write of the state is a step, and may fail; the effects   *)
(* of a transaction stay in the working state until it ends, and are kept  *)
(* only if the chaincode returns no error.  Scripts and signatures are     *)
(* whether they verify; the hash of a Bitcoin transaction is its name.     *)
(***************************************************************************)
EXTENDS Integers, Sequences, FiniteSets, Functions

CONSTANTS
  BitcoinTxs,    \* [hash, outs: values, ins: <<hash, index>> or Coinbase, signed]
  Coinbase,      \* an input whose index is MaxUint32
  Assets, Users, Admin,
  Entities, Amounts,
  UintSize,      \* number of values of an uint64
  MaxExamples,   \* bound: transactions
  MaxStoreErrors \* bound: failing calls of the stub

VARIABLES
  exState,   \* the committed state: [utxo, owner, hold]
  exWork,    \* the state the running transaction sees
  exTx,      \* the running transaction and where it is
  exIssued,  \* ghost: what the committed transactions entitle to: [utxo, hold, deed]
  exCount, exErrors

exVars == <<exState, exWork, exTx, exIssued, exCount, exErrors>>

NoExTx == [kind |-> "none"]

EmptyMap == [x \in {} |-> 0]

\* Init of the chaincodes: two entities with their holdings, no asset, no output.
ExInit ==
  /\ \E h \in [Entities -> Amounts] :
       /\ exState = [utxo |-> EmptyMap, owner |-> EmptyMap, hold |-> h]
       /\ exIssued = [utxo |-> 0, deed |-> EmptyMap, hold |-> FoldFunction(LAMBDA v, s : v + s, 0, h)]
  /\ exWork = exState /\ exTx = NoExTx /\ exCount = 0 /\ exErrors = 0

WithEntry(f, k, v) == [x \in DOMAIN f \cup {k} |-> IF x = k THEN v ELSE f[x]]

WithoutEntry(f, k) == Restrict(f, DOMAIN f \ {k})

Total(f) == FoldFunction(LAMBDA v, s : v + s, 0, f)

-----------------------------------------------------------------------------
(* The transaction around the chaincode.                                   *)

BeginExample(t) ==
  /\ exTx = NoExTx /\ exCount < MaxExamples
  /\ exTx' = t /\ exWork' = exState /\ exCount' = exCount + 1
  /\ UNCHANGED <<exState, exIssued, exErrors>>

\* Keeps the changes of a transaction that failed.
RollbackExampleKeeps == /\ exTx' = NoExTx /\ exState' = exWork /\ UNCHANGED <<exWork, exIssued>>

\* An error of the chaincode: TxFinished(uuid, false) drops its changes.
RollbackExample == /\ exTx' = NoExTx /\ exWork' = exState /\ UNCHANGED <<exState, exIssued>>

CommitExample(work, issued) ==
  /\ exState' = work /\ exWork' = work /\ exIssued' = issued /\ exTx' = NoExTx

\* A call of the stub fails and the chaincode returns the error.
StubError ==
  /\ exTx # NoExTx /\ exErrors < MaxStoreErrors
  /\ exTx.kind = "utxo" => exTx.at <= Len(exTx.tx.outs) + Len(exTx.tx.ins)
  /\ exErrors' = exErrors + 1 /\ RollbackExample /\ UNCHANGED exCount

-----------------------------------------------------------------------------
(* utxo                                                                    *)

StartUTXO(tx) == BeginExample([kind |-> "utxo", tx |-> tx, at |-> 1, sumOut |-> 0, sumIn |-> 0,
                               coinbase |-> FALSE, kept |-> 0])

Outs == Len(exTx.tx.outs)

\* Outputs first; the error of PutState is not looked at.
StoreOutput ==
  /\ exTx.kind = "utxo" /\ exTx.at <= Outs /\ UNCHANGED exCount
  /\ LET key == <<exTx.tx.hash, exTx.at - 1>>
         value == exTx.tx.outs[exTx.at]
     IN  IF key \in DOMAIN exWork.utxo THEN RollbackExample /\ UNCHANGED exErrors
         ELSE /\ \/ exWork' = [exWork EXCEPT !.utxo = WithEntry(@, key, value)] /\ UNCHANGED exErrors
                 \/ exErrors < MaxStoreErrors /\ exErrors' = exErrors + 1 /\ UNCHANGED exWork
              /\ exTx' = [exTx EXCEPT !.at = @ + 1, !.sumOut = (@ + value) % UintSize]
              /\ UNCHANGED <<exState, exIssued>>

\* Then the inputs; nor is the error of DelState (kept: the value it leaves).
SpendInput ==
  /\ exTx.kind = "utxo" /\ exTx.at \in Outs + 1 .. Outs + Len(exTx.tx.ins) /\ UNCHANGED exCount
  /\ LET key == exTx.tx.ins[exTx.at - Outs]
         next == [exTx EXCEPT !.at = @ + 1]
     IN  IF key = Coinbase
         THEN /\ exTx' = [next EXCEPT !.coinbase = TRUE]
              /\ UNCHANGED <<exWork, exState, exIssued, exErrors>>
         ELSE IF key \notin DOMAIN exWork.utxo \/ ~exTx.tx.signed
         THEN RollbackExample /\ UNCHANGED exErrors
         ELSE LET value == exWork.utxo[key]
                  spent == [next EXCEPT !.sumIn = (@ + value) % UintSize]
              IN  /\ \/ /\ exWork' = [exWork EXCEPT !.utxo = WithoutEntry(@, key)]
                        /\ exTx' = spent /\ UNCHANGED exErrors
                     \/ /\ exErrors < MaxStoreErrors /\ exErrors' = exErrors + 1
                        /\ exTx' = [spent EXCEPT !.kept = @ + value] /\ UNCHANGED exWork
                  /\ UNCHANGED <<exState, exIssued>>

\* The comparison of the sums.
EndUTXO ==
  /\ exTx.kind = "utxo" /\ exTx.at > Outs + Len(exTx.tx.ins)
  /\ IF ~exTx.coinbase /\ exTx.sumOut > exTx.sumIn THEN RollbackExample
     ELSE CommitExample(exWork, [exIssued EXCEPT !.utxo = @ + exTx.kept +
                                   (IF exTx.coinbase THEN exTx.sumOut ELSE 0)])
  /\ UNCHANGED <<exCount, exErrors>>

-----------------------------------------------------------------------------
(* asset_management.  isCaller: the metadata is a signature by that key.   *)

StartAsset(kind, asset, to, signer) ==
  BeginExample([kind |-> kind, asset |-> asset, to |-> to, signer |-> signer, at |-> 1])

\* Ghost: the asset is entitled to the new owner if the signer may give it.
Deed(mayGive) == IF mayGive THEN [exIssued EXCEPT !.deed = WithEntry(@, exTx.asset, exTx.to)] ELSE exIssued

assign ==
  /\ exTx.kind = "assign" /\ UNCHANGED <<exCount, exErrors>>
  /\ IF exTx.signer # Admin \/ exTx.asset \in DOMAIN exWork.owner THEN RollbackExample
     ELSE CommitExample([exWork EXCEPT !.owner = WithEntry(@, exTx.asset, exTx.to)],
                        Deed(exTx.signer = Admin /\ exTx.asset \notin DOMAIN exIssued.deed))

\* transfer: the check of the owner and DeleteRow, then InsertRow.  The row of
\* an unassigned asset has no columns: the chaincode panics.
transferDelete ==
  /\ exTx.kind = "transfer" /\ exTx.at = 1 /\ UNCHANGED <<exCount, exErrors>>
  /\ IF exTx.asset \notin DOMAIN exWork.owner THEN RollbackExample
     ELSE IF exTx.signer # exWork.owner[exTx.asset] THEN RollbackExample
     ELSE /\ exWork' = [exWork EXCEPT !.owner = WithoutEntry(@, exTx.asset)]
          /\ exTx' = [exTx EXCEPT !.at = 2] /\ UNCHANGED <<exState, exIssued>>

transferInsert ==
  /\ exTx.kind = "transfer" /\ exTx.at = 2 /\ UNCHANGED <<exCount, exErrors>>
  /\ CommitExample([exWork EXCEPT !.owner = WithEntry(@, exTx.asset, exTx.to)],
                   Deed(exIssued.deed[exTx.asset] = exTx.signer))

-----------------------------------------------------------------------------
(* chaincode_example02                                                     *)

\* Invoke: both entities are read, then both written.
StartPayment(a, b, x) == BeginExample([kind |-> "pay", from |-> a, to |-> b, x |-> x, at |-> 1, bval |-> 0])

payFrom ==
  /\ exTx.kind = "pay" /\ exTx.at = 1 /\ UNCHANGED <<exCount, exErrors>>
  /\ IF {exTx.from, exTx.to} \subseteq DOMAIN exWork.hold
     THEN /\ exTx' = [exTx EXCEPT !.at = 2, !.bval = exWork.hold[exTx.to] + exTx.x]
          /\ exWork' = [exWork EXCEPT !.hold[exTx.from] = @ - exTx.x]
          /\ UNCHANGED <<exState, exIssued>>
     ELSE RollbackExample

\* When both are the same entity it has gained x.
payTo ==
  /\ exTx.kind = "pay" /\ exTx.at = 2 /\ UNCHANGED <<exCount, exErrors>>
  /\ CommitExample([exWork EXCEPT !.hold[exTx.to] = exTx.bval],
                   [exIssued EXCEPT !.hold = @ + (IF exTx.from = exTx.to THEN exTx.x ELSE 0)])

delete(a) ==
  /\ exTx = NoExTx /\ exCount < MaxExamples /\ exCount' = exCount + 1
  /\ CommitExample([exState EXCEPT !.hold = WithoutEntry(@, a)],
                   [exIssued EXCEPT !.hold = @ - (IF a \in DOMAIN exState.hold THEN exState.hold[a] ELSE 0)])
  /\ UNCHANGED exErrors

-----------------------------------------------------------------------------
ExNext ==
  \/ \E tx \in BitcoinTxs : StartUTXO(tx)
  \/ StoreOutput
  \/ SpendInput
  \/ EndUTXO
  \/ \E kind \in {"assign", "transfer"}, a \in Assets, to \in Users, s \in Users \cup {Admin} :
       StartAsset(kind, a, to, s)
  \/ assign
  \/ transferDelete
  \/ transferInsert
  \/ \E a, b \in Entities, x \in Amounts : StartPayment(a, b, x)
  \/ payFrom
  \/ payTo
  \/ \E a \in Entities : delete(a)
  \/ StubError

ExSpec == ExInit /\ [][ExNext]_exVars

-----------------------------------------------------------------------------
ExTypeOK ==
  /\ exCount \in 0 .. MaxExamples /\ exErrors \in 0 .. MaxStoreErrors
  /\ DOMAIN exState.owner \subseteq Assets /\ DOMAIN exState.hold \subseteq Entities
  /\ exTx.kind \in {"none", "utxo", "assign", "transfer", "pay"}
  /\ exTx = NoExTx => exWork = exState

\* Nothing from nothing, whatever transaction fails half way: the unspent
\* outputs are worth at most what coinbase transactions issued (and what an
\* ignored error of DelState left unspent); the holdings of example02 are what
\* they were given (a payment of an entity to itself adds to it); an asset,
\* once the administrator has assigned it, always has an owner, the one its
\* last owner signed it over to.  The outputs of each transaction must not
\* overflow the sum of uint64.
EntitlementsKept ==
  (\A tx \in BitcoinTxs : Total(tx.outs) < UintSize) =>
    /\ Total(exState.utxo) <= exIssued.utxo
    /\ Total(exState.hold) = exIssued.hold
    /\ exState.owner = exIssued.deed
=============================================================================
