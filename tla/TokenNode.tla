----------------------------- MODULE TokenNode -----------------------------
(***************************************************************************)
(* The node that main.go assembles: chain, pool, miner and network at work *)
(* at the same time.                                                       *)
(*                                                                         *)
(* Pool and miner are goroutines of the base library; the token chain      *)
(* gives them its validator and GenerateBlockTransactions.  Making a block *)
(* takes four steps: the miner fixes the parent, the fee helper reads the  *)
(* best height and then the pool, and much later, when the proof of work   *)
(* is found, the block is handed to the chain.  Transactions and blocks    *)
(* from elsewhere, and reorganisations, come in between.                   *)
(***************************************************************************)
EXTENDS FeeHelper

CONSTANT NetBlocks   \* the blocks that other nodes may send
ASSUME NetBlocksAssumption == NetBlocks \subseteq Blocks

VARIABLES
  pool,      \* the transactions of the pool
  mining     \* what the miner is doing

nodeVars == <<vars, pool, mining>>

Idle == [pc |-> "idle", parent |-> << >>, next |-> 0, block |-> << >>]

NodeInit == Init /\ pool = {} /\ mining = Idle

-----------------------------------------------------------------------------
(* The pool (base library).                                                *)

\* s and t cannot both be in a pool or in a block.
Conflict(s, t) ==
  \/ Spends(s) \cap Spends(t) # {}
  \/ /\ IsRechargeToSideChainTx(s) /\ IsRechargeToSideChainTx(t)
     /\ Txn[s].MainchainTx = Txn[t].MainchainTx

\* Mutant of Admissible: the rest of the pool is not looked at.
AdmissibleAlone(t) ==
  /\ t \notin pool /\ ~IsCoinBaseTx(t) /\ IsInjective(Txn[t].Inputs)
  /\ CheckTransactionSanity(t)
  /\ CheckTxContext(t) /\ AssetNameIsNew(t) /\ CheckTransactionContext(t)

\* t passes the checks at the tip and conflicts with nothing in the pool.
Admissible(t) ==
  /\ t \notin pool /\ ~IsCoinBaseTx(t) /\ IsInjective(Txn[t].Inputs)
  /\ CheckTransactionSanity(t)
  /\ CheckTxContext(t) /\ AssetNameIsNew(t) /\ CheckTransactionContext(t)
  /\ \A s \in pool : ~Conflict(s, t)

AppendToTxPool(t) ==
  /\ Admissible(t)
  /\ pool' = pool \cup {t}
  /\ UNCHANGED <<vars, mining>>

\* Mutant of CleanSubmittedTransactions: conflicting transactions stay.
CleanSubmittedOnly(b) == pool \ BlockTxs(b)

\* A block takes its transactions out of the pool, and what conflicts with
\* them.
CleanSubmittedTransactions(b) ==
  {t \in pool : t \notin BlockTxs(b) /\ \A s \in BlockTxs(b) : ~Conflict(s, t)}

-----------------------------------------------------------------------------
(* The miner.                                                              *)

\* pow.GenerateBlock (base library): the header names the tip.
CreateBlock ==
  /\ mining.pc = "idle" /\ Height < MaxHeight
  /\ mining' = [Idle EXCEPT !.pc = "created", !.parent = chain]
  /\ UNCHANGED <<vars, pool>>

ReadBestHeight ==
  /\ mining.pc = "created"
  /\ mining' = [mining EXCEPT !.pc = "height", !.next = Height + 1]
  /\ UNCHANGED <<vars, pool>>

\* The coinbases that pay the reward at the height of the block.
CoinBases(reward) ==
  {c \in TxID : /\ IsCoinBaseTx(c)
                /\ Txn[c].LockTime = Len(mining.parent) + 1
                /\ Outputs(c) = CoinbaseOutputs(reward)}

GenerateBlockTransactions ==
  /\ mining.pc = "height"
  /\ \E order \in ByFeeDesc(pool) :
       LET w == Picked(order, mining.next)
       IN  \E c \in CoinBases(w.fee) :
             /\ <<c>> \o w.txs \in Blocks
             /\ mining' = [mining EXCEPT !.pc = "solving", !.block = <<c>> \o w.txs]
  /\ UNCHANGED <<vars, pool>>

\* Base library: a block is accepted on top of its parent, when all of its
\* transactions are final and pass the checks of the token chain.
Acceptable(b, parent) ==
  /\ parent = chain
  /\ \A t \in BlockTxs(b) : ~IsCoinBaseTx(t) => Final(t, Height + 1)
  /\ ValidatedBlock(b)

SubmitBlock ==
  /\ mining.pc = "solving"
  /\ mining' = Idle
  /\ IF Acceptable(mining.block, mining.parent) /\ PersistSucceeds(mining.block)
     THEN /\ PersistBlock(mining.block)
          /\ pool' = CleanSubmittedTransactions(mining.block)
     ELSE UNCHANGED <<vars, pool>>

MinerStep == CreateBlock \/ ReadBestHeight \/ GenerateBlockTransactions \/ SubmitBlock

-----------------------------------------------------------------------------
\* A block of another node.
ReceiveBlock(b) ==
  /\ Acceptable(b, chain)
  /\ PersistBlock(b)
  /\ pool' = CleanSubmittedTransactions(b)
  /\ UNCHANGED mining

\* A reorganisation takes the tip away and leaves the pool alone.
DisconnectBlock == RollbackBlock /\ UNCHANGED <<pool, mining>>

Grow ==
  \/ \E t \in TxID : AppendToTxPool(t)
  \/ \E b \in NetBlocks : ReceiveBlock(b)
  \/ MinerStep

NodeNext == Grow \/ DisconnectBlock

NodeSpec == NodeInit /\ [][NodeNext]_nodeVars

\* The miner loops for as long as the node runs: it always takes its next
\* turn, whatever the chain then does with its block.  Nothing is asked of
\* anyone else.
MinerTurn ==
  \/ CreateBlock \/ ReadBestHeight \/ GenerateBlockTransactions
  \/ mining.pc = "solving" /\ mining' = Idle

MinerFairness == WF_mining(MinerTurn)

NodeSpecNoReorg == NodeInit /\ [][Grow]_nodeVars /\ MinerFairness

-----------------------------------------------------------------------------
(* Properties.                                                             *)

\* No transaction of the pool is in the chain, nor is any of its inputs spent
\* there: whatever blocks came and went since it was admitted, an input is
\* unspent or its transaction is gone.
PoolUnspent ==
  \A t \in pool :
    /\ ~Stored(t)
    /\ \A o \in Spends(t) : Stored(o.TxID) => o.Index \in unspent[o.TxID]

\* A block in the making keeps both limits, counts its coinbase, and pays its
\* coinbase what its transactions leave, in a way that the validator accepts.
TemplateSound ==
  mining.pc = "solving" =>
    LET b == mining.block
        txs == BlockTxs(b) \ {b[1]}
    IN  /\ Len(b) <= MaxTxPerBlock \/ txs = {}
        /\ txs = {} \/ CoinBaseSize + MapThenSumSet(LAMBDA t : TxSize[t], txs) <= MaxBlockSize
        /\ OutputAmount(b[1], {ElaAssetId}) = MapThenSumSet(GetTxFee, txs)
        /\ CheckCoinbaseOutput(b[1])

\* The fee helper leaves nothing out that could be included and pays more
\* than something it takes, even though a transaction that it passes over
\* uses up room.
TakesBestPaying ==
  [][mining.pc = "height" /\ mining'.pc = "solving" =>
       LET taken == BlockTxs(mining'.block)
       IN  \A t \in pool \ taken : \A s \in taken \cap pool :
             Final(t, mining.next) /\ ~GetTxFeeFails(t) => GetTxFee(t) <= GetTxFee(s)]_nodeVars

\* What the fee helper takes can be spent there and then, although the pool
\* was filled at other tips: it skips what has lost an input, and the pool
\* has dropped what lost the race for one.
TakesSpendable ==
  [][mining.pc = "height" /\ mining'.pc = "solving" =>
       \A t \in BlockTxs(mining'.block) \cap pool : \A o \in Spends(t) :
         o.Index \in unspent[o.TxID]]_nodeVars

\* The node's own block, when the tip is still its parent.
OwnBlock == mining.pc = "solving" /\ mining.parent = chain

NameTaken(t) == ~AssetNameIsNew(t)

\* As long as no block is taken back, the chain refuses a block that the node
\* made on its tip for one reason only: the pool is not rid of a registration
\* whose name another block has taken in the meantime.
OwnBlockAccepted ==
  OwnBlock => \/ Acceptable(mining.block, mining.parent)
              \/ \E t \in BlockTxs(mining.block) : NameTaken(t)

\* After reorganisations there are four more reasons: the chain was elsewhere
\* when the pool was read, so the block holds what the pool has given up; a
\* coinbase that is spent is no longer mature; an input or the asset of an
\* output is not in the chain any more; a lock time that had passed at the
\* height the fee helper read is ahead again.
OwnBlockRefusedKnown ==
  OwnBlock /\ ~Acceptable(mining.block, mining.parent) =>
    \E t \in BlockTxs(mining.block) \ {mining.block[1]} :
      \/ NameTaken(t)
      \/ t \notin pool
      \/ \E o \in Spends(t) :
           ~Stored(o.TxID) \/ (IsCoinBaseTx(o.TxID) /\ ~Mature(o.TxID))
      \/ ~IsRegisterAssetTx(t)
         /\ \E i \in OutputIndexes(t) : assets[Outputs(t)[i].AssetID] = Absent
      \/ ~Final(t, Height + 1)

\* A transaction that ends every block before anything is picked, when it
\* pays best, and one that makes every block that takes it unacceptable.
Blocker(t) == CoinBaseSize + TxSize[t] > MaxBlockSize \/ NameTaken(t)

Regular == {t \in TxID \ {ElaAssetId} : ~IsCoinBaseTx(t)}

\* A transaction that waits while the chain has room for more blocks than
\* there are transactions to come, as one block may have been begun without
\* any, is mined or loses to a conflicting one, unless the pool holds a
\* blocker: those stay for ever and stop the miner.
WaitingIsMined ==
  \A t \in Regular :
    t \in pool /\ MaxHeight - Height > Cardinality({s \in Regular : ~Stored(s)})
      ~> t \notin pool \/ \E s \in pool : Blocker(s)

-----------------------------------------------------------------------------
\* What the node knows of t.
Status ==
  [t \in TxID |-> IF Stored(t) THEN "confirmed" ELSE IF t \in pool THEN "waiting" ELSE "unknown"]

Conflicts == {p \in TxID \X TxID : Conflict(p[1], p[2])}

T == INSTANCE TxLife WITH Transactions <- TxID, Excludes <- Conflicts, status <- Status

\* Of two transactions that conflict the node never holds both, one in the
\* pool and one in the chain or both in the same place: every step of the
\* node is one of TxLife, although the pool is not told of reorganisations.
ImplementsTxLife == T!Spec

\* The chain of the node is one that the validator and the store allow.
ImplementsValidator == ValidatorSpec
=============================================================================
