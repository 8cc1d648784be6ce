----------------------------- MODULE FeeHelper -----------------------------
(***************************************************************************)
(* How the miner fills a block from the pool (src/mempool/feehelper.go).   *)
(* Everything here reads the committed database and writes nothing.        *)
(*                                                                         *)
(* A transaction names its inputs by hash, so its fee is the same in every *)
(* state in which it can be computed; whether it can be depends on what is *)
(* stored.                                                                 *)
(***************************************************************************)
EXTENDS Validator

CONSTANTS
  Miner,          \* pow.Config.MinerAddr
  TxSize,         \* TxSize[t]: tx.GetSize()
  CoinBaseSize,   \* size of the coinbase before its outputs get their values
  MaxBlockSize,
  MaxTxPerBlock,
  RechargeFee     \* RechargeFee[t]: what a recharge leaves to the miner

ASSUME MinerAssumption == Miner \in ProgramHash
ASSUME SizeAssumption ==
  /\ TxSize \in [TxID -> Nat \ {0}]
  /\ CoinBaseSize \in Nat /\ MaxBlockSize \in Nat /\ MaxTxPerBlock \in Nat

\* Base library: the inputs of anything but a recharge are looked up.
GetTxFeeFails(t) ==
  /\ ~IsRechargeToSideChainTx(t)
  /\ \E o \in Spends(t) : ~Stored(o.TxID) \/ o.Index \notin OutputIndexes(o.TxID)

\* Base library: ELA that goes in and does not come out.
GetTxFee(t) ==
  IF IsRechargeToSideChainTx(t)
  THEN RechargeFee[t]
  ELSE Int64(InputAmount(t, {ElaAssetId}) - OutputAmount(t, {ElaAssetId}))

\* What the main chain deposited is not less than what a recharge pays out, and
\* there are 33 million ELA of 10^8 sela: the fees of a block are far from 2^63.
ASSUME RewardAssumption ==
  /\ RechargeFee \in [TxID -> Nat]
  /\ \A b \in Blocks : MapThenSumSet(GetTxFee, BlockTxs(b) \ {b[1]}) < Int64Half

\* Base library: the lock time of t has passed at height h.
Final(t, h) == Txn[t].LockTime = 0 \/ Txn[t].LockTime < h

\* The orders that sorting the set S by fee, highest first, may end in: the
\* pool is a map and the sort is not stable.
ByFeeDesc(S) ==
  {s \in SetToSeqs(S) : \A i, j \in DOMAIN s : i < j => GetTxFee(s[j]) <= GetTxFee(s[i])}

\* Mutants of Pick: a transaction whose fee cannot be computed is put in the
\* block; one that does not fit does not end the block.
PickMissing(w, t, h) ==
  LET size == w.size + TxSize[t]
  IN  IF w.full \/ size > MaxBlockSize \/ 1 + Len(w.txs) >= MaxTxPerBlock
      THEN [w EXCEPT !.full = TRUE]
      ELSE IF ~Final(t, h)
      THEN [w EXCEPT !.size = size]
      ELSE [w EXCEPT !.size = size, !.txs = Append(@, t), !.fee = Int64(@ + GetTxFee(t))]

PickGoesOn(w, t, h) ==
  LET size == w.size + TxSize[t]
  IN  IF size > MaxBlockSize \/ 1 + Len(w.txs) >= MaxTxPerBlock
         \/ ~Final(t, h) \/ GetTxFeeFails(t)
      THEN w
      ELSE [w EXCEPT !.size = size, !.txs = Append(@, t), !.fee = Int64(@ + GetTxFee(t))]

\* One round of the loop over the sorted pool, for a block at height h.  The
\* size counts whether or not t is then passed over.
Pick(w, t, h) ==
  LET size == w.size + TxSize[t]
  IN  IF w.full \/ size > MaxBlockSize \/ 1 + Len(w.txs) >= MaxTxPerBlock
      THEN [w EXCEPT !.full = TRUE]
      ELSE IF ~Final(t, h) \/ GetTxFeeFails(t)
      THEN [w EXCEPT !.size = size]
      ELSE [w EXCEPT !.size = size, !.txs = Append(@, t), !.fee = Int64(@ + GetTxFee(t))]

\* The transactions picked, in order, and their fees.
Picked(order, h) ==
  FoldLeft(LAMBDA w, t : Pick(w, t, h),
           [full |-> FALSE, size |-> CoinBaseSize, txs |-> << >>, fee |-> 0], order)

\* Mutant of CoinbaseOutputs: the division comes before the multiplication.
CoinbaseOutputsDividesFirst(fee) ==
  LET part == 3 * (fee \div 10)
  IN  <<[ProgramHash |-> Foundation, AssetID |-> ElaAssetId, Value |-> part],
        [ProgramHash |-> Miner, AssetID |-> ElaAssetId, Value |-> Int64(fee - part)]>>

\* The coinbase pays the fees, 30% of them to the foundation.
CoinbaseOutputs(fee) ==
  LET part == ThirtyPercent(fee)
  IN  <<[ProgramHash |-> Foundation, AssetID |-> ElaAssetId, Value |-> part],
        [ProgramHash |-> Miner, AssetID |-> ElaAssetId, Value |-> Int64(fee - part)]>>
=============================================================================
