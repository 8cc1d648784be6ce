----------------------------- MODULE Validator -----------------------------
(***************************************************************************)
(* The token chain's transaction checks (src/mempool/validator.go) in      *)
(* front of its database.  NewValidator replaces five checks of the base   *)
(* validator and adds one; main.go hands them to the chain, so a block     *)
(* reaches the store only when they accept each of its transactions.       *)
(*                                                                         *)
(* Sanity checks look at every transaction.  The context checks end with   *)
(* success at a coinbase or a recharge before they come to the balance     *)
(* (base library: neither has inputs to balance, so neither could ever     *)
(* pass checkTransactionBalanceImpl).                                      *)
(***************************************************************************)
EXTENDS TokenChainStore

CONSTANTS
  Foundation,             \* chainParams.Foundation
  EmptyHash,              \* the asset id that is no asset
  ValidAddress,           \* the addresses that checkOutputProgramHash accepts
  WellNamed,              \* assets whose name and description have legal characters
  AssetPrecision,         \* AssetPrecision[a]: the Precision field of asset a
  MinPrecision,
  ElaDigits,              \* decimal digits of one unit of ELA: 8
  TokenDigits,            \* decimal digits of one unit of a token: 18
  CoinbaseMaturity,
  MinTransactionFee, MinCrossChainTxFee, MinRegisterAssetTxFee,
  Int64Half,              \* 2^63: amounts of ELA wrap at this
  Uint32Size              \* 2^32: heights wrap at this

ASSUME FoundationAssumption == Foundation \in ProgramHash
ASSUME PrecisionAssumption ==
  /\ AssetPrecision \in [AssetID -> Nat]
  /\ AssetPrecision[ElaAssetId] = ElaDigits
  /\ ElaDigits \in Nat /\ TokenDigits \in Nat /\ MinPrecision \in Nat
ASSUME MaturityAssumption ==
  /\ CoinbaseMaturity \in Nat /\ Uint32Size \in Nat \ {0}
  /\ MaxHeight < Uint32Size

ASSUME FeeAssumption ==
  /\ MinTransactionFee \in Nat /\ MinCrossChainTxFee \in Nat /\ MinRegisterAssetTxFee \in Nat
  /\ Int64Half \in Nat \ {0}

\* A token value was read from bytes, without a sign (outputhelper.go).
ASSUME TokenValueAssumption ==
  \A t \in TxID : \A i \in OutputIndexes(t) :
    Txn[t].Outputs[i].AssetID # ElaAssetId => Txn[t].Outputs[i].Value >= 0

-----------------------------------------------------------------------------
(* Arithmetic.                                                             *)

\* Fixed64 is an int64: sums of it wrap.
Int64(x) == ((x + Int64Half) % (2 * Int64Half)) - Int64Half

\* The powers of ten.
Pow10[n \in Nat] == IF n = 0 THEN 1 ELSE 10 * Pow10[n - 1]

Outputs(t) == Txn[t].Outputs

\* The sum of the values of the outputs in O.
TotalValue(O) == MapThenSumSet(LAMBDA o : OutputAt(o).Value, O)

\* The amounts that t pays out and takes in, of the assets in S.
OutputAmount(t, S) == TotalValue({o \in ToSet(Makes(t)) : OutputAt(o).AssetID \in S})

InputAmount(t, S) == TotalValue({o \in Spends(t) : OutputAt(o).AssetID \in S})

Tokens == AssetID \ {ElaAssetId}

\* Fixed64(float64(total) * 0.3): the conversion truncates towards zero, and
\* the product is exact enough for that below 2^50.
ThirtyPercent(total) ==
  IF total >= 0 THEN (3 * total) \div 10 ELSE -((-3 * total) \div 10)

-----------------------------------------------------------------------------
(* Sanity checks.                                                          *)

\* A coinbase pays the foundation 30% of the reward at least; Value of a token
\* output is zero, so only ELA counts.
CheckCoinbaseOutput(t) ==
  LET inEla == {o \in ToSet(Makes(t)) : OutputAt(o).AssetID = ElaAssetId}
      Reward(O) == Int64(TotalValue(O))
  IN  /\ Len(Outputs(t)) >= 2
      /\ Reward({o \in inEla : OutputAt(o).ProgramHash = Foundation})
           >= ThirtyPercent(Reward(inEla))

IsCrossChain(t) == Txn[t].TxType \in {"RechargeToSideChain", "TransferCrossChainAsset"}

CheckOutputs(t) ==
  /\ Outputs(t) # << >>
  /\ \A i \in OutputIndexes(t) :
       /\ Outputs(t)[i].AssetID # EmptyHash
       /\ Outputs(t)[i].AssetID # ElaAssetId => ~IsCrossChain(t)
       /\ Outputs(t)[i].Value >= 0
       /\ Outputs(t)[i].ProgramHash \in ValidAddress

checkTransactionOutputImpl(t) ==
  IF IsCoinBaseTx(t) THEN CheckCoinbaseOutput(t) ELSE CheckOutputs(t)

\* Mutant of checkTokenAmountPrecise: the digits that may be used are zero.
checkTokenAmountPreciseSwapped(amount, precision) ==
  (amount % Pow10[TokenDigits]) % Pow10[precision] = 0

\* The last 18 decimal digits of the amount end in zeros beyond the precision.
checkTokenAmountPrecise(amount, precision) ==
  (amount % Pow10[TokenDigits]) % Pow10[TokenDigits - precision] = 0

\* The difference of the two precisions is a byte.
checkAmountPrecise(amount, precision) ==
  amount % Pow10[(ElaDigits - precision) % 256] = 0

\* Mutant of checkAssetPrecisionImpl: an unknown asset is passed over.
checkAssetPrecisionSkipsUnknown(t) ==
  ~IsRegisterAssetTx(t) =>
    \A i \in OutputIndexes(t) :
      LET a == Outputs(t)[i].AssetID
      IN  a # ElaAssetId /\ assets[a] # Absent =>
            checkTokenAmountPrecise(Outputs(t)[i].Value, AssetPrecision[a])

\* Every output is of an asset on record and has no more digits than it has.
checkAssetPrecisionImpl(t) ==
  ~IsRegisterAssetTx(t) =>
    \A i \in OutputIndexes(t) :
      LET a == Outputs(t)[i].AssetID
          value == Outputs(t)[i].Value
      IN  /\ assets[a] # Absent
          /\ IF a = ElaAssetId
             THEN checkAmountPrecise(value, AssetPrecision[a])
             ELSE checkTokenAmountPrecise(value, AssetPrecision[a])

checkTransactionPayloadImpl(t) ==
  IsRegisterAssetTx(t) =>
    /\ AssetPrecision[AssetOf(t)] \in MinPrecision .. TokenDigits
    /\ t = ElaAssetId => checkAmountPrecise(Txn[t].Amount, AssetPrecision[AssetOf(t)])

CheckTransactionSanity(t) ==
  /\ checkTransactionOutputImpl(t)
  /\ checkAssetPrecisionImpl(t)
  /\ checkTransactionPayloadImpl(t)

-----------------------------------------------------------------------------
(* Context checks.                                                         *)

\* Mutant of Mature: the block that would spend is counted.
MatureOffByOne(t) ==
  (Height + 1 - Txn[t].LockTime) % Uint32Size >= CoinbaseMaturity

\* The tip is CoinbaseMaturity blocks above the coinbase t.
Mature(t) == (Height - Txn[t].LockTime) % Uint32Size >= CoinbaseMaturity

checkReferencedOutputImpl(t) ==
  \A o \in Spends(t) :
    /\ Stored(o.TxID)
    /\ OutputAt(o).Value > 0
    /\ IsCoinBaseTx(o.TxID) => Mature(o.TxID)

\* Mutant of CheckRegisterAssetTx: the receiver of the tokens is not checked.
CheckRegisterAssetTxAnyReceiver(t) ==
  IsRegisterAssetTx(t) =>
    /\ Txn[t].Amount > 0
    /\ AssetOf(t) \in WellNamed
    /\ AssetNameIsNew(t)
    /\ OutputAmount(t, {AssetOf(t)}) = Txn[t].Amount * Pow10[TokenDigits]

\* The registered amount goes to the controller, all of it.
CheckRegisterAssetTx(t) ==
  IsRegisterAssetTx(t) =>
    /\ Txn[t].Amount > 0
    /\ AssetOf(t) \in WellNamed
    /\ AssetNameIsNew(t)
    /\ \A i \in OutputIndexes(t) :
         Outputs(t)[i].AssetID = AssetOf(t)
           => Outputs(t)[i].ProgramHash = Txn[t].Controller
    /\ OutputAmount(t, {AssetOf(t)}) = Txn[t].Amount * Pow10[TokenDigits]

MinFee(t) ==
  IF IsCrossChain(t) THEN MinCrossChainTxFee
  ELSE IF IsRegisterAssetTx(t) THEN MinRegisterAssetTxFee
  ELSE MinTransactionFee

\* Mutant of TokensBalance: tokens may vanish.
TokensBalanceOneWay(t) ==
  IsRegisterAssetTx(t) \/ InputAmount(t, Tokens) >= OutputAmount(t, Tokens)

\* The amounts of all tokens are added up together.
TokensBalance(t) ==
  IsRegisterAssetTx(t) \/ InputAmount(t, Tokens) = OutputAmount(t, Tokens)

checkTransactionBalanceImpl(t) ==
  /\ \A o \in Spends(t) : Stored(o.TxID) /\ o.Index \in OutputIndexes(o.TxID)
  /\ Int64(Int64(InputAmount(t, {ElaAssetId})) - Int64(OutputAmount(t, {ElaAssetId})))
       >= MinFee(t)
  /\ TokensBalance(t)

\* The base library's context checks succeed here without going on.
ContextEndsEarly(t) == IsCoinBaseTx(t) \/ IsRechargeToSideChainTx(t)

CheckTransactionContext(t) ==
  ContextEndsEarly(t) \/ /\ checkTransactionBalanceImpl(t)
                         /\ checkReferencedOutputImpl(t)
                         /\ CheckRegisterAssetTx(t)

-----------------------------------------------------------------------------
\* pow.CreateCoinBaseTx locks a coinbase at the height of its block, and only
\* the first transaction of a block is one (base library).
CoinbaseFirst(b) ==
  \A i \in 1 .. Len(b) :
    /\ IsCoinBaseTx(b[i]) <=> i = 1
    /\ IsCoinBaseTx(b[i]) => Txn[b[i]].LockTime = Height + 1

ValidatedBlock(b) ==
  /\ CoinbaseFirst(b)
  /\ CheckedBlock(b)
  /\ \A t \in BlockTxs(b) : CheckTransactionSanity(t) /\ CheckTransactionContext(t)

AcceptBlock(b) == ValidatedBlock(b) /\ PersistBlock(b)

ValidatorNext == (\E b \in Blocks : AcceptBlock(b)) \/ RollbackBlock

ValidatorSpec == Init /\ [][ValidatorNext]_vars

-----------------------------------------------------------------------------
(* Properties.                                                             *)

\* No transaction of the chain spends a coinbase less than CoinbaseMaturity
\* blocks above it, although the check counts from the tip and in uint32, and
\* the chain may have been rolled back in between.  (The inputs of a recharge
\* are not looked at here.)
CoinbaseMature ==
  \A t \in StoredTxs : \A o \in Spends(t) :
    IsCoinBaseTx(o.TxID) /\ ~IsRechargeToSideChainTx(t)
      => txHeight[t] > txHeight[o.TxID] + CoinbaseMaturity

\* Whatever is not a registration moves only assets that were registered in a
\* strictly earlier block, and they stay on record for as long as it is in
\* the chain.
MovedAssetsRegistered ==
  \A t \in StoredTxs : ~IsRegisterAssetTx(t) =>
    \A i \in OutputIndexes(t) :
      LET a == Outputs(t)[i].AssetID
      IN  assets[a] # Absent /\ assets[a] < txHeight[t]

\* The tokens that are unspent are those that registrations, coinbases and
\* recharges brought in: transfers neither make nor destroy any, over any
\* sequence of blocks and rollbacks.
TokenSupply ==
  TotalValue({o \in UnspentOutPoints : OutputAt(o).AssetID # ElaAssetId})
    = MapThenSumSet(LAMBDA t : OutputAmount(t, Tokens) - InputAmount(t, Tokens),
                    {t \in StoredTxs : IsRegisterAssetTx(t) \/ ContextEndsEarly(t)})

\* An amount that is moved is a multiple of the smallest amount that the
\* precision of its asset allows.
MovedAmountsPrecise ==
  \A t \in StoredTxs : ~IsRegisterAssetTx(t) =>
    \A i \in OutputIndexes(t) :
      Outputs(t)[i].AssetID # ElaAssetId =>
        \E n \in 0 .. Outputs(t)[i].Value :
          Outputs(t)[i].Value
            = n * Pow10[TokenDigits - AssetPrecision[Outputs(t)[i].AssetID]]

\* The holder of a token other than its controller was paid by a transfer: as
\* long as nothing has moved an asset, all of the registered amount is with
\* the controller.
UnmovedWithController ==
  \A t \in StoredTxs : IsRegisterAssetTx(t) /\ t # ElaAssetId =>
    LET a == AssetOf(t)
        held == {o \in UnspentOutPoints : OutputAt(o).AssetID = a}
    IN  (\A s \in StoredTxs \ {t} : OutputAmount(s, {a}) = 0 /\ InputAmount(s, {a}) = 0)
          => TotalValue({o \in held : OutputAt(o).ProgramHash = Txn[t].Controller})
               = Txn[t].Amount * Pow10[TokenDigits]
=============================================================================
