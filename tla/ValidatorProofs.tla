-------------------------- MODULE ValidatorProofs --------------------------
(***************************************************************************)
(* What the checks of the token chain add to the theorems about its store, *)
(* for every set of transactions and every value of the parameters.        *)
(***************************************************************************)
EXTENDS Validator, TokenChainStoreProofs

\* A coinbase is locked at the height of its block.
CoinbaseLocked ==
  \A t \in StoredTxs : IsCoinBaseTx(t) => Txn[t].LockTime = txHeight[t]

StoredFinite == IsFiniteSet(StoredTxs)

\* What may bring tokens into the chain or take them out.
IsSource(t) == IsRegisterAssetTx(t) \/ ContextEndsEarly(t)

\* What the checks find of t, whatever the database holds.
Passed(t) ==
  /\ IsSource(t) \/ TokensBalance(t)
  /\ IsRegisterAssetTx(t) =>
       /\ AssetPrecision[AssetOf(t)] <= TokenDigits
       /\ \A i \in OutputIndexes(t) :
            Outputs(t)[i].AssetID = AssetOf(t)
              => Outputs(t)[i].ProgramHash = Txn[t].Controller
       /\ OutputAmount(t, {AssetOf(t)}) = Txn[t].Amount * Pow10[TokenDigits]
  /\ ~IsRegisterAssetTx(t) =>
       \A i \in OutputIndexes(t) :
         Outputs(t)[i].AssetID # ElaAssetId =>
           checkTokenAmountPrecise(Outputs(t)[i].Value, AssetPrecision[Outputs(t)[i].AssetID])

\* Nobody has checked the genesis transaction.
ChecksPassed == \A t \in StoredTxs \ {ElaAssetId} : Passed(t)

(***************************************************************************)
(* The inductive invariant of the checks.  CoinbaseMature needs            *)
(* CoinbaseLocked, as the check subtracts the lock time and not the height *)
(* of the coinbase.  For a rollback MovedAssetsRegistered needs            *)
(* AssetTableExact, a part of IInv: an asset that the tip registers has    *)
(* the height of the tip, so nothing below has moved it.  The amounts      *)
(* follow from ChecksPassed, as sums over the finite chain.                *)
(***************************************************************************)
VInv ==
  /\ IInv
  /\ CoinbaseLocked
  /\ CoinbaseMature
  /\ MovedAssetsRegistered
  /\ StoredFinite
  /\ ChecksPassed

-----------------------------------------------------------------------------
\* A step of the validated store is a step of the store.
LEMMA ValidatorStep ==
  ASSUME [ValidatorNext]_vars
  PROVE  [Next]_vars
  BY DEF ValidatorNext, AcceptBlock, Next

\* A block that is accepted does not register an asset on record again.
LEMMA RecordKept ==
  ASSUME IInv, NEW b \in Blocks, PersistBlock(b),
         NEW a \in AssetID, assets[a] # Absent
  PROVE  assets'[a] = assets[a]
  <1>1. ASSUME NEW s \in BlockTxs(b), IsRegisterAssetTx(s), AssetOf(s) = a
        PROVE  FALSE
    <2>1. AssetNameIsNew(s)
      BY DEF PersistBlock, CheckedBlock
    <2> QED
      BY <1>1, <2>1 DEF AssetNameIsNew
  <1>2. a \notin RegisteredBy(BlockTxs(b))
    BY <1>1 DEF RegisteredBy
  <1> QED
    BY <1>2 DEF PersistBlock, persistTransactions

-----------------------------------------------------------------------------
(* Accepting a block.                                                      *)

\* The lock time of a coinbase that is accepted is the height it gets.
LEMMA AcceptCoinbaseLocked ==
  ASSUME IInv, CoinbaseLocked, NEW b \in Blocks, AcceptBlock(b)
  PROVE  CoinbaseLocked'
  <1> USE DEF IInv
  <1>1. PersistBlock(b) /\ CoinbaseFirst(b)
    BY DEF AcceptBlock, ValidatedBlock
  <1>2. SUFFICES ASSUME NEW t \in StoredTxs', IsCoinBaseTx(t)
        PROVE  Txn[t].LockTime = txHeight'[t]
    BY DEF CoinbaseLocked
  <1>3. CASE t \in BlockTxs(b)
    <2>1. txHeight'[t] = Height + 1
      BY <1>1, <1>3, PersistEffect
    <2>2. PICK i \in 1 .. Len(b) : t = b[i]
      BY <1>3 DEF BlockTxs
    <2> QED
      BY <1>1, <1>2, <2>1, <2>2 DEF CoinbaseFirst
  <1>4. CASE t \notin BlockTxs(b)
    <2>1. t \in StoredTxs /\ txHeight'[t] = txHeight[t]
      BY <1>1, <1>4, PersistEffect DEF StoredTxs
    <2> QED
      BY <1>2, <2>1 DEF CoinbaseLocked
  <1> QED
    BY <1>3, <1>4

\* So a spend that passes checkReferencedOutputImpl waited for the maturity.
LEMMA AcceptCoinbaseMature ==
  ASSUME IInv, CoinbaseLocked, CoinbaseMature, NEW b \in Blocks, AcceptBlock(b)
  PROVE  CoinbaseMature'
  <1> USE DEF IInv
  <1>1. PersistBlock(b) /\ ValidatedBlock(b)
    BY DEF AcceptBlock
  <1>2. SUFFICES ASSUME NEW t \in StoredTxs', NEW o \in Spends(t),
                        IsCoinBaseTx(o.TxID), ~IsRechargeToSideChainTx(t)
        PROVE  txHeight'[t] > txHeight'[o.TxID] + CoinbaseMaturity
    BY DEF CoinbaseMature
  <1>3. CASE t \in BlockTxs(b)
    <2>1. o.TxID \in StoredTxs /\ o.TxID \in TxID
      BY <1>1, <1>3, CheckedInputs DEF StoredTxs
    <2>2. /\ txHeight'[t] = Height + 1
          /\ txHeight'[o.TxID] = txHeight[o.TxID]
          /\ Height \in Nat /\ Height + 1 <= MaxHeight
      BY <1>1, <1>3, <2>1, PersistEffect
    <2>3. txHeight[o.TxID] \in 0 .. Height
      BY <2>1, <2>2 DEF TypeOK, StoredTxs, Stored, Absent
    <2>4. Txn[o.TxID].LockTime = txHeight[o.TxID]
      BY <1>2, <2>1 DEF CoinbaseLocked
    <2>5. ~ContextEndsEarly(t)
      BY <1>2 DEF ContextEndsEarly, Spends
    <2>6. Mature(o.TxID)
      BY <1>1, <1>2, <1>3, <2>5
         DEF ValidatedBlock, CheckTransactionContext, checkReferencedOutputImpl
    <2>7. /\ Height - txHeight[o.TxID] \in Nat
          /\ Height - txHeight[o.TxID] < Uint32Size
      BY <2>2, <2>3, MaturityAssumption, MaxHeightAssumption
    <2>8. (Height - txHeight[o.TxID]) % Uint32Size = Height - txHeight[o.TxID]
      BY <2>7, MaturityAssumption, SmallMod
    <2>9. Height - txHeight[o.TxID] >= CoinbaseMaturity
      BY <2>4, <2>6, <2>8 DEF Mature
    <2> QED
      BY <2>2, <2>3, <2>9, MaturityAssumption
  <1>4. CASE t \notin BlockTxs(b)
    <2>1. t \in StoredTxs /\ txHeight'[t] = txHeight[t]
      BY <1>1, <1>4, PersistEffect DEF StoredTxs
    <2>2. o.TxID \in StoredTxs /\ o.TxID \in TxID
      BY <2>1 DEF SpentOnce, StoredTxs
    <2>3. txHeight'[o.TxID] = txHeight[o.TxID]
      BY <1>1, <2>2, PersistEffect
    <2> QED
      BY <1>2, <2>1, <2>3 DEF CoinbaseMature
  <1> QED
    BY <1>3, <1>4

\* The asset of an output is an asset id.
LEMMA OutputAssetType ==
  ASSUME NEW t \in TxID, NEW i \in OutputIndexes(t)
  PROVE  Outputs(t)[i].AssetID \in AssetID
  <1>1. Txn[t].Outputs \in Seq(Output)
    BY TxnAssumption DEF Transaction
  <1>2. Txn[t].Outputs[i] \in Output
    BY <1>1 DEF OutputIndexes
  <1> QED
    BY <1>2 DEF Outputs, Output

\* What an accepted transaction moves is on record when it is accepted.
LEMMA AcceptMovedAssets ==
  ASSUME IInv, MovedAssetsRegistered, NEW b \in Blocks, AcceptBlock(b)
  PROVE  MovedAssetsRegistered'
  <1> USE DEF IInv
  <1>1. PersistBlock(b) /\ ValidatedBlock(b)
    BY DEF AcceptBlock
  <1>2. SUFFICES ASSUME NEW t \in StoredTxs', ~IsRegisterAssetTx(t),
                        NEW i \in OutputIndexes(t)
        PROVE  /\ assets'[Outputs(t)[i].AssetID] # Absent
               /\ assets'[Outputs(t)[i].AssetID] < txHeight'[t]
    BY DEF MovedAssetsRegistered
  <1> DEFINE a == Outputs(t)[i].AssetID
  <1>3. t \in TxID /\ a \in AssetID
    BY OutputAssetType DEF StoredTxs
  <1>4. assets[a] # Absent => assets'[a] = assets[a]
    BY <1>1, <1>3, RecordKept
  <1>5. CASE t \in BlockTxs(b)
    <2>1. assets[a] # Absent
      BY <1>1, <1>2, <1>5
         DEF ValidatedBlock, CheckTransactionSanity, checkAssetPrecisionImpl
    <2>2. txHeight'[t] = Height + 1 /\ Height \in Nat
      BY <1>1, <1>5, PersistEffect
    <2>3. assets[a] \in Absent .. Height
      BY <1>3 DEF TypeOK
    <2> QED
      BY <1>4, <2>1, <2>2, <2>3 DEF Absent
  <1>6. CASE t \notin BlockTxs(b)
    <2>1. t \in StoredTxs /\ txHeight'[t] = txHeight[t]
      BY <1>1, <1>6, PersistEffect DEF StoredTxs
    <2>2. assets[a] # Absent /\ assets[a] < txHeight[t]
      BY <1>2, <2>1 DEF MovedAssetsRegistered
    <2> QED
      BY <1>4, <2>1, <2>2
  <1> QED
    BY <1>5, <1>6

\* The accepted transactions have passed the checks.
LEMMA AcceptPassed ==
  ASSUME IInv, StoredFinite, ChecksPassed, NEW b \in Blocks, AcceptBlock(b)
  PROVE  StoredFinite' /\ ChecksPassed'
  <1> USE DEF IInv
  <1>1. PersistBlock(b) /\ ValidatedBlock(b)
    BY DEF AcceptBlock
  <1>2. StoredTxs' = StoredTxs \cup BlockTxs(b) /\ BlockTxs(b) \subseteq TxID
    BY <1>1, PersistEffect
  <1>3. StoredFinite'
    <2> DEFINE I == 1 .. Len(b)
               f == [i \in I |-> b[i]]
    <2>1. IsFiniteSet(I) /\ f = [i \in I |-> f[i]]
      <3>1. Len(b) \in Nat
        BY BlocksAssumption
      <3> QED
        BY <3>1, FS_Interval
    <2>2. BlockTxs(b) = {f[i] : i \in I}
      BY DEF BlockTxs
    <2> HIDE DEF I, f
    <2>3. IsFiniteSet({f[i] : i \in I})
      BY <2>1, ImageFinite
    <2>4. IsFiniteSet(StoredTxs \cup BlockTxs(b))
      BY <2>2, <2>3, FS_Union DEF StoredFinite
    <2> QED
      BY <1>2, <2>4 DEF StoredFinite
  <1>4. ASSUME NEW t \in BlockTxs(b)
        PROVE  Passed(t)
    <2>1. CheckTransactionSanity(t) /\ CheckTransactionContext(t)
      BY <1>1 DEF ValidatedBlock
    <2>2. IsSource(t) \/ TokensBalance(t)
      BY <2>1 DEF CheckTransactionContext, checkTransactionBalanceImpl, IsSource
    <2>3. ASSUME IsRegisterAssetTx(t)
          PROVE  /\ AssetPrecision[AssetOf(t)] <= TokenDigits
                 /\ \A i \in OutputIndexes(t) :
                      Outputs(t)[i].AssetID = AssetOf(t)
                        => Outputs(t)[i].ProgramHash = Txn[t].Controller
                 /\ OutputAmount(t, {AssetOf(t)}) = Txn[t].Amount * Pow10[TokenDigits]
      <3>1. CheckRegisterAssetTx(t)
        BY <2>1, <2>3 DEF CheckTransactionContext, ContextEndsEarly, IsRegisterAssetTx,
                          IsCoinBaseTx, IsRechargeToSideChainTx
      <3>2. AssetPrecision[AssetOf(t)] \in MinPrecision .. TokenDigits
        BY <2>1, <2>3 DEF CheckTransactionSanity, checkTransactionPayloadImpl
      <3>3. AssetPrecision[AssetOf(t)] <= TokenDigits
        BY <3>2, PrecisionAssumption
      <3> QED
        BY <2>3, <3>1, <3>3 DEF CheckRegisterAssetTx
    <2>4. ASSUME ~IsRegisterAssetTx(t), NEW i \in OutputIndexes(t),
                 Outputs(t)[i].AssetID # ElaAssetId
          PROVE  checkTokenAmountPrecise(Outputs(t)[i].Value,
                                         AssetPrecision[Outputs(t)[i].AssetID])
      BY <2>1, <2>4 DEF CheckTransactionSanity, checkAssetPrecisionImpl
    <2> QED
      BY <2>2, <2>3, <2>4 DEF Passed
  <1>5. \A t \in StoredTxs' \ {ElaAssetId} : Passed(t)
    BY <1>2, <1>4 DEF ChecksPassed
  <1>6. ChecksPassed'
    BY <1>5 DEF ChecksPassed
  <1> QED
    BY <1>3, <1>6

-----------------------------------------------------------------------------
(* Rolling a block back.                                                   *)

\* A rollback takes spends away before the coinbases that they spend.
LEMMA RollbackCoinbases ==
  ASSUME IInv, CoinbaseLocked, CoinbaseMature, RollbackBlock
  PROVE  CoinbaseLocked' /\ CoinbaseMature'
  <1> USE DEF IInv
  <1>1. ASSUME NEW t \in StoredTxs'
        PROVE  t \in StoredTxs /\ txHeight'[t] = txHeight[t]
    BY <1>1, RollbackEffect DEF StoredTxs
  <1>2. CoinbaseLocked'
    BY <1>1 DEF CoinbaseLocked
  <1>3. ASSUME NEW t \in StoredTxs', NEW o \in Spends(t),
               IsCoinBaseTx(o.TxID), ~IsRechargeToSideChainTx(t)
        PROVE  txHeight'[t] > txHeight'[o.TxID] + CoinbaseMaturity
    <2>1. o.TxID \in StoredTxs'
      BY RollbackSpentOnce DEF SpentOnce
    <2> QED
      BY <1>1, <1>3, <2>1 DEF CoinbaseMature
  <1> QED
    BY <1>2, <1>3 DEF CoinbaseMature

\* And transactions before the registrations of what they move.
LEMMA RollbackMovedAssets ==
  ASSUME IInv, MovedAssetsRegistered, RollbackBlock
  PROVE  MovedAssetsRegistered'
  <1> USE DEF IInv
  <1> DEFINE b == Last(chain)
  <1>1. SUFFICES ASSUME NEW t \in StoredTxs', ~IsRegisterAssetTx(t),
                        NEW i \in OutputIndexes(t)
        PROVE  /\ assets'[Outputs(t)[i].AssetID] # Absent
               /\ assets'[Outputs(t)[i].AssetID] < txHeight'[t]
    BY DEF MovedAssetsRegistered
  <1> DEFINE a == Outputs(t)[i].AssetID
  <1>2. /\ t \in StoredTxs /\ t \in TxID
        /\ txHeight'[t] = txHeight[t]
    BY RollbackEffect DEF StoredTxs
  <1>3. a \in AssetID
    BY <1>2, OutputAssetType
  <1>4. assets[a] # Absent /\ assets[a] < txHeight[t]
    BY <1>1, <1>2 DEF MovedAssetsRegistered
  <1>5. txHeight[t] \in Int /\ txHeight[t] <= Height /\ Height \in Nat
    BY <1>2, RollbackEffect DEF TypeOK, Absent
  <1>6. ASSUME NEW s \in BlockTxs(b), IsRegisterAssetTx(s), AssetOf(s) = a
        PROVE  FALSE
    <2>1. s \in StoredTxs /\ txHeight[s] = Height
      BY RollbackEffect
    <2>2. assets[a] = txHeight[s]
      BY <1>3, <1>6, <2>1 DEF AssetTableExact
    <2> QED
      BY <1>4, <1>5, <2>1, <2>2
  <1>7. a \notin RegisteredBy(BlockTxs(b))
    BY <1>6 DEF RegisteredBy
  <1>8. assets'[a] = assets[a]
    BY <1>3, <1>7 DEF RollbackBlock, rollbackTransactions
  <1> QED
    BY <1>2, <1>4, <1>8

\* The chain gets shorter.
LEMMA RollbackPassed ==
  ASSUME IInv, StoredFinite, ChecksPassed, RollbackBlock
  PROVE  StoredFinite' /\ ChecksPassed'
  <1>1. StoredTxs' \subseteq StoredTxs
    BY RollbackEffect DEF IInv
  <1>2. IsFiniteSet(StoredTxs')
    BY <1>1, FS_Subset DEF StoredFinite
  <1>3. \A t \in StoredTxs' \ {ElaAssetId} : Passed(t)
    BY <1>1 DEF ChecksPassed
  <1> QED
    BY <1>2, <1>3 DEF StoredFinite, ChecksPassed

-----------------------------------------------------------------------------
\* A new chain holds the genesis transaction.
LEMMA InitVInv ==
  ASSUME Init
  PROVE  VInv
  <1>1. IInv
    BY InitIInv
  <1>2. ASSUME NEW t \in StoredTxs
        PROVE  t = ElaAssetId
    <2>1. txHeight[t] = IF t = ElaAssetId THEN 0 ELSE Absent
      BY DEF Init, StoredTxs
    <2> QED
      BY <2>1 DEF StoredTxs, Stored
  <1>3. IsRegisterAssetTx(ElaAssetId) /\ ~IsCoinBaseTx(ElaAssetId)
    BY GenesisAssumption DEF IsRegisterAssetTx, IsCoinBaseTx
  <1>4. Spends(ElaAssetId) = {}
    BY GenesisAssumption DEF Spends
  <1>5. CoinbaseLocked
    BY <1>2, <1>3 DEF CoinbaseLocked
  <1>6. CoinbaseMature
    BY <1>2, <1>4 DEF CoinbaseMature
  <1>7. MovedAssetsRegistered
    BY <1>2, <1>3 DEF MovedAssetsRegistered
  <1>8. StoredFinite
    <2>1. StoredTxs \subseteq {ElaAssetId}
      BY <1>2
    <2> QED
      BY <2>1, FS_Singleton, FS_Subset DEF StoredFinite
  <1>9. ChecksPassed
    BY <1>2 DEF ChecksPassed
  <1> QED
    BY <1>1, <1>5, <1>6, <1>7, <1>8, <1>9 DEF VInv

\* Every step of the validated store keeps the invariant.
LEMMA ValidatorStepVInv ==
  ASSUME VInv, [ValidatorNext]_vars
  PROVE  VInv'
  <1>1. IInv /\ IInv'
    BY ValidatorStep, StoreStep DEF VInv
  <1>2. ASSUME NEW b \in Blocks, AcceptBlock(b)
        PROVE  VInv'
    BY <1>1, <1>2, AcceptCoinbaseLocked, AcceptCoinbaseMature, AcceptMovedAssets, AcceptPassed
       DEF VInv
  <1>3. CASE RollbackBlock
    BY <1>1, <1>3, RollbackCoinbases, RollbackMovedAssets, RollbackPassed DEF VInv
  <1>4. CASE UNCHANGED vars
    <2>1. StoredTxs' = StoredTxs
      BY <1>4 DEF vars, StoredTxs, Stored
    <2>2. CoinbaseLocked' /\ CoinbaseMature' /\ MovedAssetsRegistered'
      BY <1>4, <2>1
         DEF VInv, vars, CoinbaseLocked, CoinbaseMature, MovedAssetsRegistered
    <2>3. StoredFinite' /\ ChecksPassed'
      BY <2>1 DEF VInv, StoredFinite, ChecksPassed
    <2> QED
      BY <1>1, <2>2, <2>3 DEF VInv
  <1> QED
    BY <1>2, <1>3, <1>4 DEF ValidatorNext

-----------------------------------------------------------------------------
(* Powers of ten.                                                          *)

PowerRule(g, k) == \A i \in 0 .. k : g[i] = IF i = 0 THEN 1 ELSE 10 * g[i - 1]

\* The powers up to the k-th are determined, and they exist.
LEMMA PowersUpto ==
  \A k \in Nat : /\ \E g \in [0 .. k -> Nat] : PowerRule(g, k)
                 /\ \A g, h : PowerRule(g, k) /\ PowerRule(h, k) => g[k] = h[k]
  <1> DEFINE P(k) == /\ \E g \in [0 .. k -> Nat] : PowerRule(g, k)
                     /\ \A g, h : PowerRule(g, k) /\ PowerRule(h, k) => g[k] = h[k]
             T == {k \in Nat : P(k)}
  <1>1. P(0)
    <2>1. PowerRule([i \in 0 .. 0 |-> 1], 0)
      BY DEF PowerRule
    <2>2. [i \in 0 .. 0 |-> 1] \in [0 .. 0 -> Nat]
      OBVIOUS
    <2>3. \A g : PowerRule(g, 0) => g[0] = 1
      BY DEF PowerRule
    <2> QED
      BY <2>1, <2>2, <2>3
  <1>2. ASSUME NEW k \in Nat, P(k)
        PROVE  P(k + 1)
    <2>1. PICK g \in [0 .. k -> Nat] : PowerRule(g, k)
      BY <1>2
    <2> DEFINE h == [i \in 0 .. k + 1 |-> IF i = k + 1 THEN 10 * g[k] ELSE g[i]]
    <2>2. h \in [0 .. k + 1 -> Nat]
      OBVIOUS
    <2>3. PowerRule(h, k + 1)
      <3>1. \A i \in 0 .. k : h[i] = g[i]
        OBVIOUS
      <3>2. h[k + 1] = 10 * g[k]
        OBVIOUS
      <3> HIDE DEF h
      <3> SUFFICES ASSUME NEW i \in 0 .. k + 1
                   PROVE  h[i] = IF i = 0 THEN 1 ELSE 10 * h[i - 1]
        BY DEF PowerRule
      <3>3. CASE i \in 0 .. k
        <4>1. i # 0 => i - 1 \in 0 .. k
          BY <3>3
        <4> QED
          BY <2>1, <3>1, <3>3, <4>1 DEF PowerRule
      <3>4. CASE i = k + 1
        <4>1. i # 0 /\ i - 1 = k /\ k \in 0 .. k
          BY <3>4
        <4> QED
          BY <3>1, <3>2, <3>4, <4>1
      <3> QED
        BY <3>3, <3>4
    <2>4. ASSUME NEW a, NEW b, PowerRule(a, k + 1), PowerRule(b, k + 1)
          PROVE  a[k + 1] = b[k + 1]
      <3>1. PowerRule(a, k) /\ PowerRule(b, k)
        BY <2>4 DEF PowerRule
      <3>2. a[k] = b[k]
        BY <1>2, <3>1
      <3>3. k + 1 \in 0 .. k + 1 /\ k + 1 # 0 /\ (k + 1) - 1 = k
        OBVIOUS
      <3>4. a[k + 1] = 10 * a[k] /\ b[k + 1] = 10 * b[k]
        BY <2>4, <3>3 DEF PowerRule
      <3> QED
        BY <3>2, <3>4
    <2> HIDE DEF h
    <2> QED
      BY <2>2, <2>3, <2>4
  <1>3. Nat \subseteq T
    <2> HIDE DEF P
    <2>1. 0 \in T
      BY <1>1
    <2>2. \A k \in Nat : k \in T => k + 1 \in T
      BY <1>2
    <2> HIDE DEF T
    <2> QED
      BY <2>1, <2>2, MakeLoop!SetInduction
  <1> QED
    BY <1>3

\* The recursive function is what its definition says.
LEMMA PowersDefined ==
  Pow10 = [n \in Nat |-> IF n = 0 THEN 1 ELSE 10 * Pow10[n - 1]]
  <1> DEFINE G(k) == CHOOSE g \in [0 .. k -> Nat] : PowerRule(g, k)
             f == [n \in Nat |-> G(n)[n]]
  <1>1. \A k \in Nat : G(k) \in [0 .. k -> Nat] /\ PowerRule(G(k), k)
    BY PowersUpto
  <1>2. ASSUME NEW n \in Nat
        PROVE  f[n] = IF n = 0 THEN 1 ELSE 10 * f[n - 1]
    <2>1. f[n] = G(n)[n] /\ n \in 0 .. n
      OBVIOUS
    <2>2. CASE n = 0
      <3> HIDE DEF G
      <3> QED
        BY <1>1, <2>1, <2>2 DEF PowerRule
    <2>3. CASE n # 0
      <3>1. n - 1 \in Nat /\ f[n - 1] = G(n - 1)[n - 1]
        <4>1. n - 1 \in Nat
          BY <2>3
        <4> HIDE DEF G
        <4> QED
          BY <4>1
      <3> HIDE DEF G, f
      <3>2. G(n)[n] = 10 * G(n)[n - 1]
        BY <1>1, <2>1, <2>3 DEF PowerRule
      <3>3. PowerRule(G(n), n - 1)
        <4>1. \A i \in 0 .. n - 1 : i \in 0 .. n
          BY <3>1
        <4> QED
          BY <1>1, <4>1 DEF PowerRule
      <3>4. PowerRule(G(n - 1), n - 1)
        BY <1>1, <3>1
      <3>5. G(n)[n - 1] = G(n - 1)[n - 1]
        BY <3>1, <3>3, <3>4, PowersUpto
      <3> QED
        BY <2>1, <2>3, <3>1, <3>2, <3>5
    <2> QED
      BY <2>2, <2>3
  <1>3. f = [n \in Nat |-> IF n = 0 THEN 1 ELSE 10 * f[n - 1]]
    <2>1. f = [n \in Nat |-> f[n]]
      OBVIOUS
    <2> HIDE DEF f
    <2> QED
      BY <1>2, <2>1
  <1> HIDE DEF f
  <1> QED
    BY <1>3 DEF Pow10

\* Its values, and how they multiply.
LEMMA PowersMultiply ==
  /\ \A n \in Nat : Pow10[n] \in Nat \ {0}
  /\ \A m, n \in Nat : Pow10[m + n] = Pow10[m] * Pow10[n]
  <1>1. Pow10[0] = 1 /\ \A n \in Nat : Pow10[n + 1] = 10 * Pow10[n]
    <2>1. \A n \in Nat : n + 1 \in Nat /\ n + 1 # 0 /\ (n + 1) - 1 = n
      OBVIOUS
    <2> QED
      BY <2>1, PowersDefined
  <1> DEFINE T == {n \in Nat : Pow10[n] \in Nat \ {0}}
  <1>2. \A n \in Nat : Pow10[n] \in Nat \ {0}
    <2>1. 0 \in T /\ \A n \in Nat : n \in T => n + 1 \in T
      BY <1>1
    <2>2. Nat \subseteq T
      <3> HIDE DEF T
      <3> QED
        BY <2>1, MakeLoop!SetInduction
    <2> QED
      BY <2>2
  <1>3. ASSUME NEW m \in Nat
        PROVE  \A n \in Nat : Pow10[m + n] = Pow10[m] * Pow10[n]
    <2> DEFINE U == {n \in Nat : Pow10[m + n] = Pow10[m] * Pow10[n]}
    <2>1. 0 \in U
      <3>1. m + 0 = m /\ Pow10[m] \in Nat
        BY <1>2
      <3> QED
        BY <1>1, <3>1
    <2>2. ASSUME NEW n \in Nat, n \in U
          PROVE  n + 1 \in U
      <3>1. m + (n + 1) = (m + n) + 1 /\ m + n \in Nat
        OBVIOUS
      <3>2. Pow10[m + (n + 1)] = 10 * (Pow10[m] * Pow10[n])
        BY <1>1, <2>2, <3>1
      <3>3. Pow10[n + 1] = 10 * Pow10[n]
        BY <1>1
      <3>4. Pow10[m] \in Nat /\ Pow10[n] \in Nat
        BY <1>2
      <3>5. \A a, b \in Nat : 10 * (a * b) = a * (10 * b)
        OBVIOUS
      <3> QED
        BY <3>2, <3>3, <3>4, <3>5
    <2>3. Nat \subseteq U
      <3> HIDE DEF U
      <3> QED
        BY <2>1, <2>2, MakeLoop!SetInduction
    <2> QED
      BY <2>3
  <1> QED
    BY <1>2, <1>3

\* A number whose last digits are a multiple of d is one, if d divides what
\* the digits are cut off by.
LEMMA LastDigits ==
  ASSUME NEW v \in Nat, NEW d \in Nat \ {0}, NEW c \in Nat \ {0},
         (v % (c * d)) % d = 0
  PROVE  \E n \in 0 .. v : v = n * d
  <1> DEFINE e == c * d
             q == v \div e
             r == v % e
             m == r \div d
             n == c * q + m
  <1>1. e \in Nat \ {0}
    BY Z3
  <1>2. q \in Nat /\ r \in Nat /\ v = e * q + r
    <2> HIDE DEF e
    <2> QED
      BY <1>1
  <1>3. m \in Nat /\ r = d * m
    <2>1. r \in Nat /\ r % d = 0
      BY <1>2
    <2> HIDE DEF r
    <2> QED
      BY <2>1
  <1> HIDE DEF q, r, m
  <1>4. n \in Nat
    BY <1>2, <1>3
  <1>5. v = n * d
    <2>1. v = (c * d) * q + d * m
      BY <1>2, <1>3
    <2>2. (c * d) * q + d * m = (c * q + m) * d
      BY <1>2, <1>3, Z3
    <2> QED
      BY <2>1, <2>2
  <1> HIDE DEF n
  <1>6. n <= n * d
    <2>1. d - 1 \in Nat /\ n * d = n + n * (d - 1) /\ n * (d - 1) \in Nat
      BY <1>4
    <2> QED
      BY <1>4, <2>1
  <1> QED
    BY <1>4, <1>5, <1>6

-----------------------------------------------------------------------------
(* What the checks have found of the transactions of the chain.            *)

OutValue(o) == OutputAt(o).Value
Brings(t) == OutputAmount(t, Tokens) - InputAmount(t, Tokens)

OutSum == INSTANCE FoldTheorems WITH Op <- PersistRound, Value <- OutValue
SupplySum == INSTANCE FoldTheorems WITH Op <- PersistRound, Value <- Brings

\* An instance has its own name for what a finite set is.
LEMMA SameFinite ==
  \A S : /\ OutSum!IsFiniteSet(S) <=> IsFiniteSet(S)
        /\ SupplySum!IsFiniteSet(S) <=> IsFiniteSet(S)
  BY DEF IsFiniteSet, OutSum!IsFiniteSet, SupplySum!IsFiniteSet

\* Of the outputs of T, and of those that T consumes, the ones of the assets
\* in C.
MadeIn(T, C) == {o \in Outs : o.TxID \in T /\ OutputAt(o).AssetID \in C}

SpentIn(T, C) == {o \in SpentBy(T) : OutputAt(o).AssetID \in C}

\* A sum over no value but zero, and a sum that is zero.
LEMMA ZeroSums ==
  ASSUME NEW S, IsFiniteSet(S), \A o \in S : OutValue(o) \in Nat
  PROVE  /\ (\A o \in S : OutValue(o) = 0) => OutSum!Total(S) = 0
         /\ OutSum!Total(S) = 0 => \A o \in S : OutValue(o) = 0
  <1>1. OutSum!Total(S) = 0 => \A o \in S : OutValue(o) = 0
    <2>1. OutSum!Total(S) \in Nat /\ \A o \in S : OutValue(o) <= OutSum!Total(S)
      BY SameFinite, OutSum!SumNat
    <2> QED
      BY <2>1
  <1>2. ASSUME \A o \in S : OutValue(o) = 0
        PROVE  OutSum!Total(S) = 0
    <2> DEFINE T == {A \in SUBSET S : OutSum!Total(A) = 0}
    <2>1. {} \in T
      BY OutSum!SumEmpty
    <2>2. ASSUME NEW A \in SUBSET S, A # {}, \A x \in A : A \ {x} \in T
          PROVE  A \in T
      <3>1. PICK x \in A : TRUE
        BY <2>2
      <3>2. IsFiniteSet(A) /\ \A o \in A : OutValue(o) \in Int
        BY FS_Subset
      <3>3. OutSum!Total(A) = OutValue(x) + OutSum!Total(A \ {x})
        BY <3>1, <3>2, SameFinite, OutSum!SumRemove
      <3>4. OutSum!Total(A \ {x}) = 0 /\ OutValue(x) = 0
        BY <1>2, <2>2, <3>1
      <3> QED
        BY <3>3, <3>4
    <2>3. S \in T
      <3> HIDE DEF T
      <3> QED
        BY <2>1, <2>2, SameFinite, OutSum!FiniteInduction
    <2> QED
      BY <2>3
  <1> QED
    BY <1>1, <1>2

\* Two sets that differ in outputs of no value sum up to the same.
LEMMA SameSums ==
  ASSUME NEW A, IsFiniteSet(A), NEW B, IsFiniteSet(B),
         \A o \in A \cup B : OutValue(o) \in Nat,
         \A o \in A \cup B : OutValue(o) # 0 => (o \in A <=> o \in B)
  PROVE  OutSum!Total(A) = OutSum!Total(B)
  <1> DEFINE C == A \cap B
  <1>1. /\ IsFiniteSet(A \ C) /\ IsFiniteSet(B \ C) /\ IsFiniteSet(C)
        /\ C \in SUBSET A /\ C \in SUBSET B
    BY FS_Subset
  <1>2. OutSum!Total(A \ C) = 0 /\ OutSum!Total(B \ C) = 0
    <2>1. \A o \in A \ C : OutValue(o) \in Nat /\ OutValue(o) = 0
      OBVIOUS
    <2>2. \A o \in B \ C : OutValue(o) \in Nat /\ OutValue(o) = 0
      OBVIOUS
    <2> HIDE DEF C
    <2> QED
      BY <1>1, <2>1, <2>2, ZeroSums
  <1>3. \A o \in A \cup B : OutValue(o) \in Int
    OBVIOUS
  <1> HIDE DEF C
  <1>4. OutSum!Total(A \ C) = OutSum!Total(A) - OutSum!Total(C)
    BY <1>1, <1>3, SameFinite, OutSum!SumWithout
  <1>5. OutSum!Total(B \ C) = OutSum!Total(B) - OutSum!Total(C)
    BY <1>1, <1>3, SameFinite, OutSum!SumWithout
  <1>6. OutSum!Total(A) \in Int /\ OutSum!Total(B) \in Int /\ OutSum!Total(C) \in Int
    BY <1>1, <1>3, SameFinite, OutSum!SumType
  <1> QED
    BY <1>2, <1>4, <1>5, <1>6

\* The sums as the model writes them.
LEMMA SumsAreTotals ==
  \A O : TotalValue(O) = OutSum!Total(O)
  BY DEF TotalValue, MapThenSumSet, MapThenFoldSet, OutValue, OutSum!Total,
         OutSum!MapThenSumSet, OutSum!MapThenFoldSet

\* The amounts that a transaction pays out and takes in.
LEMMA AmountsAreSums ==
  ASSUME NEW t \in TxID, NEW C
  PROVE  /\ OutputAmount(t, C) = OutSum!Total(MadeIn({t}, C))
         /\ InputAmount(t, C) = OutSum!Total(SpentIn({t}, C))
  <1>1. {o \in ToSet(Makes(t)) : OutputAt(o).AssetID \in C} = MadeIn({t}, C)
    <2>1. ToSet(Makes(t)) = {o \in Outs : o.TxID = t}
      BY MakesType DEF ToSet, MadeBy, Makes
    <2> QED
      BY <2>1 DEF MadeIn
  <1>2. {o \in Spends(t) : OutputAt(o).AssetID \in C} = SpentIn({t}, C)
    BY DEF SpentIn, SpentBy
  <1> QED
    BY <1>1, <1>2, SumsAreTotals DEF OutputAmount, InputAmount

\* A transaction makes and consumes finitely many outputs.
LEMMA TxFinite ==
  ASSUME NEW t \in TxID
  PROVE  IsFiniteSet({o \in Outs : o.TxID = t}) /\ IsFiniteSet(Spends(t))
  <1>1. IsFiniteSet({o \in Outs : o.TxID = t})
    <2> DEFINE I == OutputIndexes(t)
               f == Makes(t)
    <2>1. IsFiniteSet(I)
      BY MakesType, FS_Interval
    <2>2. f = [i \in I |-> f[i]]
      BY DEF Makes
    <2> HIDE DEF I, f
    <2>3. IsFiniteSet({f[i] : i \in I})
      BY <2>1, <2>2, ImageFinite
    <2> QED
      BY <2>3, MakesType DEF MadeBy, I, f
  <1>2. IsFiniteSet(Spends(t))
    <2>1. CASE IsCoinBaseTx(t)
      BY <2>1, FS_EmptySet DEF Spends
    <2>2. CASE ~IsCoinBaseTx(t)
      <3> DEFINE n == Len(Txn[t].Inputs)
                 f == [i \in 1 .. n |-> Txn[t].Inputs[i]]
      <3>1. n \in Nat /\ Spends(t) = {Txn[t].Inputs[i] : i \in 1 .. n}
        BY <2>2, InputsType
      <3>2. /\ f = [i \in 1 .. n |-> f[i]]
            /\ {Txn[t].Inputs[i] : i \in 1 .. n} = {f[i] : i \in 1 .. n}
        OBVIOUS
      <3> HIDE DEF n, f
      <3>3. IsFiniteSet(1 .. n)
        BY <3>1, FS_Interval
      <3> QED
        BY <3>1, <3>2, <3>3, ImageFinite
    <2> QED
      BY <2>1, <2>2
  <1> QED
    BY <1>1, <1>2

\* And so does the chain, if it is a finite one.
LEMMA ChainFinite ==
  ASSUME SpentOnce, NEW A \in SUBSET StoredTxs, IsFiniteSet(A), NEW C
  PROVE  /\ IsFiniteSet(MadeIn(A, C)) /\ IsFiniteSet(SpentIn(A, C))
         /\ SpentIn(A, C) \subseteq MadeIn(StoredTxs, C)
         /\ \A o \in MadeIn(A, C) \cup SpentIn(A, C) : o \in Outs /\ OutValue(o) \in Int
  <1>1. A \subseteq TxID
    BY DEF StoredTxs
  <1> DEFINE made == [t \in A |-> {o \in Outs : o.TxID = t}]
             spent == [t \in A |-> Spends(t)]
  <1>2. IsFiniteSet(UNION {made[t] : t \in A})
    <2>1. made = [t \in A |-> made[t]] /\ \A t \in A : IsFiniteSet(made[t])
      BY <1>1, TxFinite
    <2> HIDE DEF made
    <2>2. IsFiniteSet({made[t] : t \in A})
      BY <2>1, ImageFinite
    <2> QED
      BY <2>1, <2>2, FS_UNION
  <1>3. IsFiniteSet(UNION {spent[t] : t \in A})
    <2>1. spent = [t \in A |-> spent[t]] /\ \A t \in A : IsFiniteSet(spent[t])
      BY <1>1, TxFinite
    <2> HIDE DEF spent
    <2>2. IsFiniteSet({spent[t] : t \in A})
      BY <2>1, ImageFinite
    <2> QED
      BY <2>1, <2>2, FS_UNION
  <1>4. MadeIn(A, C) \subseteq UNION {made[t] : t \in A}
    BY DEF MadeIn
  <1>5. SpentIn(A, C) \subseteq UNION {spent[t] : t \in A}
    BY DEF SpentIn, SpentBy
  <1>6. ASSUME NEW o \in SpentIn(A, C)
        PROVE  o \in MadeIn(StoredTxs, C)
    <2>1. PICK t \in A : o \in Spends(t)
      BY DEF SpentIn, SpentBy
    <2>2. o.TxID \in StoredTxs /\ o.Index \in OutputIndexes(o.TxID)
      BY <2>1 DEF SpentOnce
    <2>3. o \in OutPoint
      BY <1>1, <2>1, <2>2, SpendsType, OutputIndexesType DEF OutPoint, StoredTxs
    <2> QED
      BY <2>2, <2>3 DEF MadeIn, SpentIn, Outs
  <1>7. \A o \in Outs : OutValue(o) \in Int
    BY OutType DEF Shapes, OutValue
  <1>8. \A o \in MadeIn(A, C) \cup SpentIn(A, C) : o \in Outs
    BY <1>6 DEF MadeIn
  <1> HIDE DEF made, spent
  <1>9. IsFiniteSet(MadeIn(A, C)) /\ IsFiniteSet(SpentIn(A, C))
    BY <1>2, <1>3, <1>4, <1>5, FS_Subset
  <1> QED
    BY <1>6, <1>7, <1>8, <1>9

\* Any one transaction of T can be taken apart from the others.
LEMMA TakeTx ==
  ASSUME SpentOnce, NEW A \in SUBSET StoredTxs, NEW t \in A, NEW C
  PROVE  /\ MadeIn(A, C) = MadeIn(A \ {t}, C) \cup MadeIn({t}, C)
         /\ MadeIn(A \ {t}, C) \cap MadeIn({t}, C) = {}
         /\ SpentIn(A, C) = SpentIn(A \ {t}, C) \cup SpentIn({t}, C)
         /\ SpentIn(A \ {t}, C) \cap SpentIn({t}, C) = {}
  <1>1. MadeIn(A, C) = MadeIn(A \ {t}, C) \cup MadeIn({t}, C)
    BY DEF MadeIn
  <1>2. MadeIn(A \ {t}, C) \cap MadeIn({t}, C) = {}
    BY DEF MadeIn
  <1>3. SpentIn(A, C) = SpentIn(A \ {t}, C) \cup SpentIn({t}, C)
    BY DEF SpentIn, SpentBy
  <1>4. SpentIn(A \ {t}, C) \cap SpentIn({t}, C) = {}
    <2> SUFFICES ASSUME NEW o, o \in SpentIn(A \ {t}, C), o \in SpentIn({t}, C)
                 PROVE  FALSE
      OBVIOUS
    <2>1. PICK s \in A \ {t} : o \in Spends(s)
      BY DEF SpentIn, SpentBy
    <2>2. o \in Spends(t)
      BY DEF SpentIn, SpentBy
    <2> QED
      BY <2>1, <2>2 DEF SpentOnce
  <1> QED
    BY <1>1, <1>2, <1>3, <1>4

\* Whatever the chain has made of tokens it has consumed, or a registration,
\* a coinbase or a recharge brought it in.
LEMMA SupplyAdds ==
  ASSUME SpentOnce, IsFiniteSet(StoredTxs),
         \A t \in StoredTxs : IsSource(t) \/ TokensBalance(t)
  PROVE  /\ OutSum!Total(MadeIn(StoredTxs, Tokens))
              = OutSum!Total(SpentIn(StoredTxs, Tokens))
                  + SupplySum!Total({t \in StoredTxs : IsSource(t)})
         /\ OutSum!Total(MadeIn(StoredTxs, Tokens)) \in Int
         /\ OutSum!Total(SpentIn(StoredTxs, Tokens)) \in Int
         /\ SupplySum!Total({t \in StoredTxs : IsSource(t)}) \in Int
  <1> DEFINE S == StoredTxs
             Made(A) == OutSum!Total(MadeIn(A, Tokens))
             Spent(A) == OutSum!Total(SpentIn(A, Tokens))
             Sources(A) == {t \in A : IsSource(t)}
             Net(A) == SupplySum!Total(Sources(A))
             T == {A \in SUBSET S : Made(A) = Spent(A) + Net(A)}
  <1>1. ASSUME NEW A \in SUBSET S
        PROVE  /\ IsFiniteSet(A)
               /\ IsFiniteSet(MadeIn(A, Tokens)) /\ IsFiniteSet(SpentIn(A, Tokens))
               /\ Made(A) \in Int /\ Spent(A) \in Int
    <2>1. IsFiniteSet(A)
      BY FS_Subset
    <2>2. /\ IsFiniteSet(MadeIn(A, Tokens)) /\ IsFiniteSet(SpentIn(A, Tokens))
          /\ \A o \in MadeIn(A, Tokens) \cup SpentIn(A, Tokens) : OutValue(o) \in Int
      BY <2>1, ChainFinite
    <2> QED
      BY <2>1, <2>2, SameFinite, OutSum!SumType
  <1>2. \A t \in S : {t} \in SUBSET S /\ t \in TxID
    BY DEF StoredTxs
  <1>3. ASSUME NEW t \in S
        PROVE  Brings(t) = Made({t}) - Spent({t}) /\ Brings(t) \in Int
    BY <1>1, <1>2, AmountsAreSums DEF Brings
  <1>4. ASSUME NEW A \in SUBSET S
        PROVE  Net(A) \in Int /\ IsFiniteSet(Sources(A))
    <2>1. IsFiniteSet(Sources(A)) /\ \A t \in Sources(A) : Brings(t) \in Int
      BY <1>1, <1>3, FS_Subset
    <2> HIDE DEF Sources
    <2> QED
      BY <2>1, SameFinite, SupplySum!SumType
  <1>5. {} \in T
    <2>1. MadeIn({}, Tokens) = {} /\ SpentIn({}, Tokens) = {} /\ Sources({}) = {}
      BY DEF MadeIn, SpentIn, SpentBy
    <2>2. OutSum!Total({}) = 0 /\ SupplySum!Total({}) = 0
      BY OutSum!SumEmpty, SupplySum!SumEmpty
    <2> QED
      BY <2>1, <2>2
  <1>6. ASSUME NEW A \in SUBSET S, A # {}, \A x \in A : A \ {x} \in T
        PROVE  A \in T
    <2>1. PICK t \in A : TRUE
      BY <1>6
    <2> DEFINE R == A \ {t}
    <2>2. R \in SUBSET S /\ Made(R) = Spent(R) + Net(R)
      BY <1>6, <2>1
    <2>3. t \in S /\ {t} \in SUBSET S
      BY <1>2, <2>1
    <2>4. Made(A) = Made(R) + Made({t})
      <3>1. /\ MadeIn(A, Tokens) = MadeIn(R, Tokens) \cup MadeIn({t}, Tokens)
            /\ MadeIn(R, Tokens) \cap MadeIn({t}, Tokens) = {}
        BY <2>1, TakeTx
      <3>2. IsFiniteSet(MadeIn(R, Tokens)) /\ IsFiniteSet(MadeIn({t}, Tokens))
        BY <1>1, <2>2, <2>3
      <3>3. \A o \in MadeIn(R, Tokens) \cup MadeIn({t}, Tokens) : OutValue(o) \in Int
        BY <1>1, <3>1, ChainFinite
      <3> HIDE DEF R
      <3> QED
        BY <3>1, <3>2, <3>3, SameFinite, OutSum!SumUnion
    <2>5. Spent(A) = Spent(R) + Spent({t})
      <3>1. /\ SpentIn(A, Tokens) = SpentIn(R, Tokens) \cup SpentIn({t}, Tokens)
            /\ SpentIn(R, Tokens) \cap SpentIn({t}, Tokens) = {}
        BY <2>1, TakeTx
      <3>2. IsFiniteSet(SpentIn(R, Tokens)) /\ IsFiniteSet(SpentIn({t}, Tokens))
        BY <1>1, <2>2, <2>3
      <3>3. \A o \in SpentIn(R, Tokens) \cup SpentIn({t}, Tokens) : OutValue(o) \in Int
        BY <1>1, <3>1, ChainFinite
      <3> HIDE DEF R
      <3> QED
        BY <3>1, <3>2, <3>3, SameFinite, OutSum!SumUnion
    <2>6. Net(A) = Net(R) + (Made({t}) - Spent({t}))
      <3>1. CASE IsSource(t)
        <4>1. t \in Sources(A) /\ Sources(A) \ {t} = Sources(R)
          BY <2>1, <3>1
        <4>2. IsFiniteSet(Sources(A)) /\ \A s \in Sources(A) : Brings(s) \in Int
          BY <1>3, <1>4
        <4>3. Net(A) = Brings(t) + Net(R)
          <5> HIDE DEF Sources, R
          <5> QED
            BY <4>1, <4>2, SameFinite, SupplySum!SumRemove
        <4>4. Brings(t) = Made({t}) - Spent({t})
          BY <1>3, <2>3
        <4>5. Net(R) \in Int /\ Brings(t) \in Int
          BY <1>3, <1>4, <2>2, <2>3
        <4> HIDE DEF Net, R, Made, Spent
        <4> QED
          BY <4>3, <4>4, <4>5
      <3>2. CASE ~IsSource(t)
        <4>1. Sources(A) = Sources(R)
          BY <3>2
        <4>2. TokensBalance(t)
          BY <2>3, <3>2
        <4>3. Made({t}) = Spent({t})
          BY <1>2, <2>3, <3>2, <4>2, AmountsAreSums DEF TokensBalance, IsSource
        <4>4. Net(R) \in Int /\ Made({t}) \in Int /\ Spent({t}) \in Int /\ Net(A) = Net(R)
          BY <1>1, <1>4, <2>2, <2>3, <4>1
        <4> HIDE DEF Net, R, Made, Spent
        <4> QED
          BY <4>3, <4>4
      <3> QED
        BY <3>1, <3>2
    <2>7. /\ Made(R) \in Int /\ Spent(R) \in Int /\ Net(R) \in Int
          /\ Made({t}) \in Int /\ Spent({t}) \in Int
      BY <1>1, <1>4, <2>2, <2>3
    <2>8. Made(A) = Spent(A) + Net(A)
      <3> HIDE DEF Made, Spent, Net, R
      <3> QED
        BY <2>2, <2>4, <2>5, <2>6, <2>7
    <2> QED
      BY <2>8
  <1>7. S \in T
    <2> HIDE DEF T
    <2> QED
      BY <1>5, <1>6, SameFinite, OutSum!FiniteInduction
  <1>8. S \in SUBSET S
    OBVIOUS
  <1> QED
    BY <1>1, <1>4, <1>7, <1>8

\* Nothing but registrations, coinbases and recharges makes or destroys tokens.
LEMMA SupplyHeld ==
  ASSUME IInv, StoredFinite, ChecksPassed
  PROVE  TokenSupply
  <1> DEFINE S == StoredTxs
             M == MadeIn(S, Tokens)
             P == SpentIn(S, Tokens)
  <1>1. SpentOnce /\ UnspentByChain
    BY UnspentOuts DEF IInv
  <1>2. ElaAssetId \in TxID /\ IsSource(ElaAssetId)
    BY GenesisAssumption DEF IsSource, IsRegisterAssetTx
  <1>3. \A t \in S : IsSource(t) \/ TokensBalance(t)
    BY <1>2 DEF ChecksPassed, Passed
  <1>4. {o \in UnspentOutPoints : OutputAt(o).AssetID # ElaAssetId} = M \ P
    <2>1. \A o \in Outs : OutputAt(o).AssetID \in AssetID
      BY OutType DEF Output
    <2> QED
      BY <1>1, <2>1 DEF UnspentByChain, MadeIn, SpentIn, Tokens
  <1>5. /\ IsFiniteSet(M) /\ P \in SUBSET M
        /\ \A o \in M : OutValue(o) \in Int
    <2>1. S \in SUBSET S
      OBVIOUS
    <2> QED
      BY <1>1, <2>1, ChainFinite DEF StoredFinite
  <1>6. MapThenSumSet(LAMBDA t : OutputAmount(t, Tokens) - InputAmount(t, Tokens),
                      {t \in StoredTxs : IsRegisterAssetTx(t) \/ ContextEndsEarly(t)})
          = SupplySum!Total({t \in S : IsSource(t)})
    BY DEF MapThenSumSet, MapThenFoldSet, Brings, IsSource, SupplySum!Total,
           SupplySum!MapThenSumSet, SupplySum!MapThenFoldSet
  <1> HIDE DEF M, P
  <1>7. OutSum!Total(M \ P) = OutSum!Total(M) - OutSum!Total(P)
    BY <1>5, SameFinite, OutSum!SumWithout
  <1>8. TotalValue(M \ P) = SupplySum!Total({t \in S : IsSource(t)})
    <2>1. /\ OutSum!Total(M) = OutSum!Total(P) + SupplySum!Total({t \in S : IsSource(t)})
          /\ OutSum!Total(M) \in Int /\ OutSum!Total(P) \in Int
          /\ SupplySum!Total({t \in S : IsSource(t)}) \in Int
      BY <1>1, <1>3, SupplyAdds DEF StoredFinite, M, P
    <2> QED
      BY <1>7, <2>1, SumsAreTotals
  <1> QED
    BY <1>4, <1>6, <1>8 DEF TokenSupply

\* An amount that the checks let through has no more digits than its asset.
LEMMA AmountsPrecise ==
  ASSUME IInv, ChecksPassed, MovedAssetsRegistered
  PROVE  MovedAmountsPrecise
  <1> SUFFICES ASSUME NEW t \in StoredTxs, ~IsRegisterAssetTx(t), NEW i \in OutputIndexes(t),
                      Outputs(t)[i].AssetID # ElaAssetId
               PROVE  \E n \in 0 .. Outputs(t)[i].Value :
                        Outputs(t)[i].Value
                          = n * Pow10[TokenDigits - AssetPrecision[Outputs(t)[i].AssetID]]
    BY DEF MovedAmountsPrecise
  <1> DEFINE a == Outputs(t)[i].AssetID
             v == Outputs(t)[i].Value
             p == AssetPrecision[a]
  <1>1. t \in TxID /\ t # ElaAssetId
    BY GenesisAssumption DEF StoredTxs, IsRegisterAssetTx
  <1>2. a \in AssetID /\ v \in Nat
    <2>1. Txn[t].Outputs \in Seq(Output)
      BY <1>1, TxnAssumption DEF Transaction
    <2>2. Txn[t].Outputs[i] \in Output
      BY <2>1, ElementOfSeq DEF OutputIndexes
    <2>3. Txn[t].Outputs[i].Value >= 0
      BY <1>1, TokenValueAssumption DEF Outputs
    <2> QED
      BY <2>2, <2>3 DEF Outputs, Output
  <1>3. PICK r \in StoredTxs : IsRegisterAssetTx(r) /\ AssetOf(r) = a
    <2>1. assets[a] # Absent
      BY DEF MovedAssetsRegistered
    <2> QED
      BY <1>2, <2>1 DEF IInv, AssetTableExact
  <1>4. p \in Nat /\ p <= TokenDigits
    <2>1. r # ElaAssetId
      BY <1>3 DEF AssetOf
    <2>2. AssetPrecision[AssetOf(r)] <= TokenDigits
      BY <1>3, <2>1 DEF ChecksPassed, Passed
    <2> QED
      BY <1>2, <1>3, <2>2, PrecisionAssumption
  <1>5. (v % Pow10[TokenDigits]) % Pow10[TokenDigits - p] = 0
    BY <1>1 DEF ChecksPassed, Passed, checkTokenAmountPrecise
  <1> HIDE DEF a, v, p
  <1>6. /\ p \in Nat /\ TokenDigits - p \in Nat /\ p + (TokenDigits - p) = TokenDigits
        /\ TokenDigits \in Nat
    BY <1>4, PrecisionAssumption
  <1>7. Pow10[TokenDigits] = Pow10[p] * Pow10[TokenDigits - p]
    BY <1>6, PowersMultiply
  <1>8. Pow10[p] \in Nat \ {0} /\ Pow10[TokenDigits - p] \in Nat \ {0}
    BY <1>6, PowersMultiply
  <1>9. \E n \in 0 .. v : v = n * Pow10[TokenDigits - p]
    BY <1>2, <1>5, <1>7, <1>8, LastDigits
  <1> QED
    BY <1>9 DEF a, v, p

\* As long as an asset was not moved, its controller has all of it.
LEMMA ControllerHolds ==
  ASSUME IInv, StoredFinite, ChecksPassed
  PROVE  UnmovedWithController
  <1> SUFFICES ASSUME NEW t \in StoredTxs, IsRegisterAssetTx(t), t # ElaAssetId,
                      \A s \in StoredTxs \ {t} : /\ OutputAmount(s, {AssetOf(t)}) = 0
                                                 /\ InputAmount(s, {AssetOf(t)}) = 0
               PROVE  TotalValue({o \in {u \in UnspentOutPoints :
                                           OutputAt(u).AssetID = AssetOf(t)} :
                                    OutputAt(o).ProgramHash = Txn[t].Controller})
                        = Txn[t].Amount * Pow10[TokenDigits]
    BY DEF UnmovedWithController
  <1> DEFINE a == AssetOf(t)
             C == {a}
             S == StoredTxs
             M == MadeIn(S, C)
             A == {o \in {u \in UnspentOutPoints : OutputAt(u).AssetID = a} :
                     OutputAt(o).ProgramHash = Txn[t].Controller}
             B == MadeIn({t}, C)
  <1>1. SpentOnce /\ UnspentByChain /\ S \in SUBSET S /\ t \in TxID
    BY UnspentOuts DEF IInv, StoredTxs
  <1>2. a # ElaAssetId
    BY <1>1, GenesisAssumption DEF AssetOf, IsRegisterAssetTx
  <1>3. IsFiniteSet(M) /\ \A T \in SUBSET S : IsFiniteSet(MadeIn(T, C)) /\ IsFiniteSet(SpentIn(T, C))
    <2>1. \A T \in SUBSET S : IsFiniteSet(T)
      BY FS_Subset DEF StoredFinite
    <2> HIDE DEF C
    <2> QED
      BY <1>1, <2>1, ChainFinite
  <1>4. \A o \in Outs : OutputAt(o).AssetID \in C => OutValue(o) \in Nat
    <2> SUFFICES ASSUME NEW o \in Outs, OutputAt(o).AssetID = a
                 PROVE  OutValue(o) \in Nat
      OBVIOUS
    <2>1. o.TxID \in TxID /\ OutputAt(o).Value \in Int
      BY OutType DEF Output
    <2>2. o.Index \in OutputIndexes(o.TxID)
      BY DEF Outs
    <2>3. OutputAt(o).Value >= 0
      BY <1>2, <2>1, <2>2, TokenValueAssumption DEF OutputAt
    <2> QED
      BY <2>1, <2>3 DEF OutValue
  <1>5. A \subseteq M /\ B \subseteq M
    BY <1>1 DEF UnspentByChain, MadeIn
  <1>6. IsFiniteSet(A) /\ IsFiniteSet(B) /\ \A o \in A \cup B : OutValue(o) \in Nat
    BY <1>3, <1>4, <1>5, FS_Subset DEF MadeIn
  <1>7. ASSUME NEW s \in S \ {t}
        PROVE  /\ \A o \in MadeIn({s}, C) : OutValue(o) = 0
               /\ \A o \in SpentIn({s}, C) : OutValue(o) = 0
    <2>1. s \in TxID /\ {s} \in SUBSET S
      BY DEF StoredTxs
    <2>2. OutSum!Total(MadeIn({s}, C)) = 0 /\ OutSum!Total(SpentIn({s}, C)) = 0
      BY <2>1, AmountsAreSums
    <2>3. IsFiniteSet(MadeIn({s}, C)) /\ IsFiniteSet(SpentIn({s}, C))
      BY <1>3, <2>1
    <2>4. \A o \in MadeIn({s}, C) \cup SpentIn({s}, C) : OutValue(o) \in Nat
      <3>1. SpentIn({s}, C) \subseteq Outs
        <4>1. IsFiniteSet({s})
          BY FS_Singleton
        <4> HIDE DEF C
        <4> QED
          BY <1>1, <2>1, <4>1, ChainFinite
      <3>2. MadeIn({s}, C) \subseteq Outs
        BY DEF MadeIn
      <3> QED
        BY <1>4, <3>1, <3>2 DEF MadeIn, SpentIn
    <2> HIDE DEF C
    <2> QED
      BY <2>2, <2>3, <2>4, ZeroSums
  <1>8. ASSUME NEW o \in A, OutValue(o) # 0
        PROVE  o \in B
    <2>1. o \in Outs /\ o.TxID \in S /\ OutputAt(o).AssetID \in C
      BY <1>1 DEF UnspentByChain
    <2>2. o.TxID # t => o \in MadeIn({o.TxID}, C)
      BY <2>1 DEF MadeIn
    <2>3. o.TxID = t
      BY <1>7, <1>8, <2>1, <2>2
    <2> QED
      BY <2>1, <2>3 DEF MadeIn
  <1>9. ASSUME NEW o \in B, OutValue(o) # 0
        PROVE  o \in A
    <2>1. o \in Outs /\ o.TxID = t /\ OutputAt(o).AssetID = a
      BY DEF MadeIn
    <2>2. o \notin SpentBy(S)
      <3> SUFFICES ASSUME NEW s \in S, o \in Spends(s)
                   PROVE  FALSE
        BY DEF SpentBy
      <3>1. s # t
        <4>1. txHeight[o.TxID] < txHeight[s] /\ txHeight[t] \in Int
          BY <1>1 DEF SpentOnce, IInv, TypeOK
        <4> QED
          BY <2>1, <4>1
      <3>2. o \in SpentIn({s}, C)
        BY <2>1 DEF SpentIn, SpentBy
      <3> QED
        BY <1>7, <1>9, <3>1, <3>2
    <2>3. OutputAt(o).ProgramHash = Txn[t].Controller
      <3>1. \A i \in OutputIndexes(t) :
              Outputs(t)[i].AssetID = a => Outputs(t)[i].ProgramHash = Txn[t].Controller
        BY DEF ChecksPassed, Passed
      <3>2. o.Index \in OutputIndexes(t) /\ OutputAt(o) = Outputs(t)[o.Index]
        BY <2>1 DEF Outs, OutputAt, Outputs
      <3> QED
        BY <2>1, <3>1, <3>2
    <2> QED
      BY <1>1, <2>1, <2>2, <2>3 DEF UnspentByChain
  <1>10. OutSum!Total(A) = OutSum!Total(B)
    <2>1. \A o \in A \cup B : OutValue(o) # 0 => (o \in A <=> o \in B)
      BY <1>8, <1>9
    <2> HIDE DEF A, B
    <2> QED
      BY <1>6, <2>1, SameSums
  <1>11. OutSum!Total(B) = Txn[t].Amount * Pow10[TokenDigits]
    <2>1. OutputAmount(t, C) = Txn[t].Amount * Pow10[TokenDigits]
      BY DEF ChecksPassed, Passed
    <2> QED
      BY <1>1, <2>1, AmountsAreSums
  <1> QED
    BY <1>10, <1>11, SumsAreTotals

-----------------------------------------------------------------------------
(* The theorems.                                                           *)

\* The invariant holds of every behaviour of the validated store.
THEOREM ValidatorInvariant == ValidatorSpec => []VInv
  <1>1. Init => VInv
    BY InitVInv
  <1>2. VInv /\ [ValidatorNext]_vars => VInv'
    BY ValidatorStepVInv
  <1> QED
    BY <1>1, <1>2, PTL DEF ValidatorSpec

\* The store behind the checks is the store: whatever holds of every block
\* that the base library lets through holds of the blocks that the token
\* chain's own checks let through.
THEOREM ValidatorImplementsStore == ValidatorSpec => Spec
  <1>1. [ValidatorNext]_vars => [Next]_vars
    BY ValidatorStep
  <1> QED
    BY <1>1, PTL DEF ValidatorSpec, Spec

\* No transaction of the chain spends a coinbase before it is mature
\* (checkReferencedOutputImpl), whatever was rolled back in between.
THEOREM ValidatorCoinbaseMature == ValidatorSpec => []CoinbaseMature
  BY ValidatorInvariant, PTL DEF VInv

\* Only registered assets are moved, and they stay on record for as long as a
\* transaction that moves them is in the chain (checkAssetPrecisionImpl).
THEOREM ValidatorMovedAssetsRegistered == ValidatorSpec => []MovedAssetsRegistered
  BY ValidatorInvariant, PTL DEF VInv

\* The tokens that are unspent are those that registrations, coinbases and
\* recharges brought in, whatever blocks were accepted and rolled back: the
\* check adds the amounts of all tokens up together, and the sum over the
\* whole chain comes out (checkTransactionBalanceImpl).
THEOREM ValidatorTokenSupply == ValidatorSpec => []TokenSupply
  BY ValidatorInvariant, SupplyHeld, PTL DEF VInv

\* Amounts that are moved are multiples of the smallest amount of their asset:
\* the check of the last 18 digits is enough, as that amount divides the 18th
\* power of ten (checkTokenAmountPrecise, checkTransactionPayloadImpl).
THEOREM ValidatorMovedAmountsPrecise == ValidatorSpec => []MovedAmountsPrecise
  BY ValidatorInvariant, AmountsPrecise, PTL DEF VInv

\* As long as nothing has moved an asset, all of the registered amount is with
\* its controller (CheckRegisterAssetTx).
THEOREM ValidatorUnmovedWithController == ValidatorSpec => []UnmovedWithController
  BY ValidatorInvariant, ControllerHolds, PTL DEF VInv
=============================================================================
