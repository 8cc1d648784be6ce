---------------------- MODULE TokenChainStoreProofs ----------------------
(***************************************************************************)
(* What holds of the store for every set of transactions, every set of     *)
(* blocks and every height.  The utxo lists never guide the other tables   *)
(* except by refusing a block, so the tables come first, and the handlers  *)
(* of the lists stay unexpanded until the second half.                     *)
(***************************************************************************)
EXTENDS TokenChainStore, SequenceTheorems, FiniteSetTheorems, TLAPS

\* The genesis transaction stays where Init put it.
GenesisStored ==
  /\ \A t \in TxID : txHeight[t] = 0 <=> t = ElaAssetId
  /\ \A h \in 1 .. Height : ElaAssetId \notin BlockTxs(chain[h])

(***************************************************************************)
(* The inductive invariant.  UnspentIndexExact alone is not inductive: a   *)
(* rollback restores the right indexes only because each output has one    *)
(* spender (SpentOnce) and because the tip is the set of the transactions  *)
(* at the chain's height (TxTableExact); SpentOnce in turn needs           *)
(* UnspentIndexExact when a block is persisted.                            *)
(***************************************************************************)
IInv ==
  /\ TypeOK
  /\ GenesisStored
  /\ TxTableExact
  /\ SpentOnce
  /\ UnspentIndexExact
  /\ AssetTableExact
  /\ MainchainTxsExact

-----------------------------------------------------------------------------
\* The remainder of a number below the modulus is the number.
LEMMA SmallMod ==
  ASSUME NEW n \in Nat, NEW k \in Nat \ {0}, n < k
  PROVE  n % k = n
  <1> DEFINE q == n \div k
             r == n % k
  <1>1. q \in Int /\ r \in 0 .. k - 1 /\ n = k * q + r
    OBVIOUS
  <1>2. q = 0
    <2>1. CASE q >= 1
      <3>1. k * q >= k
        BY <1>1, <2>1
      <3> QED
        BY <1>1, <3>1
    <2>2. CASE q <= -1
      <3>1. k * q <= -k
        BY <1>1, <2>2
      <3> QED
        BY <1>1, <3>1
    <2> QED
      BY <1>1, <2>1, <2>2
  <1> QED
    BY <1>1, <1>2

\* An input is an outpoint: it is the record of its two fields.
LEMMA SpendsType ==
  ASSUME NEW t \in TxID, NEW o \in Spends(t)
  PROVE  /\ o \in OutPoint
         /\ o.TxID \in TxID
         /\ o = [TxID |-> o.TxID, Index |-> o.Index]
  <1>1. Txn[t].Inputs \in Seq(OutPoint)
    BY TxnAssumption DEF Transaction
  <1>2. PICK i \in 1 .. Len(Txn[t].Inputs) : o = Txn[t].Inputs[i]
    BY DEF Spends
  <1>3. o \in OutPoint
    BY <1>1, <1>2
  <1> QED
    BY <1>3 DEF OutPoint

\* The transactions of a block have a hash.
LEMMA BlockTxsType ==
  ASSUME NEW b \in Blocks
  PROVE  BlockTxs(b) \subseteq TxID
  <1>1. b \in Seq(TxID)
    BY BlocksAssumption
  <1> QED
    BY <1>1 DEF BlockTxs

\* The outputs of a transaction are indexed by positive numbers.
LEMMA OutputIndexesType ==
  ASSUME NEW t \in TxID
  PROVE  OutputIndexes(t) \subseteq Nat \ {0}
  <1>1. Txn[t].Outputs \in Seq(Output)
    BY TxnAssumption DEF Transaction
  <1> QED
    BY <1>1 DEF OutputIndexes

\* A registration files an asset id.
LEMMA AssetOfType ==
  ASSUME NEW t \in TxID
  PROVE  AssetOf(t) \in AssetID
  <1>1. Txn[t].RegisteredAsset \in AssetID
    BY TxnAssumption DEF Transaction
  <1> QED
    BY <1>1, GenesisAssumption DEF AssetOf

\* The indexes that a block consumes are those of its transactions' inputs.
LEMMA SpentIndexesIff ==
  ASSUME NEW b \in Blocks, NEW t \in TxID, NEW i
  PROVE  i \in SpentIndexes(b, t) <=>
           \E s \in BlockTxs(b) : [TxID |-> t, Index |-> i] \in Spends(s)
  <1>1. ASSUME i \in SpentIndexes(b, t)
        PROVE  \E s \in BlockTxs(b) : [TxID |-> t, Index |-> i] \in Spends(s)
    <2>1. PICK o \in SpentBy(BlockTxs(b)) : o.TxID = t /\ o.Index = i
      BY <1>1 DEF SpentIndexes
    <2>2. PICK s \in BlockTxs(b) : o \in Spends(s)
      BY <2>1 DEF SpentBy
    <2>3. o = [TxID |-> t, Index |-> i]
      BY <2>1, <2>2, SpendsType, BlockTxsType
    <2> QED
      BY <2>2, <2>3
  <1>2. ASSUME NEW s \in BlockTxs(b), [TxID |-> t, Index |-> i] \in Spends(s)
        PROVE  i \in SpentIndexes(b, t)
    <2>1. [TxID |-> t, Index |-> i] \in SpentBy(BlockTxs(b))
      BY <1>2 DEF SpentBy
    <2> QED
      BY <2>1 DEF SpentIndexes
  <1> QED
    BY <1>1, <1>2

-----------------------------------------------------------------------------
\* What PersistBlock(b) does to the chain and the table of transactions.
LEMMA PersistEffect ==
  ASSUME TypeOK, NEW b \in Blocks, PersistBlock(b)
  PROVE  /\ chain \in Seq(Blocks)
         /\ chain' \in Seq(Blocks)
         /\ Height \in Nat
         /\ Height' = Height + 1
         /\ Height' <= MaxHeight
         /\ \A h \in 1 .. Height : chain'[h] = chain[h]
         /\ chain'[Height + 1] = b
         /\ BlockTxs(b) \subseteq TxID
         /\ BlockTxs(b) \cap StoredTxs = {}
         /\ StoredTxs' = StoredTxs \cup BlockTxs(b)
         /\ \A t \in BlockTxs(b) : txHeight'[t] = Height + 1
         /\ \A t \in TxID \ BlockTxs(b) : txHeight'[t] = txHeight[t]
         /\ txHeight' \in [TxID -> Absent .. Height + 1]
  <1>1. /\ chain \in Seq(Blocks)
        /\ Height \in Nat
        /\ txHeight \in [TxID -> Absent .. Height]
    BY DEF TypeOK, Height
  <1>2. chain' = Append(chain, b) /\ Height < MaxHeight
    BY DEF PersistBlock
  <1>3. /\ chain' \in Seq(Blocks)
        /\ Height' = Height + 1
        /\ \A h \in 1 .. Height : chain'[h] = chain[h]
        /\ chain'[Height + 1] = b
    BY <1>1, <1>2 DEF Height
  <1>4. Height' <= MaxHeight
    BY <1>1, <1>2, <1>3, MaxHeightAssumption
  <1>5. BlockTxs(b) \subseteq TxID
    BY BlockTxsType
  <1>6. BlockTxs(b) \cap StoredTxs = {}
    BY DEF PersistBlock, CheckedBlock, CheckTxContext, StoredTxs
  <1>7. txHeight' = [t \in TxID |-> IF t \in BlockTxs(b) THEN Height + 1 ELSE txHeight[t]]
    BY DEF PersistBlock, persistTransactions
  <1>8. StoredTxs' = StoredTxs \cup BlockTxs(b)
    BY <1>1, <1>5, <1>7 DEF StoredTxs, Stored, Absent
  <1>9. txHeight' \in [TxID -> Absent .. Height + 1]
    BY <1>1, <1>7 DEF Absent
  <1> QED
    BY <1>1, <1>3, <1>4, <1>5, <1>6, <1>7, <1>8, <1>9

\* What the checks say of the inputs of a block: each names an output of a
\* stored transaction that no stored transaction consumes.
LEMMA CheckedInputs ==
  ASSUME TypeOK, UnspentIndexExact, NEW b \in Blocks, PersistBlock(b),
         NEW t \in BlockTxs(b), NEW o \in Spends(t)
  PROVE  /\ o.TxID \in StoredTxs
         /\ o.Index \in OutputIndexes(o.TxID)
         /\ o \notin SpentBy(StoredTxs)
         /\ \A s \in BlockTxs(b) : o \in Spends(s) => s = t
  <1>1. t \in TxID
    BY BlockTxsType
  <1>2. o.TxID \in TxID /\ o = [TxID |-> o.TxID, Index |-> o.Index]
    BY <1>1, SpendsType
  <1>3. o.Index \in unspent[o.TxID]
    BY DEF PersistBlock, CheckedBlock, CheckTxContext
  <1>4. \A s \in BlockTxs(b) : s # t => Spends(s) \cap Spends(t) = {}
    BY DEF PersistBlock, CheckedBlock, CheckBlockSanity
  <1>5. Stored(o.TxID)
    BY <1>2, <1>3 DEF UnspentIndexExact
  <1>6. /\ o.Index \in OutputIndexes(o.TxID)
        /\ [TxID |-> o.TxID, Index |-> o.Index] \notin SpentBy(StoredTxs)
    BY <1>2, <1>3, <1>5 DEF UnspentIndexExact
  <1> QED
    BY <1>2, <1>4, <1>5, <1>6 DEF StoredTxs

\* Persisting a block keeps the table of transactions exact.
LEMMA PersistTxTable ==
  ASSUME IInv, NEW b \in Blocks, PersistBlock(b)
  PROVE  GenesisStored' /\ TxTableExact'
  <1> USE DEF IInv
  <1>1. ElaAssetId \in StoredTxs
    BY GenesisAssumption DEF GenesisStored, StoredTxs, Stored, Absent
  <1>2. ElaAssetId \notin BlockTxs(b)
    BY <1>1, PersistEffect
  <1>3. \A h \in 1 .. Height : ElaAssetId \notin BlockTxs(chain[h])
    BY DEF GenesisStored
  <1>4. GenesisStored'
    <2>1. \A t \in TxID : txHeight'[t] = 0 <=> t = ElaAssetId
      BY <1>2, PersistEffect DEF GenesisStored
    <2>2. ASSUME NEW h \in 1 .. Height'
          PROVE  ElaAssetId \notin BlockTxs(chain'[h])
      BY <1>2, <1>3, PersistEffect DEF BlockTxs
    <2> QED
      BY <2>1, <2>2 DEF GenesisStored, BlockTxs
  <1>5. ASSUME NEW t \in TxID \ {ElaAssetId}, NEW h \in 1 .. MaxHeight
        PROVE  txHeight'[t] = h <=> h <= Height' /\ t \in BlockTxs(chain'[h])
    <2>1. txHeight[t] = h <=> h <= Height /\ t \in BlockTxs(chain[h])
      BY DEF TxTableExact
    <2>2. txHeight[t] \in Absent .. Height
      BY DEF TypeOK
    <2>3. CASE t \in BlockTxs(b)
      <3>1. txHeight[t] = Absent
        BY <2>3, PersistEffect DEF StoredTxs, Stored
      <3>2. h <= Height => t \notin BlockTxs(chain[h])
        BY <2>1, <3>1 DEF Absent
      <3> QED
        BY <2>3, <3>2, PersistEffect, MaxHeightAssumption
    <2>4. CASE t \notin BlockTxs(b)
      BY <2>1, <2>2, <2>4, PersistEffect, MaxHeightAssumption DEF Absent
    <2> QED
      BY <2>3, <2>4
  <1>6. TxTableExact'
    BY <1>5 DEF TxTableExact, BlockTxs
  <1> QED
    BY <1>4, <1>6

\* Persisting a block keeps every output spent at most once.
LEMMA PersistSpentOnce ==
  ASSUME IInv, NEW b \in Blocks, PersistBlock(b)
  PROVE  SpentOnce'
  <1> USE DEF IInv
  <1>1. SUFFICES ASSUME NEW t \in StoredTxs', NEW o \in Spends(t)
        PROVE  /\ o.TxID \in StoredTxs'
               /\ txHeight'[o.TxID] < txHeight'[t]
               /\ o.Index \in OutputIndexes(o.TxID)
               /\ \A s \in StoredTxs' : o \in Spends(s) => s = t
    BY DEF SpentOnce, StoredTxs, Stored
  <1>2. t \in TxID
    BY DEF StoredTxs
  <1>3. CASE t \in BlockTxs(b)
    <2>1. /\ o.TxID \in StoredTxs
          /\ o.Index \in OutputIndexes(o.TxID)
          /\ o \notin SpentBy(StoredTxs)
          /\ \A s \in BlockTxs(b) : o \in Spends(s) => s = t
      BY <1>3, CheckedInputs
    <2>2. txHeight[o.TxID] \in Absent .. Height /\ o.TxID \in TxID
      BY <2>1 DEF TypeOK, StoredTxs
    <2>3. o.TxID \notin BlockTxs(b)
      BY <2>1, PersistEffect
    <2>4. txHeight'[o.TxID] < txHeight'[t]
      BY <1>3, <2>2, <2>3, PersistEffect DEF Absent
    <2>5. \A s \in StoredTxs : o \notin Spends(s)
      BY <2>1 DEF SpentBy
    <2> QED
      BY <2>1, <2>4, <2>5, PersistEffect
  <1>4. CASE t \in StoredTxs
    <2>1. /\ o.TxID \in StoredTxs
          /\ txHeight[o.TxID] < txHeight[t]
          /\ o.Index \in OutputIndexes(o.TxID)
          /\ \A s \in StoredTxs : o \in Spends(s) => s = t
      BY <1>4 DEF SpentOnce
    <2>2. o.TxID \in TxID
      BY <2>1 DEF StoredTxs
    <2>3. txHeight'[o.TxID] < txHeight'[t]
      BY <1>2, <1>4, <2>1, <2>2, PersistEffect
    <2>4. ASSUME NEW s \in BlockTxs(b), o \in Spends(s)
          PROVE  FALSE
      <3>1. o \notin SpentBy(StoredTxs)
        BY <2>4, CheckedInputs
      <3> QED
        BY <1>4, <3>1 DEF SpentBy
    <2> QED
      BY <2>1, <2>3, <2>4, PersistEffect
  <1> QED
    BY <1>3, <1>4, PersistEffect

\* Persisting a block keeps IX_Unspent exact.
LEMMA PersistUnspentExact ==
  ASSUME IInv, NEW b \in Blocks, PersistBlock(b)
  PROVE  UnspentIndexExact'
  <1> USE DEF IInv
  <1>1. SUFFICES ASSUME NEW t \in TxID
        PROVE  unspent'[t] = IF t \in StoredTxs'
                             THEN {i \in OutputIndexes(t) :
                                     [TxID |-> t, Index |-> i] \notin SpentBy(StoredTxs')}
                             ELSE {}
    BY DEF UnspentIndexExact, StoredTxs, Stored, SpentBy
  <1>2. unspent'[t] = (IF t \in BlockTxs(b) THEN OutputIndexes(t) ELSE unspent[t])
                        \ SpentIndexes(b, t)
    BY DEF PersistBlock, persistUnspend
  <1>3. unspent[t] = IF t \in StoredTxs
                     THEN {i \in OutputIndexes(t) :
                             [TxID |-> t, Index |-> i] \notin SpentBy(StoredTxs)}
                     ELSE {}
    BY DEF UnspentIndexExact, StoredTxs
  <1>4. StoredTxs' = StoredTxs \cup BlockTxs(b) /\ BlockTxs(b) \cap StoredTxs = {}
    BY PersistEffect
  <1>5. ASSUME NEW i
        PROVE  [TxID |-> t, Index |-> i] \in SpentBy(StoredTxs') <=>
                 \/ [TxID |-> t, Index |-> i] \in SpentBy(StoredTxs)
                 \/ i \in SpentIndexes(b, t)
    BY <1>4, SpentIndexesIff DEF SpentBy
  <1>6. CASE t \in BlockTxs(b)
    <2>1. ASSUME NEW i, [TxID |-> t, Index |-> i] \in SpentBy(StoredTxs)
          PROVE  FALSE
      <3>1. PICK s \in StoredTxs : [TxID |-> t, Index |-> i] \in Spends(s)
        BY <2>1 DEF SpentBy
      <3>2. t \in StoredTxs
        BY <3>1 DEF SpentOnce
      <3> QED
        BY <1>4, <1>6, <3>2
    <2> QED
      BY <1>2, <1>4, <1>5, <1>6, <2>1
  <1>7. CASE t \in StoredTxs
    BY <1>2, <1>3, <1>4, <1>5, <1>7
  <1>8. CASE t \notin StoredTxs /\ t \notin BlockTxs(b)
    BY <1>2, <1>3, <1>4, <1>8
  <1> QED
    BY <1>6, <1>7, <1>8

\* Persisting a block keeps the asset table exact: the name check refuses an
\* asset that is already on record.
LEMMA PersistAssetTable ==
  ASSUME IInv, NEW b \in Blocks, PersistBlock(b)
  PROVE  AssetTableExact'
  <1> USE DEF IInv
  <1> DEFINE R(a) == {t \in StoredTxs : IsRegisterAssetTx(t) /\ AssetOf(t) = a}
             N(a) == {t \in BlockTxs(b) : IsRegisterAssetTx(t) /\ AssetOf(t) = a}
  <1>1. SUFFICES ASSUME NEW a \in AssetID
        PROVE  IF R(a)' = {} THEN assets'[a] = Absent
                             ELSE \A t \in R(a)' : assets'[a] = txHeight'[t]
    BY DEF AssetTableExact, StoredTxs, Stored
  <1>2. R(a)' = R(a) \cup N(a)
    BY PersistEffect
  <1>3. assets'[a] = IF N(a) # {} THEN Height + 1 ELSE assets[a]
    BY DEF PersistBlock, persistTransactions, RegisteredBy
  <1>4. IF R(a) = {} THEN assets[a] = Absent
                     ELSE \A t \in R(a) : assets[a] = txHeight[t]
    BY DEF AssetTableExact
  <1>5. \A t \in R(a) : t \in TxID /\ txHeight[t] # Absent /\ t \notin BlockTxs(b)
    BY PersistEffect DEF StoredTxs, Stored
  <1>6. ASSUME NEW t \in N(a), NEW s \in R(a)
        PROVE  FALSE
    <2>1. assets[a] # Absent
      BY <1>4, <1>5, <1>6
    <2>2. AssetName[a] # AssetName[AssetOf(t)]
      BY <2>1, <1>6 DEF PersistBlock, CheckedBlock, AssetNameIsNew
    <2> QED
      BY <2>2
  <1>7. CASE N(a) = {}
    <2>1. \A t \in R(a) : txHeight'[t] = txHeight[t]
      BY <1>5, PersistEffect
    <2> QED
      BY <1>2, <1>3, <1>4, <1>7, <2>1
  <1>8. CASE N(a) # {}
    <2>1. R(a) = {}
      BY <1>6, <1>8
    <2>2. \A t \in N(a) : txHeight'[t] = Height + 1
      BY PersistEffect
    <2> QED
      BY <1>2, <1>3, <1>8, <2>1, <2>2
  <1> QED
    BY <1>7, <1>8

\* Persisting a block keeps the table of recharges exact.
LEMMA PersistMainchainTxs ==
  ASSUME IInv, NEW b \in Blocks, PersistBlock(b)
  PROVE  MainchainTxsExact'
  <1> USE DEF IInv
  <1>1. StoredTxs' = StoredTxs \cup BlockTxs(b)
    BY PersistEffect
  <1>2. mainchainTxs' = mainchainTxs \cup RechargedBy(BlockTxs(b))
    BY DEF PersistBlock, persistTransactions
  <1>3. mainchainTxs = RechargedBy(StoredTxs)
    BY DEF MainchainTxsExact
  <1>4. mainchainTxs' = RechargedBy(StoredTxs')
    BY <1>1, <1>2, <1>3 DEF RechargedBy
  <1>5. ASSUME NEW s \in StoredTxs', NEW t \in StoredTxs',
               IsRechargeToSideChainTx(s), IsRechargeToSideChainTx(t),
               Txn[s].MainchainTx = Txn[t].MainchainTx
        PROVE  s = t
    <2>1. \A u \in BlockTxs(b) : IsRechargeToSideChainTx(u) =>
            Txn[u].MainchainTx \notin RechargedBy(StoredTxs)
      BY <1>3 DEF PersistBlock, CheckedBlock, CheckTxContext
    <2>2. CASE s \in StoredTxs /\ t \in StoredTxs
      BY <1>5, <2>2 DEF MainchainTxsExact
    <2>3. CASE s \in BlockTxs(b) /\ t \in BlockTxs(b)
      BY <1>5, <2>3 DEF PersistBlock, CheckedBlock, CheckBlockSanity
    <2>4. CASE s \in StoredTxs /\ t \in BlockTxs(b)
      BY <1>5, <2>1, <2>4 DEF RechargedBy
    <2>5. CASE s \in BlockTxs(b) /\ t \in StoredTxs
      BY <1>5, <2>1, <2>5 DEF RechargedBy
    <2> QED
      BY <1>1, <2>2, <2>3, <2>4, <2>5
  <1>6. RechargedBy(StoredTxs)' = RechargedBy(StoredTxs')
    BY DEF RechargedBy
  <1> QED
    BY <1>4, <1>5, <1>6 DEF MainchainTxsExact

\* Persisting a block keeps the types.
LEMMA PersistTypeOK ==
  ASSUME IInv, NEW b \in Blocks, PersistBlock(b)
  PROVE  TypeOK'
  <1> USE DEF IInv
  <1>1. chain' \in Seq(Blocks) /\ Height' <= MaxHeight
    BY PersistEffect
  <1>2. txHeight' \in [TxID -> Absent .. Height']
    BY PersistEffect
  <1>3. assets' \in [AssetID -> Absent .. Height']
    <2>1. assets' = [a \in AssetID |->
            IF a \in RegisteredBy(BlockTxs(b)) THEN Height + 1 ELSE assets[a]]
      BY DEF PersistBlock, persistTransactions
    <2>2. assets \in [AssetID -> Absent .. Height]
      BY DEF TypeOK
    <2> QED
      BY <2>1, <2>2, PersistEffect DEF Absent
  <1>4. unspent' = [t \in TxID |->
          (IF t \in BlockTxs(b) THEN OutputIndexes(t) ELSE unspent[t]) \ SpentIndexes(b, t)]
    BY DEF PersistBlock, persistUnspend
  <1>5. \A t \in TxID : unspent'[t] \subseteq OutputIndexes(t)
    BY <1>4 DEF TypeOK
  <1>6. unspent' \in [TxID -> SUBSET (Nat \ {0})]
    BY <1>4, <1>5, OutputIndexesType
  <1>7. mainchainTxs' \subseteq MainchainTx
    <2>1. RechargedBy(BlockTxs(b)) \subseteq MainchainTx
      BY BlockTxsType, TxnAssumption DEF RechargedBy, Transaction
    <2> QED
      BY <2>1 DEF TypeOK, PersistBlock, persistTransactions
  <1> QED
    BY <1>1, <1>2, <1>3, <1>5, <1>6, <1>7 DEF TypeOK, Height, OutputIndexes

-----------------------------------------------------------------------------
\* What RollbackBlock does to the chain and the table of transactions: the
\* transactions of the tip are those stored at the chain's height.
LEMMA RollbackEffect ==
  ASSUME TypeOK, TxTableExact, GenesisStored, RollbackBlock,
         NEW b, b = Last(chain)
  PROVE  /\ b \in Blocks
         /\ chain' \in Seq(Blocks)
         /\ Height \in Nat \ {0}
         /\ Height' = Height - 1
         /\ Height' <= MaxHeight
         /\ \A h \in 1 .. Height - 1 : chain'[h] = chain[h]
         /\ BlockTxs(b) = {t \in TxID : txHeight[t] = Height}
         /\ BlockTxs(b) \subseteq StoredTxs
         /\ StoredTxs' = StoredTxs \ BlockTxs(b)
         /\ \A t \in TxID \ BlockTxs(b) : txHeight'[t] = txHeight[t]
         /\ txHeight' \in [TxID -> Absent .. Height - 1]
  <1>1. /\ chain \in Seq(Blocks)
        /\ chain # << >>
        /\ txHeight \in [TxID -> Absent .. Height]
        /\ Height <= MaxHeight
    BY DEF TypeOK, RollbackBlock
  <1>2. Height \in Nat \ {0}
    BY <1>1 DEF Height
  <1>3. b = chain[Height] /\ b \in Blocks
    BY <1>1, <1>2 DEF Last, Height
  <1>4. chain' = SubSeq(chain, 1, Height - 1)
    BY DEF RollbackBlock, Front, Height
  <1>5. /\ chain' \in Seq(Blocks)
        /\ Height' = Height - 1
        /\ \A h \in 1 .. Height - 1 : chain'[h] = chain[h]
    <2>1. \A h \in 1 .. Height - 1 : chain[h] \in Blocks
      BY <1>1, <1>2 DEF Height
    <2>2. /\ SubSeq(chain, 1, Height - 1) \in Seq(Blocks)
          /\ Len(SubSeq(chain, 1, Height - 1)) = Height - 1
          /\ \A h \in 1 .. Height - 1 : SubSeq(chain, 1, Height - 1)[h] = chain[h]
      BY <1>2, <2>1, SubSeqProperties
    <2> QED
      BY <1>4, <2>2 DEF Height
  <1>6. Height' <= MaxHeight
    BY <1>1, <1>2, <1>5, MaxHeightAssumption
  <1>7. BlockTxs(b) = {t \in TxID : txHeight[t] = Height}
    <2>1. Height \in 1 .. MaxHeight
      BY <1>1, <1>2, MaxHeightAssumption
    <2>2. \A t \in TxID \ {ElaAssetId} : txHeight[t] = Height <=> t \in BlockTxs(b)
      <3>1. \A t \in TxID \ {ElaAssetId} :
              txHeight[t] = Height <=> Height <= Height /\ t \in BlockTxs(chain[Height])
        BY <2>1 DEF TxTableExact
      <3>2. Height <= Height /\ BlockTxs(chain[Height]) = BlockTxs(b)
        BY <1>2, <1>3
      <3> QED
        BY <3>1, <3>2
    <2>3. ElaAssetId \notin BlockTxs(b) /\ txHeight[ElaAssetId] # Height
      BY <1>2, <1>3, GenesisAssumption DEF GenesisStored
    <2> QED
      BY <1>3, <2>2, <2>3, BlockTxsType
  <1>8. txHeight' = [t \in TxID |-> IF t \in BlockTxs(b) THEN Absent ELSE txHeight[t]]
    BY DEF RollbackBlock, rollbackTransactions
  <1>9. BlockTxs(b) \subseteq StoredTxs
    BY <1>2, <1>7 DEF StoredTxs, Stored, Absent
  <1>10. StoredTxs' = StoredTxs \ BlockTxs(b)
    BY <1>8 DEF StoredTxs, Stored
  <1>11. txHeight' \in [TxID -> Absent .. Height - 1]
    BY <1>1, <1>2, <1>7, <1>8 DEF Absent
  <1> QED
    BY <1>2, <1>3, <1>5, <1>6, <1>7, <1>8, <1>9, <1>10, <1>11

\* A rollback keeps the table of transactions exact.
LEMMA RollbackTxTable ==
  ASSUME IInv, RollbackBlock
  PROVE  GenesisStored' /\ TxTableExact'
  <1> USE DEF IInv
  <1> DEFINE b == Last(chain)
  <1>1. ElaAssetId \notin BlockTxs(b)
    BY RollbackEffect DEF GenesisStored
  <1>2. GenesisStored'
    <2>1. \A t \in TxID : txHeight'[t] = 0 <=> t = ElaAssetId
      <3>1. \A t \in BlockTxs(b) : txHeight'[t] = Absent
        BY RollbackEffect DEF RollbackBlock, rollbackTransactions
      <3> QED
        BY <1>1, <3>1, RollbackEffect, GenesisAssumption DEF GenesisStored, Absent
    <2>2. ASSUME NEW h \in 1 .. Height'
          PROVE  ElaAssetId \notin BlockTxs(chain'[h])
      <3>1. h \in 1 .. Height /\ chain'[h] = chain[h]
        BY RollbackEffect
      <3> QED
        BY <3>1 DEF GenesisStored
    <2> QED
      BY <2>1, <2>2 DEF GenesisStored, BlockTxs
  <1>3. ASSUME NEW t \in TxID \ {ElaAssetId}, NEW h \in 1 .. MaxHeight
        PROVE  txHeight'[t] = h <=> h <= Height' /\ t \in BlockTxs(chain'[h])
    <2>1. txHeight[t] = h <=> h <= Height /\ t \in BlockTxs(chain[h])
      BY DEF TxTableExact
    <2>2. txHeight[t] \in Absent .. Height
      BY DEF TypeOK
    <2>3. CASE t \in BlockTxs(b)
      <3>1. txHeight'[t] = Absent
        BY <2>3 DEF RollbackBlock, rollbackTransactions
      <3>2. txHeight[t] = Height
        BY <2>3, RollbackEffect
      <3> QED
        BY <2>1, <3>1, <3>2, RollbackEffect, MaxHeightAssumption DEF Absent
    <2>4. CASE t \notin BlockTxs(b)
      <3>1. txHeight'[t] = txHeight[t] /\ txHeight[t] # Height
        BY <2>4, RollbackEffect
      <3>2. h <= Height' => chain'[h] = chain[h]
        BY RollbackEffect, MaxHeightAssumption
      <3> QED
        BY <2>1, <2>2, <3>1, <3>2, RollbackEffect, MaxHeightAssumption DEF Absent
    <2> QED
      BY <2>3, <2>4
  <1>4. TxTableExact'
    BY <1>3 DEF TxTableExact, BlockTxs
  <1> QED
    BY <1>2, <1>4

\* A rollback keeps every output spent at most once: what a remaining
\* transaction consumes was made below it, so it remains too.
LEMMA RollbackSpentOnce ==
  ASSUME IInv, RollbackBlock
  PROVE  SpentOnce'
  <1> USE DEF IInv
  <1> DEFINE b == Last(chain)
  <1>1. SUFFICES ASSUME NEW t \in StoredTxs', NEW o \in Spends(t)
        PROVE  /\ o.TxID \in StoredTxs'
               /\ txHeight'[o.TxID] < txHeight'[t]
               /\ o.Index \in OutputIndexes(o.TxID)
               /\ \A s \in StoredTxs' : o \in Spends(s) => s = t
    BY DEF SpentOnce, StoredTxs, Stored
  <1>2. t \in StoredTxs /\ t \notin BlockTxs(b) /\ t \in TxID
    BY RollbackEffect DEF StoredTxs
  <1>3. /\ o.TxID \in StoredTxs
        /\ txHeight[o.TxID] < txHeight[t]
        /\ o.Index \in OutputIndexes(o.TxID)
        /\ \A s \in StoredTxs : o \in Spends(s) => s = t
    BY <1>2 DEF SpentOnce
  <1>4. o.TxID \in TxID /\ txHeight[t] \in Absent .. Height
    BY <1>2, <1>3 DEF StoredTxs, TypeOK
  <1>5. o.TxID \notin BlockTxs(b)
    BY <1>3, <1>4, RollbackEffect DEF Absent
  <1> QED
    BY <1>2, <1>3, <1>4, <1>5, RollbackEffect

\* A rollback keeps IX_Unspent exact: it gives back the outputs whose only
\* spender is in the block, and drops those of the block.
LEMMA RollbackUnspentExact ==
  ASSUME IInv, RollbackBlock
  PROVE  UnspentIndexExact'
  <1> USE DEF IInv
  <1> DEFINE b == Last(chain)
  <1>1. SUFFICES ASSUME NEW t \in TxID
        PROVE  unspent'[t] = IF t \in StoredTxs'
                             THEN {i \in OutputIndexes(t) :
                                     [TxID |-> t, Index |-> i] \notin SpentBy(StoredTxs')}
                             ELSE {}
    BY DEF UnspentIndexExact, StoredTxs, Stored, SpentBy
  <1>2. unspent'[t] = IF SpentIndexes(b, t) # {} THEN unspent[t] \cup SpentIndexes(b, t)
                      ELSE IF t \in BlockTxs(b) THEN {}
                      ELSE unspent[t]
    BY DEF RollbackBlock, rollbackUnspend
  <1>3. unspent[t] = IF t \in StoredTxs
                     THEN {i \in OutputIndexes(t) :
                             [TxID |-> t, Index |-> i] \notin SpentBy(StoredTxs)}
                     ELSE {}
    BY DEF UnspentIndexExact, StoredTxs
  <1>4. /\ StoredTxs' = StoredTxs \ BlockTxs(b)
        /\ BlockTxs(b) \subseteq StoredTxs
        /\ b \in Blocks
    BY RollbackEffect
  <1>5. ASSUME NEW i \in SpentIndexes(b, t)
        PROVE  /\ t \in StoredTxs
               /\ t \notin BlockTxs(b)
               /\ i \in OutputIndexes(t)
               /\ [TxID |-> t, Index |-> i] \notin SpentBy(StoredTxs')
    <2> DEFINE o == [TxID |-> t, Index |-> i]
    <2>1. PICK s \in BlockTxs(b) : o \in Spends(s)
      BY <1>4, SpentIndexesIff
    <2>2. s \in StoredTxs
      BY <1>4, <2>1
    <2>3. /\ o.TxID \in StoredTxs
          /\ txHeight[o.TxID] < txHeight[s]
          /\ o.Index \in OutputIndexes(o.TxID)
          /\ \A u \in StoredTxs : o \in Spends(u) => u = s
      BY <2>1, <2>2 DEF SpentOnce
    <2>4. t \notin BlockTxs(b)
      <3>1. txHeight[s] = Height /\ Height \in Nat
        BY <2>1, RollbackEffect
      <3>2. txHeight[t] < Height
        BY <2>3, <3>1
      <3> QED
        BY <3>1, <3>2, RollbackEffect
    <2>5. o \notin SpentBy(StoredTxs')
      BY <1>4, <2>1, <2>3 DEF SpentBy
    <2> QED
      BY <2>3, <2>4, <2>5
  <1>6. CASE t \in BlockTxs(b)
    <2>1. SpentIndexes(b, t) = {}
      BY <1>5, <1>6
    <2> QED
      BY <1>2, <1>4, <1>6, <2>1
  <1>7. CASE t \notin StoredTxs
    <2>1. SpentIndexes(b, t) = {}
      BY <1>5, <1>7
    <2> QED
      BY <1>2, <1>3, <1>4, <1>7, <2>1
  <1>8. CASE t \in StoredTxs /\ t \notin BlockTxs(b)
    <2>1. unspent'[t] = unspent[t] \cup SpentIndexes(b, t)
      BY <1>2, <1>8
    <2>2. ASSUME NEW i
          PROVE  [TxID |-> t, Index |-> i] \in SpentBy(StoredTxs) <=>
                   \/ [TxID |-> t, Index |-> i] \in SpentBy(StoredTxs')
                   \/ i \in SpentIndexes(b, t)
      BY <1>4, SpentIndexesIff DEF SpentBy
    <2> QED
      BY <1>3, <1>4, <1>5, <1>8, <2>1, <2>2
  <1> QED
    BY <1>6, <1>7, <1>8

\* A rollback keeps the asset table exact: all registrations of an asset are
\* at one height, so none is left when the block of one is rolled back.
LEMMA RollbackAssetTable ==
  ASSUME IInv, RollbackBlock
  PROVE  AssetTableExact'
  <1> USE DEF IInv
  <1> DEFINE b == Last(chain)
             R(a) == {t \in StoredTxs : IsRegisterAssetTx(t) /\ AssetOf(t) = a}
             N(a) == {t \in BlockTxs(b) : IsRegisterAssetTx(t) /\ AssetOf(t) = a}
  <1>1. SUFFICES ASSUME NEW a \in AssetID
        PROVE  IF R(a)' = {} THEN assets'[a] = Absent
                             ELSE \A t \in R(a)' : assets'[a] = txHeight'[t]
    BY DEF AssetTableExact, StoredTxs, Stored
  <1>2. R(a)' = R(a) \ N(a) /\ N(a) \subseteq R(a)
    BY RollbackEffect
  <1>3. assets'[a] = IF N(a) # {} THEN Absent ELSE assets[a]
    BY DEF RollbackBlock, rollbackTransactions, RegisteredBy
  <1>4. IF R(a) = {} THEN assets[a] = Absent
                     ELSE \A t \in R(a) : assets[a] = txHeight[t]
    BY DEF AssetTableExact
  <1>5. CASE N(a) = {}
    <2>1. \A t \in R(a) : t \in TxID /\ t \notin BlockTxs(b)
      BY <1>5 DEF StoredTxs
    <2>2. \A t \in R(a) : txHeight'[t] = txHeight[t]
      BY <2>1, RollbackEffect
    <2> QED
      BY <1>2, <1>3, <1>4, <1>5, <2>2
  <1>6. CASE N(a) # {}
    <2>1. PICK s \in N(a) : TRUE
      BY <1>6
    <2>2. txHeight[s] = Height /\ s \in R(a)
      BY <1>2, <2>1, RollbackEffect
    <2>3. \A t \in R(a) : txHeight[t] = Height /\ t \in TxID
      BY <1>4, <2>2 DEF StoredTxs
    <2>4. R(a) \subseteq N(a)
      BY <2>3, RollbackEffect
    <2> QED
      BY <1>2, <1>3, <1>6, <2>4
  <1> QED
    BY <1>5, <1>6

\* A rollback keeps the table of recharges exact.
LEMMA RollbackMainchainTxs ==
  ASSUME IInv, RollbackBlock
  PROVE  MainchainTxsExact'
  <1> USE DEF IInv
  <1> DEFINE b == Last(chain)
  <1>1. StoredTxs' = StoredTxs \ BlockTxs(b) /\ BlockTxs(b) \subseteq StoredTxs
    BY RollbackEffect
  <1>2. mainchainTxs' = RechargedBy(StoredTxs) \ RechargedBy(BlockTxs(b))
    BY DEF RollbackBlock, rollbackTransactions, MainchainTxsExact
  <1>3. \A s, t \in StoredTxs :
          IsRechargeToSideChainTx(s) /\ IsRechargeToSideChainTx(t) =>
            (Txn[s].MainchainTx = Txn[t].MainchainTx => s = t)
    BY DEF MainchainTxsExact
  <1>4. mainchainTxs' = RechargedBy(StoredTxs')
    BY <1>1, <1>2, <1>3 DEF RechargedBy
  <1>5. RechargedBy(StoredTxs)' = RechargedBy(StoredTxs')
    BY DEF RechargedBy
  <1> QED
    BY <1>1, <1>3, <1>4, <1>5 DEF MainchainTxsExact

\* A rollback keeps the types: nothing is left at the height of the tip.
LEMMA RollbackTypeOK ==
  ASSUME IInv, RollbackBlock
  PROVE  TypeOK'
  <1> USE DEF IInv
  <1> DEFINE b == Last(chain)
  <1>1. chain' \in Seq(Blocks) /\ Height' <= MaxHeight
    BY RollbackEffect
  <1>2. txHeight' \in [TxID -> Absent .. Height']
    BY RollbackEffect
  <1>3. assets' \in [AssetID -> Absent .. Height']
    <2>1. assets' = [a \in AssetID |->
            IF a \in RegisteredBy(BlockTxs(b)) THEN Absent ELSE assets[a]]
      BY DEF RollbackBlock, rollbackTransactions
    <2>2. assets \in [AssetID -> Absent .. Height]
      BY DEF TypeOK
    <2>3. ASSUME NEW a \in AssetID, assets[a] = Height
          PROVE  a \in RegisteredBy(BlockTxs(b))
      <3>1. assets[a] # Absent
        BY <2>3, RollbackEffect DEF Absent
      <3>2. PICK t \in StoredTxs : IsRegisterAssetTx(t) /\ AssetOf(t) = a
                                    /\ assets[a] = txHeight[t]
        BY <3>1 DEF AssetTableExact
      <3>3. t \in BlockTxs(b)
        BY <2>3, <3>2, RollbackEffect DEF StoredTxs
      <3> QED
        BY <3>2, <3>3 DEF RegisteredBy
    <2>4. Height \in Nat \ {0} /\ Height' = Height - 1
      BY RollbackEffect
    <2> QED
      BY <2>1, <2>2, <2>3, <2>4 DEF Absent
  <1>4. /\ unspent' \in [TxID -> SUBSET (Nat \ {0})]
        /\ \A t \in TxID : unspent'[t] \subseteq OutputIndexes(t)
    <2>1. DOMAIN unspent' = TxID /\ unspent' = [t \in TxID |-> unspent'[t]]
      BY DEF RollbackBlock, rollbackUnspend
    <2>2. ASSUME NEW t \in TxID
          PROVE  unspent'[t] \subseteq OutputIndexes(t)
      BY RollbackUnspentExact DEF UnspentIndexExact
    <2> QED
      BY <2>1, <2>2, OutputIndexesType
  <1>5. mainchainTxs' \subseteq MainchainTx
    BY DEF TypeOK, RollbackBlock, rollbackTransactions
  <1> QED
    BY <1>1, <1>2, <1>3, <1>4, <1>5 DEF TypeOK, Height, OutputIndexes

-----------------------------------------------------------------------------
\* The genesis database satisfies the invariant.
LEMMA InitIInv ==
  ASSUME Init
  PROVE  IInv
  <1> USE DEF Init
  <1>1. Height = 0
    BY DEF Height
  <1>2. StoredTxs = {ElaAssetId}
    <2>1. \A t \in TxID : Stored(t) <=> t = ElaAssetId
      <3>1. \A t \in TxID : txHeight[t] = IF t = ElaAssetId THEN 0 ELSE Absent
        OBVIOUS
      <3>2. 0 # Absent
        BY DEF Absent
      <3> QED
        BY <3>1, <3>2 DEF Stored
    <2> QED
      BY <2>1, GenesisAssumption DEF StoredTxs
  <1>3. Spends(ElaAssetId) = {}
    BY GenesisAssumption DEF Spends
  <1>4. TypeOK
    BY <1>1, MaxHeightAssumption, GenesisAssumption DEF TypeOK, Absent
  <1>5. GenesisStored
    BY <1>1, GenesisAssumption DEF GenesisStored, Absent
  <1>6. TxTableExact
    BY <1>1, MaxHeightAssumption DEF TxTableExact, Absent
  <1>7. SpentOnce
    BY <1>2, <1>3 DEF SpentOnce
  <1>8. UnspentIndexExact
    <2>1. OutputIndexes(ElaAssetId) = {}
      BY GenesisAssumption DEF OutputIndexes
    <2>2. \A t \in TxID : Stored(t) => t = ElaAssetId
      BY <1>2 DEF StoredTxs
    <2> QED
      BY <2>1, <2>2 DEF UnspentIndexExact
  <1>9. AssetTableExact
    <2>1. IsRegisterAssetTx(ElaAssetId) /\ AssetOf(ElaAssetId) = ElaAssetId
      BY GenesisAssumption DEF IsRegisterAssetTx, AssetOf
    <2>2. txHeight[ElaAssetId] = 0
      BY GenesisAssumption
    <2>3. ASSUME NEW a \in AssetID
          PROVE  LET R == {t \in StoredTxs : IsRegisterAssetTx(t) /\ AssetOf(t) = a}
                 IN  IF R = {} THEN assets[a] = Absent
                               ELSE \A t \in R : assets[a] = txHeight[t]
      <3>1. CASE a = ElaAssetId
        BY <1>2, <2>1, <2>2, <3>1
      <3>2. CASE a # ElaAssetId
        BY <1>2, <2>1, <3>2
      <3> QED
        BY <3>1, <3>2
    <2> QED
      BY <2>3 DEF AssetTableExact
  <1>10. MainchainTxsExact
    <2>1. ~IsRechargeToSideChainTx(ElaAssetId)
      BY GenesisAssumption DEF IsRechargeToSideChainTx
    <2> QED
      BY <1>2, <2>1 DEF MainchainTxsExact, RechargedBy
  <1> QED
    BY <1>4, <1>5, <1>6, <1>7, <1>8, <1>9, <1>10 DEF IInv

\* A step that changes no variable preserves the invariant.
LEMMA StutterIInv ==
  ASSUME IInv, UNCHANGED vars
  PROVE  IInv'
  <1> USE DEF IInv, vars
  <1>1. StoredTxs' = StoredTxs /\ Height' = Height
    BY DEF StoredTxs, Stored, Height
  <1>2. TypeOK'
    BY <1>1 DEF TypeOK
  <1>3. GenesisStored' /\ TxTableExact'
    BY <1>1 DEF GenesisStored, TxTableExact
  <1>4. SpentOnce'
    BY <1>1 DEF SpentOnce
  <1>5. UnspentIndexExact'
    BY <1>1 DEF UnspentIndexExact, Stored
  <1>6. AssetTableExact'
    BY <1>1 DEF AssetTableExact
  <1>7. MainchainTxsExact'
    BY <1>1 DEF MainchainTxsExact
  <1> QED
    BY <1>2, <1>3, <1>4, <1>5, <1>6, <1>7

\* A step of the store preserves the inductive invariant.
LEMMA StoreStep ==
  ASSUME IInv, [Next]_vars
  PROVE  IInv'
  <1>1. ASSUME NEW b \in Blocks, PersistBlock(b)
        PROVE  IInv'
    BY <1>1, PersistTypeOK, PersistTxTable, PersistSpentOnce,
       PersistUnspentExact, PersistAssetTable, PersistMainchainTxs DEF IInv
  <1>2. CASE RollbackBlock
    BY <1>2, RollbackTypeOK, RollbackTxTable, RollbackSpentOnce,
       RollbackUnspentExact, RollbackAssetTable, RollbackMainchainTxs DEF IInv
  <1>3. CASE UNCHANGED vars
    BY <1>3, StutterIInv
  <1> QED
    BY <1>1, <1>2, <1>3 DEF Next

\* Every behaviour of the store, reorganisations included, satisfies the
\* inductive invariant.
THEOREM StoreInvariant == Spec => []IInv
  <1>1. Init => IInv
    BY InitIInv
  <1>2. IInv /\ [Next]_vars => IInv'
    BY StoreStep
  <1> QED
    BY <1>1, <1>2, PTL DEF Spec

\* Type correctness of the tables other than the utxo lists.
THEOREM StoreTypeOK == Spec => []TypeOK
  BY StoreInvariant, PTL DEF IInv

\* DATA_Transaction holds exactly the transactions of the chain, each with
\* the height of its block (persistTransactions, rollbackTransactions).
THEOREM StoreTxTableExact == Spec => []TxTableExact
  BY StoreInvariant, PTL DEF IInv

\* No output is consumed twice on the chain, whatever was rolled back.
THEOREM StoreSpentOnce == Spec => []SpentOnce
  BY StoreInvariant, PTL DEF IInv

\* IX_Unspent lists exactly the unspent outputs of the chain, after every
\* sequence of persistUnspend and rollbackUnspend.
THEOREM StoreUnspentIndexExact == Spec => []UnspentIndexExact
  BY StoreInvariant, PTL DEF IInv

\* The asset table holds exactly the registrations of the chain.
THEOREM StoreAssetTableExact == Spec => []AssetTableExact
  BY StoreInvariant, PTL DEF IInv

\* A main chain transaction is recharged at most once on the chain.
THEOREM StoreMainchainTxsExact == Spec => []MainchainTxsExact
  BY StoreInvariant, PTL DEF IInv

\* rollbackUnspend never appends an index that is already listed.
THEOREM StoreRestoredIsSpent == Spec => []RestoredIsSpent
  <1>1. IInv => RestoredIsSpent
    <2> SUFFICES ASSUME IInv, chain # << >>,
                        NEW t \in BlockTxs(Last(chain)), NEW o \in Spends(t)
        PROVE  o.Index \notin unspent[o.TxID]
      BY DEF RestoredIsSpent, SpentBy
    <2> USE DEF IInv
    <2>1. chain \in Seq(Blocks) /\ Height \in 1 .. MaxHeight
      BY MaxHeightAssumption DEF TypeOK, Height
    <2>2. Last(chain) = chain[Height] /\ chain[Height] \in Blocks
      BY <2>1 DEF Last, Height
    <2>3. t \in TxID \ {ElaAssetId}
      BY <2>1, <2>2, BlockTxsType DEF GenesisStored
    <2>4. txHeight[t] = Height
      BY <2>1, <2>2, <2>3 DEF TxTableExact
    <2>5. t \in StoredTxs
      BY <2>1, <2>3, <2>4 DEF StoredTxs, Stored, Absent
    <2>6. o.TxID \in TxID /\ o = [TxID |-> o.TxID, Index |-> o.Index]
      BY <2>3, SpendsType
    <2>7. [TxID |-> o.TxID, Index |-> o.Index] \in SpentBy(StoredTxs)
      BY <2>5, <2>6 DEF SpentBy
    <2> QED
      BY <2>6, <2>7 DEF UnspentIndexExact
  <1> QED
    BY <1>1, StoreInvariant, PTL

-----------------------------------------------------------------------------
(***************************************************************************)
(* The store implements the ledger, for every set of transactions and      *)
(* blocks: the chain of the store is the chain of the ledger, and by the   *)
(* inductive invariant of the store the tables that its checks read say    *)
(* what the ledger derives from the chain.                                 *)
(***************************************************************************)

\* The two modules read a transaction in the same way.
LEMMA SameTransactions ==
  ASSUME NEW t
  PROVE  /\ L!Spends(t) = Spends(t)
         /\ L!OutputIndexes(t) = OutputIndexes(t)
         /\ L!AssetOf(t) = AssetOf(t)
         /\ L!IsRegisterAssetTx(t) <=> IsRegisterAssetTx(t)
         /\ L!IsRechargeToSideChainTx(t) <=> IsRechargeToSideChainTx(t)
  BY DEF L!Spends, Spends, L!IsCoinBaseTx, IsCoinBaseTx,
         L!OutputIndexes, OutputIndexes, L!AssetOf, AssetOf,
         L!IsRegisterAssetTx, IsRegisterAssetTx,
         L!IsRechargeToSideChainTx, IsRechargeToSideChainTx

\* DATA_Transaction holds the confirmed transactions.
LEMMA ConfirmedIsStored ==
  ASSUME IInv
  PROVE  L!Confirmed = StoredTxs
  <1> USE DEF IInv
  <1>1. chain \in Seq(Blocks) /\ Height \in Nat /\ Height <= MaxHeight
    BY MaxHeightAssumption DEF TypeOK, Height
  <1>2. ASSUME NEW t \in L!Confirmed
        PROVE  t \in StoredTxs
    <2>1. CASE t = ElaAssetId
      BY <2>1, GenesisAssumption DEF GenesisStored, StoredTxs, Stored, Absent
    <2>2. CASE t # ElaAssetId
      <3>1. PICK h \in 1 .. Height : t \in BlockTxs(chain[h])
        BY <1>2, <2>2 DEF L!Confirmed, BlockTxs, Height
      <3>2. chain[h] \in Blocks
        BY <1>1, <3>1 DEF Height
      <3>3. t \in TxID
        BY <3>1, <3>2, BlockTxsType
      <3>4. h \in 1 .. MaxHeight /\ h <= Height
        BY <1>1, <3>1, MaxHeightAssumption
      <3>5. txHeight[t] = h
        BY <2>2, <3>1, <3>3, <3>4 DEF TxTableExact
      <3> QED
        BY <3>1, <3>3, <3>5 DEF StoredTxs, Stored, Absent
    <2> QED
      BY <2>1, <2>2
  <1>3. ASSUME NEW t \in StoredTxs
        PROVE  t \in L!Confirmed
    <2>1. CASE t = ElaAssetId
      BY <2>1 DEF L!Confirmed
    <2>2. CASE t # ElaAssetId
      <3>1. t \in TxID /\ txHeight[t] \in 0 .. Height
        BY <1>1 DEF StoredTxs, Stored, TypeOK, Absent
      <3>2. txHeight[t] # 0
        BY <2>2, <3>1 DEF GenesisStored
      <3>3. txHeight[t] \in 1 .. Height /\ txHeight[t] \in 1 .. MaxHeight
        BY <1>1, <3>1, <3>2, MaxHeightAssumption
      <3>4. t \in BlockTxs(chain[txHeight[t]])
        BY <2>2, <3>1, <3>3 DEF TxTableExact
      <3> QED
        BY <3>3, <3>4 DEF L!Confirmed, BlockTxs, Height
    <2> QED
      BY <2>1, <2>2
  <1> QED
    BY <1>2, <1>3

\* A block that the store persists is acceptable to the ledger.
LEMMA PersistIsAdd ==
  ASSUME IInv, NEW b \in Blocks, PersistBlock(b)
  PROVE  L!Add(b)
  <1> USE DEF IInv
  <1> DEFINE T == BlockTxs(b)
  <1>1. L!Confirmed = StoredTxs
    BY ConfirmedIsStored
  <1>2. T \cap StoredTxs = {} /\ T \subseteq TxID
    BY PersistEffect
  <1>3. ASSUME NEW t \in T, NEW o \in Spends(t)
        PROVE  L!IsUnspent(o) /\ \A s \in T : o \in Spends(s) => s = t
    <2>1. /\ o.TxID \in StoredTxs
          /\ o.Index \in OutputIndexes(o.TxID)
          /\ o \notin SpentBy(StoredTxs)
          /\ \A s \in T : o \in Spends(s) => s = t
      BY CheckedInputs
    <2>2. L!Consumed = SpentBy(StoredTxs)
      BY <1>1, SameTransactions DEF L!Consumed, SpentBy
    <2> QED
      BY <1>1, <2>1, <2>2, SameTransactions DEF L!IsUnspent
  <1>4. ASSUME NEW t \in T, IsRechargeToSideChainTx(t),
               NEW s \in StoredTxs \cup T, IsRechargeToSideChainTx(s),
               Txn[s].MainchainTx = Txn[t].MainchainTx
        PROVE  s = t
    <2>1. Txn[t].MainchainTx \notin RechargedBy(StoredTxs)
      BY <1>4 DEF PersistBlock, CheckedBlock, CheckTxContext, MainchainTxsExact
    <2>2. s \notin StoredTxs
      BY <1>4, <2>1 DEF RechargedBy
    <2> QED
      BY <1>4, <2>2 DEF PersistBlock, CheckedBlock, CheckBlockSanity
  <1>5. ASSUME NEW t \in T, IsRegisterAssetTx(t),
               NEW s \in StoredTxs, IsRegisterAssetTx(s)
        PROVE  AssetName[AssetOf(s)] # AssetName[AssetOf(t)]
    <2>1. s \in TxID /\ AssetOf(s) \in AssetID
      BY AssetOfType DEF StoredTxs
    <2>2. assets[AssetOf(s)] = txHeight[s]
      BY <1>5, <2>1 DEF AssetTableExact
    <2>3. assets[AssetOf(s)] # Absent
      BY <2>2 DEF StoredTxs, Stored
    <2> QED
      BY <1>5, <2>1, <2>3 DEF PersistBlock, CheckedBlock, AssetNameIsNew
  <1>6. L!Acceptable(T)
    BY <1>1, <1>2, <1>3, <1>4, <1>5, SameTransactions DEF L!Acceptable
  <1> QED
    BY <1>6 DEF L!Add, PersistBlock, BlockTxs

\* A rollback of the store is the ledger's removal of its last block.
LEMMA RollbackIsRemove ==
  ASSUME RollbackBlock
  PROVE  L!Remove
  BY DEF RollbackBlock, L!Remove, Front

\* The store implements the ledger: no sequence of blocks and rollbacks makes
\* its tables let in a block that the chain itself contradicts.
THEOREM StoreImplementsLedger == Spec => ImplementsLedger
  <1>1. Init => L!Init
    BY DEF Init, L!Init
  <1>2. IInv /\ [Next]_vars => [L!Next]_chain
    <2> SUFFICES ASSUME IInv, [Next]_vars
        PROVE  [L!Next]_chain
      OBVIOUS
    <2>1. CASE UNCHANGED vars
      BY <2>1 DEF vars
    <2>2. ASSUME NEW b \in Blocks, PersistBlock(b)
          PROVE  L!Next
      BY <2>2, PersistIsAdd DEF L!Next
    <2>3. CASE RollbackBlock
      BY <2>3, RollbackIsRemove DEF L!Next
    <2> QED
      BY <2>1, <2>2, <2>3 DEF Next
  <1> QED
    BY <1>1, <1>2, StoreInvariant, PTL DEF Spec, ImplementsLedger, L!Spec

-----------------------------------------------------------------------------
(***************************************************************************)
(* The utxo lists.  The handlers that keep them are loops over the         *)
(* transactions of a block and over their outputs and inputs: each loop is *)
(* an instance of FoldTheorems, whose FoldInvariant carries a statement    *)
(* from one round to the next.                                             *)
(***************************************************************************)

MakeRound(w, o, t) == AppendUTXO(w, o, Height + 1, t)
SpendRound(w, o, t) == SpendUTXO(w, o)
PersistRound(w, t, c) == SpendUTXOs(MakeUTXOs(w, t), t)
UnmakeRound(w, o, t) == UnmakeUTXO(w, o, Height)
RestoreRound(w, o, t) == RestoreUTXO(w, o, t)
RollbackRound(w, t, c) == RestoreUTXOs(UnmakeUTXOs(w, t), t)
NoValue(x) == 0

MakeLoop == INSTANCE FoldTheorems WITH Op <- MakeRound, Value <- NoValue
SpendLoop == INSTANCE FoldTheorems WITH Op <- SpendRound, Value <- NoValue
PersistLoop == INSTANCE FoldTheorems WITH Op <- PersistRound, Value <- NoValue
UnmakeLoop == INSTANCE FoldTheorems WITH Op <- UnmakeRound, Value <- NoValue
RestoreLoop == INSTANCE FoldTheorems WITH Op <- RestoreRound, Value <- NoValue
RollbackLoop == INSTANCE FoldTheorems WITH Op <- RollbackRound, Value <- NoValue

-----------------------------------------------------------------------------
(* The lists and what they are compared with.                              *)

UTXOKeys == ProgramHash \X AssetID \X Int

Elements == [TxID : TxID, Index : Nat \ {0}, Value : Int]

UTXOLists == UNION {[K -> Seq(Elements)] : K \in SUBSET UTXOKeys}

\* The states of a handler.
Handlers == [res : {"ok", "err", "panic"}, lists : UTXOLists]

\* The outputs that exist.
Outs == {o \in OutPoint : o.Index \in OutputIndexes(o.TxID)}

\* The list of a key, empty if the key has none.
ListAt(lists, k) == IF k \in DOMAIN lists THEN lists[k] ELSE << >>

\* The new lists differ from the old ones in the list l of key k.
PutAt(new, lists, k, l) ==
  /\ ListAt(new, k) = l
  /\ \A j \in UTXOKeys \ {k} : ListAt(new, j) = ListAt(lists, j)

\* What is compared of an element and an output: the index and the value.
Shapes == (Nat \ {0}) \X Int

\* The positions of a list, and the outputs of D that belong to key k if hh
\* gives their heights, whose index and value are in P.
Filed(list, P) == {i \in 1 .. Len(list) : <<list[i].Index, list[i].Value>> \in P}

Due(D, hh, k, P) ==
  {o \in D : UTXOKey(o, hh[o.TxID]) = k /\ <<o.Index, OutputAt(o).Value>> \in P}

\* What one element and one output count.
ElementCount(u, P) == IF <<u.Index, u.Value>> \in P THEN 1 ELSE 0

OutCount(o, hh, k, P) ==
  IF UTXOKey(o, hh[o.TxID]) = k /\ <<o.Index, OutputAt(o).Value>> \in P THEN 1 ELSE 0

Agree(lists, D, hh, k, P) ==
  Cardinality(Filed(ListAt(lists, k), P)) = Cardinality(Due(D, hh, k, P))

\* The lists hold the outputs of D, shape by shape at the heights of X, and
\* as many as there are at any other height.
Matches(lists, D, hh, X) ==
  /\ IsFiniteSet(D)
  /\ D \subseteq Outs
  /\ \A k \in UTXOKeys : \A P \in SUBSET Shapes :
       k[3] \in X \/ P = Shapes => Agree(lists, D, hh, k, P)

\* An element that carries the hash of a transaction of its own height has
\* the value of that transaction's output: an element that a rollback filed
\* under the wrong hash is never taken for another one.
Good(u, k, hh) ==
  hh[u.TxID] = k[3] =>
    u.Value = OutputAt([TxID |-> u.TxID, Index |-> u.Index]).Value

Sound(lists, hh, n) ==
  \A k \in UTXOKeys : \A i \in 1 .. Len(ListAt(lists, k)) :
    k[3] \in 0 .. n /\ Good(ListAt(lists, k)[i], k, hh)

-----------------------------------------------------------------------------
\* The image of a finite set, and of one under an injective function.
LEMMA ImageFinite ==
  ASSUME NEW S, IsFiniteSet(S), NEW f, f = [x \in S |-> f[x]]
  PROVE  /\ IsFiniteSet({f[x] : x \in S})
         /\ (\A x, y \in S : f[x] = f[y] => x = y) =>
              Cardinality({f[x] : x \in S}) = Cardinality(S)
  <1> DEFINE T == {f[x] : x \in S}
  <1>1. f \in [S -> T] /\ \A t \in T : \E x \in S : f[x] = t
    BY Zenon
  <1> HIDE DEF T
  <1>2. f \in Surjection(S, T)
    BY <1>1 DEF Surjection
  <1>3. IsFiniteSet(T) /\ (Cardinality(T) = Cardinality(S) <=> f \in Injection(S, T))
    BY <1>2, FS_Surjection
  <1>4. (\A x, y \in S : f[x] = f[y] => x = y) => f \in Injection(S, T)
    BY <1>1 DEF Injection, IsInjective
  <1> QED
    BY <1>3, <1>4 DEF T

\* The output that an outpoint names exists, and so does its key.
LEMMA OutType ==
  ASSUME NEW o \in Outs
  PROVE  /\ o.TxID \in TxID /\ o.Index \in Nat \ {0}
         /\ o = [TxID |-> o.TxID, Index |-> o.Index]
         /\ OutputAt(o) \in Output
         /\ \A h \in Int : UTXOKey(o, h) \in UTXOKeys
         /\ \A t \in TxID : UTXO(o, t) \in Elements
         /\ <<o.Index, OutputAt(o).Value>> \in Shapes
  <1>1. o.TxID \in TxID /\ o.Index \in Nat \ {0} /\ o = [TxID |-> o.TxID, Index |-> o.Index]
    BY DEF Outs, OutPoint
  <1>2. Txn[o.TxID].Outputs \in Seq(Output)
    BY <1>1, TxnAssumption DEF Transaction
  <1>3. OutputAt(o) \in Output
    <2>1. o.Index \in 1 .. Len(Txn[o.TxID].Outputs)
      BY DEF Outs, OutputIndexes
    <2> QED
      BY <1>2, <2>1, ElementOfSeq DEF OutputAt
  <1>4. /\ OutputAt(o).ProgramHash \in ProgramHash
        /\ OutputAt(o).AssetID \in AssetID
        /\ OutputAt(o).Value \in Int
    BY <1>3 DEF Output
  <1>5. \A h \in Int : UTXOKey(o, h) \in UTXOKeys
    BY <1>4 DEF UTXOKey, UTXOKeys
  <1>6. \A t \in TxID : UTXO(o, t) \in Elements
    BY <1>1, <1>4 DEF UTXO, Elements
  <1>7. <<o.Index, OutputAt(o).Value>> \in Shapes
    BY <1>1, <1>4 DEF Shapes
  <1> QED
    BY <1>1, <1>3, <1>5, <1>6, <1>7

\* Every list is a sequence of elements.
LEMMA ListAtType ==
  ASSUME NEW lists \in UTXOLists, NEW k
  PROVE  ListAt(lists, k) \in Seq(Elements)
  BY DEF ListAt, UTXOLists

\* Putting a list into the lists, in the two ways the handlers do it.
LEMMA PutList ==
  ASSUME NEW lists \in UTXOLists, NEW k \in UTXOKeys, NEW l \in Seq(Elements)
  PROVE  LET new == [j \in {k} \cup DOMAIN lists |-> IF j = k THEN l ELSE lists[j]]
             put == [lists EXCEPT ![k] = l]
         IN  /\ new \in UTXOLists /\ PutAt(new, lists, k, l)
             /\ k \in DOMAIN lists => put \in UTXOLists /\ PutAt(put, lists, k, l)
  <1>1. PICK K \in SUBSET UTXOKeys : lists \in [K -> Seq(Elements)]
    BY DEF UTXOLists
  <1> DEFINE new == [j \in {k} \cup DOMAIN lists |-> IF j = k THEN l ELSE lists[j]]
             put == [lists EXCEPT ![k] = l]
  <1>2. new \in [K \cup {k} -> Seq(Elements)] /\ new[k] = l /\ \A j \in K \ {k} : new[j] = lists[j]
    BY <1>1
  <1>3. new \in UTXOLists
    <2>1. K \cup {k} \in SUBSET UTXOKeys
      OBVIOUS
    <2> HIDE DEF new
    <2> QED
      BY <1>2, <2>1 DEF UTXOLists
  <1>4. PutAt(new, lists, k, l)
    <2> HIDE DEF new
    <2> QED
      BY <1>1, <1>2 DEF PutAt, ListAt
  <1>5. ASSUME k \in DOMAIN lists
        PROVE  put \in UTXOLists /\ PutAt(put, lists, k, l)
    <2>1. put \in [K -> Seq(Elements)]
      BY <1>1, <1>5
    <2>2. put \in UTXOLists
      BY <2>1 DEF UTXOLists
    <2> QED
      BY <1>1, <1>5, <2>2 DEF PutAt, ListAt
  <1> QED
    BY <1>3, <1>4, <1>5

-----------------------------------------------------------------------------
(* The single operations on a list.                                        *)

\* Find returns a position that holds the hash and the index of o, or 0.
LEMMA FindResult ==
  ASSUME NEW l \in Seq(Elements), NEW o
  PROVE  /\ Find(l, o) \in 0 .. Len(l)
         /\ Find(l, o) # 0 => l[Find(l, o)].TxID = o.TxID /\ l[Find(l, o)].Index = o.Index
  <1> DEFINE I == {i \in 1 .. Len(l) : l[i].TxID = o.TxID /\ l[i].Index = o.Index}
  <1>1. Find(l, o) = IF I # {} THEN Min(I) ELSE 0
    BY DEF Find, SelectInSeq
  <1>2. I # {} => Min(I) \in I
    <2> SUFFICES ASSUME I # {} PROVE Min(I) \in I
      OBVIOUS
    <2>1. I \in SUBSET Nat
      OBVIOUS
    <2>2. \E n \in I : \A m \in I : n <= m
      <3> HIDE DEF I
      <3> QED
        BY <2>1, MakeLoop!LeastNatural
    <2> QED
      BY <2>2 DEF Min
  <1>3. Len(l) \in Nat /\ I \subseteq 1 .. Len(l)
    OBVIOUS
  <1> QED
    BY <1>1, <1>2, <1>3

\* AppendUTXO adds the element at the end and never fails.
LEMMA AppendEffect ==
  ASSUME NEW w \in Handlers, NEW o \in Outs, NEW h \in Int, NEW t \in TxID
  PROVE  /\ AppendUTXO(w, o, h, t) \in Handlers
         /\ AppendUTXO(w, o, h, t).res = w.res
         /\ w.res = "ok" =>
              PutAt(AppendUTXO(w, o, h, t).lists, w.lists, UTXOKey(o, h),
                    Append(ListAt(w.lists, UTXOKey(o, h)), UTXO(o, t)))
  <1> DEFINE k == UTXOKey(o, h)
             l == Append(ListAt(w.lists, k), UTXO(o, t))
             new == [j \in {k} \cup DOMAIN w.lists |-> IF j = k THEN l ELSE w.lists[j]]
  <1>1. w.lists \in UTXOLists /\ w = [res |-> w.res, lists |-> w.lists] /\ w.res \in {"ok", "err", "panic"}
    BY DEF Handlers
  <1>2. k \in UTXOKeys /\ UTXO(o, t) \in Elements
    BY OutType
  <1>3. l \in Seq(Elements)
    <2>1. ListAt(w.lists, k) \in Seq(Elements)
      BY <1>1, ListAtType
    <2> HIDE DEF k
    <2> QED
      BY <1>2, <2>1
  <1>4. AppendUTXO(w, o, h, t) =
          IF w.res # "ok" THEN w ELSE [w EXCEPT !.lists = new]
    BY DEF AppendUTXO, ListAt
  <1> HIDE DEF k, l
  <1>5. new \in UTXOLists /\ PutAt(new, w.lists, k, l)
    BY <1>1, <1>2, <1>3, PutList
  <1>6. AppendUTXO(w, o, h, t) \in Handlers
    BY <1>1, <1>4, <1>5 DEF Handlers
  <1> HIDE DEF new
  <1> QED
    BY <1>1, <1>4, <1>5, <1>6 DEF k, l

\* SpendUTXO, when it does not fail, has found the element it removes.
LEMMA SpendEffect ==
  ASSUME NEW w \in Handlers, NEW o \in Outs, txHeight[o.TxID] \in Int
  PROVE  /\ SpendUTXO(w, o) \in Handlers
         /\ SpendUTXO(w, o).res = "ok" =>
              LET k == UTXOKey(o, txHeight[o.TxID])
                  l == ListAt(w.lists, k)
              IN  /\ w.res = "ok"
                  /\ \E i \in 1 .. Len(l) :
                       /\ l[i].TxID = o.TxID
                       /\ l[i].Index = o.Index
                       /\ PutAt(SpendUTXO(w, o).lists, w.lists, k,
                                Front(ReplaceAt(l, i, Last(l))))
  <1> DEFINE k == UTXOKey(o, txHeight[o.TxID])
             l == ListAt(w.lists, k)
             i == Find(l, o)
             n == Front(ReplaceAt(l, i, Last(l)))
  <1>1. w.lists \in UTXOLists /\ w = [res |-> w.res, lists |-> w.lists] /\ w.res \in {"ok", "err", "panic"}
    BY DEF Handlers
  <1>2. k \in UTXOKeys
    BY OutType
  <1>3. l \in Seq(Elements)
    BY <1>1, ListAtType
  <1>4. /\ i \in 0 .. Len(l)
        /\ i # 0 => l[i].TxID = o.TxID /\ l[i].Index = o.Index
    <2> HIDE DEF l
    <2> QED
      BY <1>3, FindResult
  <1>5. SpendUTXO(w, o) =
          IF w.res # "ok" THEN w
          ELSE IF ~Stored(o.TxID) \/ k \notin DOMAIN w.lists THEN [w EXCEPT !.res = "err"]
          ELSE IF i = 0 THEN [w EXCEPT !.res = "err"]
          ELSE [w EXCEPT !.lists = [w.lists EXCEPT ![k] = n]]
    BY DEF SpendUTXO, Fail, ListAt
  <1>6. i # 0 => n \in Seq(Elements)
    <2> SUFFICES ASSUME i # 0 PROVE n \in Seq(Elements)
      OBVIOUS
    <2> HIDE DEF l, i
    <2>1. i \in 1 .. Len(l) /\ Len(l) \in 1 .. Len(l) /\ Len(l) \in Nat
      BY <1>3, <1>4
    <2>2. l[Len(l)] \in Elements
      BY <1>3, <2>1
    <2>3. ReplaceAt(l, i, Last(l)) \in Seq(Elements) /\ Len(ReplaceAt(l, i, Last(l))) = Len(l)
      BY <1>3, <2>1, <2>2, ExceptSeq DEF ReplaceAt, Last
    <2> QED
      BY <2>1, <2>3, SubSeqProperties DEF Front
  <1> HIDE DEF k, l, i, n
  <1>7. k \in DOMAIN w.lists /\ i # 0 =>
          /\ [w.lists EXCEPT ![k] = n] \in UTXOLists
          /\ PutAt([w.lists EXCEPT ![k] = n], w.lists, k, n)
    BY <1>1, <1>2, <1>6, PutList
  <1>8. SpendUTXO(w, o) \in Handlers
    BY <1>1, <1>5, <1>7 DEF Handlers
  <1>9. ASSUME SpendUTXO(w, o).res = "ok"
        PROVE  /\ w.res = "ok"
               /\ i \in 1 .. Len(l) /\ l[i].TxID = o.TxID /\ l[i].Index = o.Index
               /\ PutAt(SpendUTXO(w, o).lists, w.lists, k, n)
    <2>1. w.res = "ok" /\ k \in DOMAIN w.lists /\ i # 0
      BY <1>1, <1>5, <1>9
    <2>2. SpendUTXO(w, o).lists = [w.lists EXCEPT ![k] = n]
      BY <1>1, <1>5, <1>9
    <2>3. Len(l) \in Nat
      BY <1>3
    <2> QED
      BY <1>4, <1>7, <2>1, <2>2, <2>3
  <1> QED
    BY <1>8, <1>9 DEF k, l, n

\* UnmakeUTXO removes one element, whichever it is, of a list that has any.
LEMMA UnmakeEffect ==
  ASSUME NEW w \in Handlers, NEW o \in Outs, NEW h \in Int
  PROVE  /\ UnmakeUTXO(w, o, h) \in Handlers
         /\ w.res = "ok" /\ ListAt(w.lists, UTXOKey(o, h)) # << >> =>
              LET l == ListAt(w.lists, UTXOKey(o, h))
              IN  /\ UnmakeUTXO(w, o, h).res = "ok"
                  /\ \E i \in 1 .. Len(l) :
                       PutAt(UnmakeUTXO(w, o, h).lists, w.lists, UTXOKey(o, h), RemoveAt(l, i))
  <1> DEFINE k == UTXOKey(o, h)
             l == ListAt(w.lists, k)
             f == Find(l, o)
             i == IF f = 0 THEN 1 ELSE f
             n == RemoveAt(l, i)
  <1>1. w.lists \in UTXOLists /\ w = [res |-> w.res, lists |-> w.lists] /\ w.res \in {"ok", "err", "panic"}
    BY DEF Handlers
  <1>2. k \in UTXOKeys
    BY OutType
  <1>3. l \in Seq(Elements)
    BY <1>1, ListAtType
  <1>4. f \in 0 .. Len(l)
    <2> HIDE DEF l
    <2> QED
      BY <1>3, FindResult
  <1>5. UnmakeUTXO(w, o, h) =
          IF w.res # "ok" THEN w
          ELSE IF k \notin DOMAIN w.lists THEN [w EXCEPT !.res = "err"]
          ELSE IF l = << >> THEN [w EXCEPT !.res = "panic"]
          ELSE [w EXCEPT !.lists = [w.lists EXCEPT ![k] = n]]
    BY DEF UnmakeUTXO, Fail, ListAt
  <1>6. l # << >> => i \in 1 .. Len(l) /\ n \in Seq(Elements)
    <2> SUFFICES ASSUME l # << >> PROVE i \in 1 .. Len(l) /\ n \in Seq(Elements)
      OBVIOUS
    <2> HIDE DEF l, f
    <2>1. i \in 1 .. Len(l) /\ Len(l) \in Nat
      BY <1>3, <1>4, EmptySeq
    <2> HIDE DEF i
    <2>2. /\ SubSeq(l, 1, i - 1) \in Seq(Elements)
          /\ SubSeq(l, i + 1, Len(l)) \in Seq(Elements)
      BY <1>3, <2>1, SubSeqProperties, ElementOfSeq
    <2> QED
      BY <2>1, <2>2, ConcatProperties DEF RemoveAt
  <1>7. l # << >> => k \in DOMAIN w.lists
    BY DEF ListAt
  <1> HIDE DEF k, l, f, i, n
  <1>8. l # << >> =>
          /\ [w.lists EXCEPT ![k] = n] \in UTXOLists
          /\ PutAt([w.lists EXCEPT ![k] = n], w.lists, k, n)
    BY <1>1, <1>2, <1>6, <1>7, PutList
  <1>9. UnmakeUTXO(w, o, h) \in Handlers
    BY <1>1, <1>5, <1>8 DEF Handlers
  <1>10. ASSUME w.res = "ok", l # << >>
         PROVE  /\ UnmakeUTXO(w, o, h).res = "ok"
                /\ i \in 1 .. Len(l)
                /\ PutAt(UnmakeUTXO(w, o, h).lists, w.lists, k, n)
    BY <1>1, <1>5, <1>6, <1>7, <1>8, <1>10
  <1> QED
    BY <1>9, <1>10 DEF k, l, n

-----------------------------------------------------------------------------
(* Counting.                                                               *)

\* A filter on the positions of a list is finite.
LEMMA FiledFinite ==
  ASSUME NEW l \in Seq(Elements), NEW P
  PROVE  IsFiniteSet(Filed(l, P)) /\ Cardinality(Filed(l, P)) \in Nat
  <1>1. Len(l) \in Nat /\ IsFiniteSet(1 .. Len(l))
    BY FS_Interval
  <1>2. Filed(l, P) \in SUBSET (1 .. Len(l))
    BY DEF Filed
  <1> QED
    BY <1>1, <1>2, FS_Subset, FS_CardinalityType

\* All elements have a shape.
LEMMA FiledAll ==
  ASSUME NEW l \in Seq(Elements)
  PROVE  Cardinality(Filed(l, Shapes)) = Len(l)
  <1>1. Len(l) \in Nat /\ \A i \in 1 .. Len(l) : l[i] \in Elements
    OBVIOUS
  <1>2. Filed(l, Shapes) = 1 .. Len(l)
    BY <1>1 DEF Filed, Shapes, Elements
  <1>3. Cardinality(1 .. Len(l)) = Len(l)
    <2> DEFINE n == Len(l)
    <2>1. n \in Nat
      BY <1>1
    <2> HIDE DEF n
    <2>2. Cardinality(1 .. n) = IF 1 > n THEN 0 ELSE n - 1 + 1
      BY <2>1, FS_Interval
    <2>3. Cardinality(1 .. n) = n
      BY <2>1, <2>2
    <2> QED
      BY <2>3 DEF n
  <1> QED
    BY <1>2, <1>3

\* An appended element counts once.
LEMMA FiledAppend ==
  ASSUME NEW l \in Seq(Elements), NEW u \in Elements, NEW P
  PROVE  Cardinality(Filed(Append(l, u), P)) =
           Cardinality(Filed(l, P)) + ElementCount(u, P)
  <1> DEFINE n == Len(l)
             A == Filed(l, P)
             m == Append(l, u)
             In == <<u.Index, u.Value>> \in P
  <1>1. /\ n \in Nat /\ Len(m) = n + 1 /\ m[n + 1] = u
        /\ \A i \in 1 .. n : m[i] = l[i]
    OBVIOUS
  <1>2. IsFiniteSet(A) /\ Cardinality(A) \in Nat
    BY FiledFinite
  <1>5. n + 1 \notin A
    BY <1>1 DEF Filed
  <1>3. CASE In
    <2>1. Filed(m, P) = A \cup {n + 1}
      <3>1. A \cup {n + 1} \subseteq Filed(m, P)
        BY <1>1, <1>3 DEF Filed
      <3>2. Filed(m, P) \subseteq A \cup {n + 1}
        BY <1>1, <1>3 DEF Filed
      <3> QED
        BY <3>1, <3>2
    <2> HIDE DEF m, A
    <2> QED
      BY <1>2, <1>3, <1>5, <2>1, FS_AddElement DEF A, m, ElementCount
  <1>4. CASE ~In
    <2>1. Filed(m, P) = A
      BY <1>1, <1>4 DEF Filed
    <2> QED
      BY <1>2, <1>4, <2>1 DEF ElementCount
  <1> QED
    BY <1>3, <1>4

\* The list that SpendUTXO leaves: the last element takes the place of the
\* one that is removed.
LEMMA SwapResult ==
  ASSUME NEW l \in Seq(Elements), NEW i \in 1 .. Len(l)
  PROVE  LET m == Front(ReplaceAt(l, i, Last(l)))
         IN  /\ m \in Seq(Elements)
             /\ Len(m) = Len(l) - 1
             /\ \A j \in 1 .. Len(l) - 1 : m[j] = IF j = i THEN l[Len(l)] ELSE l[j]
  <1> DEFINE r == ReplaceAt(l, i, Last(l))
             n == Len(l)
  <1>1. n \in Nat \ {0} /\ l[n] \in Elements /\ \A j \in 1 .. n : l[j] \in Elements
    OBVIOUS
  <1>2. /\ r \in Seq(Elements) /\ Len(r) = n
        /\ \A j \in 1 .. n : r[j] = IF j = i THEN l[n] ELSE l[j]
    BY <1>1, ExceptSeq DEF ReplaceAt, Last
  <1> HIDE DEF r
  <1>3. \A j \in 1 .. n - 1 : r[j] \in Elements
    BY <1>1, <1>2
  <1>4. /\ SubSeq(r, 1, n - 1) \in Seq(Elements)
        /\ Len(SubSeq(r, 1, n - 1)) = n - 1
        /\ \A j \in 1 .. n - 1 : SubSeq(r, 1, n - 1)[j] = r[j]
    <2> DEFINE p == n - 1
    <2>1. p \in Nat /\ \A j \in 1 .. p : r[j] \in Elements
      BY <1>1, <1>3
    <2> HIDE DEF p
    <2>2. /\ SubSeq(r, 1, p) \in Seq(Elements)
          /\ Len(SubSeq(r, 1, p)) = IF 1 <= p THEN p - 1 + 1 ELSE 0
          /\ \A j \in 1 .. p - 1 + 1 : SubSeq(r, 1, p)[j] = r[1 + j - 1]
      BY <2>1, SubSeqProperties
    <2>3. p - 1 + 1 = p /\ (1 <= p \/ p = 0) /\ \A j \in 1 .. p : 1 + j - 1 = j
      BY <2>1
    <2>4. /\ SubSeq(r, 1, p) \in Seq(Elements)
          /\ Len(SubSeq(r, 1, p)) = p
          /\ \A j \in 1 .. p : SubSeq(r, 1, p)[j] = r[j]
      BY <2>2, <2>3
    <2> QED
      BY <2>4 DEF p
  <1> QED
    BY <1>1, <1>2, <1>4 DEF Front, r

\* It holds one element less of the removed element's shape.
LEMMA FiledSwap ==
  ASSUME NEW l \in Seq(Elements), NEW i \in 1 .. Len(l), NEW P
  PROVE  Cardinality(Filed(Front(ReplaceAt(l, i, Last(l))), P)) =
           Cardinality(Filed(l, P)) - ElementCount(l[i], P)
  <1> DEFINE n == Len(l)
             m == Front(ReplaceAt(l, i, Last(l)))
             A == Filed(l, P)
             B == Filed(m, P)
             In == <<l[i].Index, l[i].Value>> \in P
  <1>1. n \in Nat \ {0} /\ i \in 1 .. n
    OBVIOUS
  <1>2. Len(m) = n - 1 /\ \A j \in 1 .. n - 1 : m[j] = IF j = i THEN l[n] ELSE l[j]
    BY SwapResult
  <1>3. IsFiniteSet(A) /\ Cardinality(A) \in Nat
    BY FiledFinite
  <1>4. /\ In <=> i \in A
        /\ ElementCount(l[i], P) = IF In THEN 1 ELSE 0
        /\ A \subseteq 1 .. n
    BY DEF Filed, ElementCount
  <1>5. B = {j \in 1 .. n - 1 : IF j = i THEN n \in A ELSE j \in A}
    <2>1. \A j \in 1 .. n : j \in A <=> <<l[j].Index, l[j].Value>> \in P
      BY DEF Filed
    <2>2. B = {j \in 1 .. n - 1 : <<m[j].Index, m[j].Value>> \in P}
      BY <1>2 DEF Filed
    <2> HIDE DEF A, B, m, n
    <2>3. \A j \in 1 .. n - 1 : j \in 1 .. n /\ n \in 1 .. n
      BY <1>1
    <2>4. \A j \in 1 .. n - 1 :
            <<m[j].Index, m[j].Value>> \in P <=> IF j = i THEN n \in A ELSE j \in A
      <3> TAKE j \in 1 .. n - 1
      <3>1. CASE j = i
        <4>1. m[j] = l[n]
          BY <1>2, <3>1
        <4> QED
          BY <2>1, <2>3, <3>1, <4>1
      <3>2. CASE j # i
        <4>1. m[j] = l[j]
          BY <1>2, <3>2
        <4> QED
          BY <2>1, <2>3, <3>2, <4>1
      <3> QED
        BY <3>1, <3>2
    <2> QED
      BY <2>2, <2>4
  <1> HIDE DEF n, m, A, B, In
  <1>10. /\ \A j : j \in B <=> /\ j \in 1 .. n /\ j # n
                               /\ (j = i /\ n \in A) \/ (j # i /\ j \in A)
         /\ n \in 1 .. n /\ i \in 1 .. n
         /\ \A j \in A : j \in 1 .. n
    <2>1. n \in 1 .. n /\ \A j \in 1 .. n : j # n <=> j \in 1 .. n - 1
      BY <1>1
    <2>2. \A j \in 1 .. n - 1 : j \in 1 .. n
      BY <1>1
    <2> QED
      BY <1>1, <1>4, <1>5, <2>1, <2>2
  <1>6. CASE n \in A /\ i \in A
    <2>1. B = A \ {n}
      BY <1>6, <1>10
    <2> QED
      BY <1>3, <1>4, <1>6, <2>1, FS_RemoveElement DEF A, B, m, In
  <1>7. CASE n \notin A /\ i \in A
    <2>1. B = A \ {i}
      BY <1>7, <1>10
    <2> QED
      BY <1>3, <1>4, <1>7, <2>1, FS_RemoveElement DEF A, B, m, In
  <1>8. CASE n \in A /\ i \notin A
    <2>1. B = (A \ {n}) \cup {i}
      BY <1>8, <1>10
    <2> DEFINE C == A \ {n}
    <2>2. IsFiniteSet(C) /\ Cardinality(C) = Cardinality(A) - 1
      BY <1>3, <1>8, FS_RemoveElement
    <2>3. i \notin C /\ B = C \cup {i}
      BY <1>8, <2>1
    <2>4. Cardinality(B) = Cardinality(C) + 1
      <3> HIDE DEF C
      <3> QED
        BY <2>2, <2>3, FS_AddElement
    <2>5. Cardinality(B) = Cardinality(A)
      BY <1>3, <2>2, <2>4
    <2> QED
      BY <1>3, <1>4, <1>8, <2>5 DEF A, B, m, In
  <1>9. CASE n \notin A /\ i \notin A
    <2>1. B = A
      BY <1>9, <1>10
    <2> QED
      BY <1>3, <1>4, <1>9, <2>1 DEF A, B, m, In
  <1> QED
    BY <1>6, <1>7, <1>8, <1>9

\* The list that UnmakeUTXO leaves has one element less, and no new one.
LEMMA RemoveResult ==
  ASSUME NEW l \in Seq(Elements), NEW i \in 1 .. Len(l)
  PROVE  LET m == RemoveAt(l, i)
         IN  /\ m \in Seq(Elements)
             /\ Len(m) = Len(l) - 1
             /\ \A j \in 1 .. Len(m) : \E x \in 1 .. Len(l) : m[j] = l[x]
  <1> DEFINE n == Len(l)
             a == SubSeq(l, 1, i - 1)
             c == SubSeq(l, i + 1, n)
  <1>1. n \in Nat \ {0} /\ i \in 1 .. n /\ \A j \in 1 .. n : l[j] \in Elements
    OBVIOUS
  <1>2. /\ a \in Seq(Elements) /\ Len(a) = i - 1
        /\ \A j \in 1 .. i - 1 : a[j] = l[j]
    <2>1. \A j \in 1 .. i - 1 : l[j] \in Elements
      BY <1>1
    <2>2. i - 1 \in Int /\ (1 <= i - 1 \/ i - 1 = 0)
      BY <1>1
    <2> QED
      BY <1>1, <2>1, <2>2, SubSeqProperties
  <1>3. /\ c \in Seq(Elements) /\ Len(c) = n - i
        /\ \A j \in 1 .. n - i : c[j] = l[j + i]
    <2>1. \A j \in i + 1 .. n : l[j] \in Elements
      BY <1>1
    <2>2. i + 1 \in Int /\ n \in Int /\ (i + 1 <= n \/ n = i)
      BY <1>1
    <2>3. /\ c \in Seq(Elements)
          /\ Len(c) = IF i + 1 <= n THEN n - (i + 1) + 1 ELSE 0
          /\ \A j \in 1 .. n - (i + 1) + 1 : c[j] = l[(i + 1) + j - 1]
      BY <2>1, <2>2, SubSeqProperties
    <2>4. \A j \in 1 .. n - i : (i + 1) + j - 1 = j + i /\ j \in 1 .. n - (i + 1) + 1
      BY <1>1
    <2> QED
      BY <1>1, <2>2, <2>3, <2>4
  <1>4. RemoveAt(l, i) = a \o c
    BY DEF RemoveAt
  <1> HIDE DEF a, c
  <1>5. /\ a \o c \in Seq(Elements)
        /\ Len(a \o c) = n - 1
        /\ \A j \in 1 .. n - 1 : (a \o c)[j] = IF j <= i - 1 THEN a[j] ELSE c[j - (i - 1)]
    <2>1. /\ a \o c \in Seq(Elements)
          /\ Len(a \o c) = Len(a) + Len(c)
          /\ \A j \in 1 .. Len(a) + Len(c) :
               (a \o c)[j] = IF j <= Len(a) THEN a[j] ELSE c[j - Len(a)]
      BY <1>2, <1>3, ConcatProperties
    <2>2. Len(a) + Len(c) = n - 1 /\ Len(a) = i - 1
      BY <1>1, <1>2, <1>3
    <2> QED
      BY <2>1, <2>2
  <1>6. ASSUME NEW j \in 1 .. n - 1
        PROVE  \E x \in 1 .. n : (a \o c)[j] = l[x]
    <2>1. CASE j <= i - 1
      <3>1. (a \o c)[j] = l[j] /\ j \in 1 .. n
        BY <1>1, <1>2, <1>5, <2>1
      <3> QED
        BY <3>1
    <2>2. CASE ~(j <= i - 1)
      <3>1. j - (i - 1) \in 1 .. n - i /\ (j - (i - 1)) + i = j + 1 /\ j + 1 \in 1 .. n
        BY <1>1, <2>2
      <3>2. (a \o c)[j] = l[j + 1]
        BY <1>3, <1>5, <2>2, <3>1
      <3> QED
        BY <3>1, <3>2
    <2> QED
      BY <2>1, <2>2
  <1> QED
    BY <1>4, <1>5, <1>6

\* One output more or less.
LEMMA DueAdd ==
  ASSUME NEW D, IsFiniteSet(D), NEW o, o \notin D, NEW hh, NEW k, NEW P
  PROVE  /\ Cardinality(Due(D, hh, k, P)) \in Nat
         /\ Cardinality(Due(D \cup {o}, hh, k, P)) =
              Cardinality(Due(D, hh, k, P)) + OutCount(o, hh, k, P)
  <1> DEFINE A == Due(D, hh, k, P)
             In == UTXOKey(o, hh[o.TxID]) = k /\ <<o.Index, OutputAt(o).Value>> \in P
  <1>1. A \in SUBSET D /\ o \notin A
    BY DEF Due
  <1>2. Due(D \cup {o}, hh, k, P) = IF In THEN A \cup {o} ELSE A
    BY DEF Due
  <1> HIDE DEF A, In
  <1>3. IsFiniteSet(A) /\ Cardinality(A) \in Nat
    BY <1>1, FS_Subset, FS_CardinalityType
  <1>4. Cardinality(A \cup {o}) = Cardinality(A) + 1
    BY <1>1, <1>3, FS_AddElement
  <1> QED
    BY <1>2, <1>3, <1>4 DEF A, In, OutCount

\* And one that is taken away counted for itself alone as well.
LEMMA DueRemove ==
  ASSUME NEW D, IsFiniteSet(D), NEW o \in D, NEW hh, NEW k, NEW P
  PROVE  /\ Cardinality(Due(D \ {o}, hh, k, P)) \in Nat
         /\ Cardinality(Due(D, hh, k, P)) =
              Cardinality(Due(D \ {o}, hh, k, P)) + OutCount(o, hh, k, P)
  <1>1. IsFiniteSet(D \ {o}) /\ o \notin D \ {o} /\ (D \ {o}) \cup {o} = D
    BY FS_RemoveElement
  <1> DEFINE C == D \ {o}
  <1> HIDE DEF C
  <1>2. IsFiniteSet(C) /\ o \notin C /\ C \cup {o} = D
    BY <1>1 DEF C
  <1>3. /\ Cardinality(Due(C, hh, k, P)) \in Nat
        /\ Cardinality(Due(C \cup {o}, hh, k, P)) =
              Cardinality(Due(C, hh, k, P)) + OutCount(o, hh, k, P)
    BY <1>2, DueAdd
  <1> QED
    BY <1>2, <1>3 DEF C

-----------------------------------------------------------------------------
(* One operation.                                                          *)

\* A list whose elements were there before, or are good, is sound.
LEMMA SoundPut ==
  ASSUME NEW lists, NEW new, NEW hh, NEW n, Sound(lists, hh, n),
         NEW k \in UTXOKeys, NEW l, PutAt(new, lists, k, l), k[3] \in 0 .. n,
         \A j \in 1 .. Len(l) :
           Good(l[j], k, hh) \/ \E i \in 1 .. Len(ListAt(lists, k)) : l[j] = ListAt(lists, k)[i]
  PROVE  Sound(new, hh, n)
  <1> SUFFICES ASSUME NEW x \in UTXOKeys, NEW j \in 1 .. Len(ListAt(new, x))
               PROVE  x[3] \in 0 .. n /\ Good(ListAt(new, x)[j], x, hh)
    BY DEF Sound
  <1>1. CASE x = k
    <2>1. ListAt(new, x) = l
      BY <1>1 DEF PutAt
    <2>2. \A i \in 1 .. Len(ListAt(lists, k)) : Good(ListAt(lists, k)[i], k, hh)
      BY DEF Sound
    <2> QED
      BY <1>1, <2>1, <2>2
  <1>2. CASE x # k
    <2>1. ListAt(new, x) = ListAt(lists, x)
      BY <1>2 DEF PutAt
    <2> QED
      BY <2>1 DEF Sound
  <1> QED
    BY <1>1, <1>2

\* Appending the element of an output that is not yet in D.
LEMMA AppendStep ==
  ASSUME NEW lists \in UTXOLists, NEW new, NEW D, NEW hh, NEW X, NEW gg, NEW n,
         Matches(lists, D, hh, X), Sound(lists, gg, n),
         NEW o \in Outs, o \notin D, NEW t \in TxID,
         NEW h \in Int, h \in 0 .. n, hh[o.TxID] = h,
         Good(UTXO(o, t), UTXOKey(o, h), gg),
         PutAt(new, lists, UTXOKey(o, h),
               Append(ListAt(lists, UTXOKey(o, h)), UTXO(o, t)))
  PROVE  Matches(new, D \cup {o}, hh, X) /\ Sound(new, gg, n)
  <1> DEFINE key == UTXOKey(o, h)
             old == ListAt(lists, key)
             u == UTXO(o, t)
             l == Append(old, u)
  <1>1. key \in UTXOKeys /\ u \in Elements /\ key[3] = h
    BY OutType DEF UTXOKey
  <1>2. old \in Seq(Elements)
    BY ListAtType
  <1>3. u.Index = o.Index /\ u.Value = OutputAt(o).Value
    BY DEF UTXO
  <1>4. IsFiniteSet(D \cup {o}) /\ D \cup {o} \subseteq Outs /\ IsFiniteSet(D)
    BY FS_AddElement DEF Matches
  <1> HIDE DEF key, old, u
  <1>5. ASSUME NEW k \in UTXOKeys, NEW P \in SUBSET Shapes, k[3] \in X \/ P = Shapes
        PROVE  Agree(new, D \cup {o}, hh, k, P)
    <2>1. Agree(lists, D, hh, k, P)
      BY <1>5 DEF Matches
    <2>2. /\ Cardinality(Due(D, hh, k, P)) \in Nat
          /\ Cardinality(Due(D \cup {o}, hh, k, P)) =
               Cardinality(Due(D, hh, k, P)) + OutCount(o, hh, k, P)
      BY <1>4, DueAdd
    <2>3. CASE k = key
      <3>1. ListAt(new, k) = l /\ ListAt(lists, k) = old
        BY <2>3 DEF PutAt, key, old, u
      <3>2. Cardinality(Filed(l, P)) = Cardinality(Filed(old, P)) + ElementCount(u, P)
        BY <1>1, <1>2, FiledAppend
      <3>3. OutCount(o, hh, k, P) = ElementCount(u, P)
        BY <1>3, <2>3 DEF OutCount, ElementCount, key
      <3> HIDE DEF l
      <3> QED
        BY <2>1, <2>2, <3>1, <3>2, <3>3 DEF Agree
    <2>4. CASE k # key
      <3>1. ListAt(new, k) = ListAt(lists, k)
        BY <2>4 DEF PutAt, key
      <3>2. OutCount(o, hh, k, P) = 0
        BY <2>4 DEF OutCount, key
      <3> QED
        BY <2>1, <2>2, <3>1, <3>2 DEF Agree
    <2> QED
      BY <2>3, <2>4
  <1>6. Matches(new, D \cup {o}, hh, X)
    BY <1>4, <1>5 DEF Matches
  <1>7. \A j \in 1 .. Len(l) : Good(l[j], key, gg) \/ \E i \in 1 .. Len(old) : l[j] = old[i]
    <2>1. Good(u, key, gg)
      BY DEF u, key
    <2>2. Len(l) = Len(old) + 1 /\ l[Len(old) + 1] = u /\ \A i \in 1 .. Len(old) : l[i] = old[i]
      BY <1>1, <1>2
    <2>3. Len(old) \in Nat
      BY <1>2
    <2> HIDE DEF l
    <2> QED
      BY <2>1, <2>2, <2>3
  <1>8. Sound(new, gg, n)
    <2>1. PutAt(new, lists, key, l)
      BY DEF key, old, u
    <2> HIDE DEF l
    <2> QED
      BY <1>1, <1>7, <2>1, SoundPut DEF old
  <1> QED
    BY <1>6, <1>8

\* Removing an element of the output's shape, of a list of known shapes.
LEMMA SwapStep ==
  ASSUME NEW lists \in UTXOLists, NEW new, NEW D, NEW hh, NEW X, NEW gg, NEW n,
         Matches(lists, D, hh, X), Sound(lists, gg, n),
         NEW o \in D, NEW h \in Int, h \in 0 .. n, hh[o.TxID] = h,
         NEW i \in 1 .. Len(ListAt(lists, UTXOKey(o, h))),
         ListAt(lists, UTXOKey(o, h))[i].Index = o.Index,
         ListAt(lists, UTXOKey(o, h))[i].Value = OutputAt(o).Value,
         PutAt(new, lists, UTXOKey(o, h),
               Front(ReplaceAt(ListAt(lists, UTXOKey(o, h)), i,
                               Last(ListAt(lists, UTXOKey(o, h))))))
  PROVE  Matches(new, D \ {o}, hh, X) /\ Sound(new, gg, n)
  <1> DEFINE key == UTXOKey(o, h)
             old == ListAt(lists, key)
             l == Front(ReplaceAt(old, i, Last(old)))
  <1>1. o \in Outs
    BY DEF Matches
  <1>2. key \in UTXOKeys /\ key[3] = h
    BY <1>1, OutType DEF UTXOKey
  <1>3. old \in Seq(Elements) /\ i \in 1 .. Len(old) /\ Len(old) \in Nat
    BY ListAtType
  <1>4. IsFiniteSet(D \ {o}) /\ D \ {o} \subseteq Outs /\ IsFiniteSet(D)
    BY FS_RemoveElement DEF Matches
  <1>9. old[i].Index = o.Index /\ old[i].Value = OutputAt(o).Value
    OBVIOUS
  <1>10. PutAt(new, lists, key, l)
    OBVIOUS
  <1> HIDE DEF key, old
  <1>5. ASSUME NEW k \in UTXOKeys, NEW P \in SUBSET Shapes, k[3] \in X \/ P = Shapes
        PROVE  Agree(new, D \ {o}, hh, k, P)
    <2>1. Agree(lists, D, hh, k, P)
      BY <1>5 DEF Matches
    <2>2. /\ Cardinality(Due(D \ {o}, hh, k, P)) \in Nat
          /\ Cardinality(Due(D, hh, k, P)) =
               Cardinality(Due(D \ {o}, hh, k, P)) + OutCount(o, hh, k, P)
      <3> HIDE DEF l
      <3>1. IsFiniteSet(D) /\ o \in D
        BY <1>4
      <3> QED
        BY <3>1, DueRemove, Z3
    <2>3. CASE k = key
      <3>1. ListAt(new, k) = l /\ ListAt(lists, k) = old
        BY <1>10, <2>3 DEF PutAt, old
      <3>2. Cardinality(Filed(l, P)) = Cardinality(Filed(old, P)) - ElementCount(old[i], P)
        BY <1>3, FiledSwap
      <3>3. OutCount(o, hh, k, P) = ElementCount(old[i], P)
        BY <1>9, <2>3 DEF OutCount, ElementCount, key
      <3>4. ElementCount(old[i], P) \in Int
        BY DEF ElementCount
      <3> HIDE DEF l
      <3> QED
        BY <2>1, <2>2, <3>1, <3>2, <3>3, <3>4 DEF Agree
    <2>4. CASE k # key
      <3>1. ListAt(new, k) = ListAt(lists, k)
        BY <1>10, <2>4 DEF PutAt
      <3>2. OutCount(o, hh, k, P) = 0
        BY <2>4 DEF OutCount, key
      <3> QED
        BY <2>1, <2>2, <3>1, <3>2 DEF Agree
    <2> QED
      BY <2>3, <2>4
  <1>6. Matches(new, D \ {o}, hh, X)
    BY <1>4, <1>5 DEF Matches
  <1>7. \A j \in 1 .. Len(l) : \E x \in 1 .. Len(old) : l[j] = old[x]
    <2>1. Len(l) = Len(old) - 1 /\ \A j \in 1 .. Len(old) - 1 : l[j] = IF j = i THEN old[Len(old)] ELSE old[j]
      BY <1>3, SwapResult
    <2> HIDE DEF l
    <2> QED
      BY <1>3, <2>1
  <1>8. Sound(new, gg, n)
    <2> HIDE DEF l
    <2> QED
      BY <1>2, <1>7, <1>10, SoundPut DEF old
  <1> QED
    BY <1>6, <1>8

\* Removing any element of a list of which only the length is known.
LEMMA RemoveStep ==
  ASSUME NEW lists \in UTXOLists, NEW new, NEW D, NEW hh, NEW X, NEW gg, NEW n,
         Matches(lists, D, hh, X), Sound(lists, gg, n),
         NEW o \in D, NEW h \in Int, h \in 0 .. n, hh[o.TxID] = h, h \notin X,
         NEW i \in 1 .. Len(ListAt(lists, UTXOKey(o, h))),
         PutAt(new, lists, UTXOKey(o, h), RemoveAt(ListAt(lists, UTXOKey(o, h)), i))
  PROVE  Matches(new, D \ {o}, hh, X) /\ Sound(new, gg, n)
  <1> DEFINE key == UTXOKey(o, h)
             old == ListAt(lists, key)
             l == RemoveAt(old, i)
  <1>1. o \in Outs
    BY DEF Matches
  <1>2. key \in UTXOKeys /\ key[3] = h
    BY <1>1, OutType DEF UTXOKey
  <1>3. old \in Seq(Elements) /\ i \in 1 .. Len(old) /\ Len(old) \in Nat
    BY ListAtType
  <1>4. IsFiniteSet(D \ {o}) /\ D \ {o} \subseteq Outs /\ IsFiniteSet(D)
    BY FS_RemoveElement DEF Matches
  <1>9. PutAt(new, lists, key, l)
    OBVIOUS
  <1> HIDE DEF key, old
  <1>10. /\ l \in Seq(Elements) /\ Len(l) = Len(old) - 1
         /\ \A j \in 1 .. Len(l) : \E x \in 1 .. Len(old) : l[j] = old[x]
    BY <1>3, RemoveResult
  <1> HIDE DEF l
  <1>5. ASSUME NEW k \in UTXOKeys, NEW P \in SUBSET Shapes, k[3] \in X \/ P = Shapes
        PROVE  Agree(new, D \ {o}, hh, k, P)
    <2>1. Agree(lists, D, hh, k, P)
      BY <1>5 DEF Matches
    <2>2. /\ Cardinality(Due(D \ {o}, hh, k, P)) \in Nat
          /\ Cardinality(Due(D, hh, k, P)) =
               Cardinality(Due(D \ {o}, hh, k, P)) + OutCount(o, hh, k, P)
      BY <1>4, DueRemove
    <2>3. CASE k = key
      <3>1. ListAt(new, k) = l /\ ListAt(lists, k) = old
        BY <1>9, <2>3 DEF PutAt, old
      <3>2. P = Shapes
        BY <1>2, <1>5, <2>3
      <3>3. Cardinality(Filed(l, P)) = Len(old) - 1 /\ Cardinality(Filed(old, P)) = Len(old)
        BY <1>3, <1>10, <3>2, FiledAll
      <3>4. OutCount(o, hh, k, P) = 1
        BY <1>1, <2>3, <3>2, OutType DEF OutCount, key
      <3> QED
        BY <1>3, <2>1, <2>2, <3>1, <3>3, <3>4 DEF Agree
    <2>4. CASE k # key
      <3>1. ListAt(new, k) = ListAt(lists, k)
        BY <1>9, <2>4 DEF PutAt
      <3>2. OutCount(o, hh, k, P) = 0
        BY <2>4 DEF OutCount, key
      <3> QED
        BY <2>1, <2>2, <3>1, <3>2 DEF Agree
    <2> QED
      BY <2>3, <2>4
  <1>6. Matches(new, D \ {o}, hh, X)
    BY <1>4, <1>5 DEF Matches
  <1>7. Sound(new, gg, n)
    BY <1>2, <1>9, <1>10, SoundPut DEF old
  <1> QED
    BY <1>6, <1>7

\* A list that has an output to account for has an element.
LEMMA NonEmpty ==
  ASSUME NEW lists \in UTXOLists, NEW D, NEW hh, NEW X, Matches(lists, D, hh, X),
         NEW o \in D, hh[o.TxID] \in Int
  PROVE  ListAt(lists, UTXOKey(o, hh[o.TxID])) # << >>
  <1> DEFINE key == UTXOKey(o, hh[o.TxID])
             old == ListAt(lists, key)
             A == Due(D, hh, key, Shapes)
  <1>1. o \in Outs /\ key \in UTXOKeys
    BY OutType DEF Matches
  <1>2. o \in A /\ A \in SUBSET D /\ IsFiniteSet(D)
    BY <1>1, OutType DEF Due, Matches
  <1>3. Cardinality(A) # 0
    BY <1>2, FS_Subset, FS_EmptySet
  <1>4. Cardinality(Filed(old, Shapes)) = Cardinality(A)
    BY <1>1 DEF Matches, Agree
  <1>5. Cardinality(Filed(old, Shapes)) = Len(old)
    BY ListAtType, FiledAll
  <1> HIDE DEF A, old
  <1>6. Len(old) # 0
    BY <1>3, <1>4, <1>5
  <1>7. old # << >>
    BY <1>6
  <1> QED
    BY <1>7 DEF old

-----------------------------------------------------------------------------
(* The loops over the outputs and the inputs of one transaction.           *)

\* The outputs that t makes.
MadeBy(t) == {Makes(t)[i] : i \in OutputIndexes(t)}

\* What is known of the state of a handler that has not failed.
Fits(w, D, hh, X, gg, n) == Matches(w.lists, D, hh, X) /\ Sound(w.lists, gg, n)

\* The outputs that t makes exist, and no two of them are the same.
LEMMA MakesType ==
  ASSUME NEW t \in TxID
  PROVE  /\ Makes(t) \in Seq(Outs)
         /\ Len(Makes(t)) \in Nat
         /\ OutputIndexes(t) = 1 .. Len(Makes(t))
         /\ \A i \in 1 .. Len(Makes(t)) : Makes(t)[i] = [TxID |-> t, Index |-> i]
         /\ MadeBy(t) = {o \in Outs : o.TxID = t}
  <1> DEFINE n == Len(Txn[t].Outputs)
  <1>1. n \in Nat /\ OutputIndexes(t) = 1 .. n
    BY TxnAssumption DEF OutputIndexes, Transaction
  <1> HIDE DEF n
  <1>2. \A i \in 1 .. n : [TxID |-> t, Index |-> i] \in Outs
    BY <1>1 DEF Outs, OutPoint
  <1>3. Makes(t) = [i \in 1 .. n |-> [TxID |-> t, Index |-> i]]
    BY <1>1 DEF Makes
  <1>4. Makes(t) \in Seq(Outs) /\ Len(Makes(t)) = n
    BY <1>1, <1>2, <1>3
  <1>5. \A i \in 1 .. n : Makes(t)[i] = [TxID |-> t, Index |-> i]
    BY <1>3
  <1>6. MadeBy(t) = {o \in Outs : o.TxID = t}
    <2>1. ASSUME NEW i \in 1 .. n
          PROVE  Makes(t)[i] \in {o \in Outs : o.TxID = t}
      <3>1. [TxID |-> t, Index |-> i].TxID = t
        OBVIOUS
      <3> QED
        BY <1>2, <1>5, <3>1
    <2>2. ASSUME NEW o \in Outs, o.TxID = t
          PROVE  o \in MadeBy(t)
      <3>1. o.Index \in OutputIndexes(t)
        BY <2>2 DEF Outs
      <3>2. o = [TxID |-> t, Index |-> o.Index]
        BY <2>2, OutType
      <3> QED
        BY <1>1, <1>5, <3>1, <3>2 DEF MadeBy
    <2> QED
      BY <1>1, <2>1, <2>2 DEF MadeBy
  <1> QED
    BY <1>1, <1>4, <1>5, <1>6

\* The handlers' loops are those folds.
LEMMA LoopsAreFolds ==
  ASSUME NEW w, NEW t, NEW b
  PROVE  /\ MakeUTXOs(w, t) = MakeLoop!Fold(w, Makes(t), t)
         /\ SpendUTXOs(w, t) =
              IF IsCoinBaseTx(t) THEN w ELSE SpendLoop!Fold(w, Txn[t].Inputs, t)
         /\ UnmakeUTXOs(w, t) = UnmakeLoop!Fold(w, Makes(t), t)
         /\ RestoreUTXOs(w, t) =
              IF IsCoinBaseTx(t) THEN w ELSE RestoreLoop!Fold(w, Txn[t].Inputs, t)
         /\ persistUnspendUTXOs(b) = PersistLoop!Fold(Begin, b, t)
         /\ rollbackUnspendUTXOs(b) = RollbackLoop!Fold(Begin, b, t)
  <1>1. MakeUTXOs(w, t) = MakeLoop!Fold(w, Makes(t), t)
    BY DEF MakeUTXOs, MakeLoop!Fold, MakeRound, FoldLeft, MapThenFoldSet,
           Max, MakeLoop!FoldLeft, MakeLoop!MapThenFoldSet, MakeLoop!Max
  <1>2. SpendUTXOs(w, t) =
          IF IsCoinBaseTx(t) THEN w ELSE SpendLoop!Fold(w, Txn[t].Inputs, t)
    BY DEF SpendUTXOs, SpendLoop!Fold, SpendRound, FoldLeft, MapThenFoldSet,
           Max, SpendLoop!FoldLeft, SpendLoop!MapThenFoldSet, SpendLoop!Max
  <1>3. UnmakeUTXOs(w, t) = UnmakeLoop!Fold(w, Makes(t), t)
    BY DEF UnmakeUTXOs, UnmakeLoop!Fold, UnmakeRound, FoldLeft, MapThenFoldSet,
           Max, UnmakeLoop!FoldLeft, UnmakeLoop!MapThenFoldSet, UnmakeLoop!Max
  <1>4. RestoreUTXOs(w, t) =
          IF IsCoinBaseTx(t) THEN w ELSE RestoreLoop!Fold(w, Txn[t].Inputs, t)
    BY DEF RestoreUTXOs, RestoreLoop!Fold, RestoreRound, FoldLeft, MapThenFoldSet,
           Max, RestoreLoop!FoldLeft, RestoreLoop!MapThenFoldSet, RestoreLoop!Max
  <1>5. persistUnspendUTXOs(b) = PersistLoop!Fold(Begin, b, t)
    BY DEF persistUnspendUTXOs, PersistLoop!Fold, PersistRound, FoldLeft, MapThenFoldSet,
           Max, PersistLoop!FoldLeft, PersistLoop!MapThenFoldSet, PersistLoop!Max
  <1>6. rollbackUnspendUTXOs(b) = RollbackLoop!Fold(Begin, b, t)
    BY DEF rollbackUnspendUTXOs, RollbackLoop!Fold, RollbackRound, FoldLeft, MapThenFoldSet,
           Max, RollbackLoop!FoldLeft, RollbackLoop!MapThenFoldSet, RollbackLoop!Max
  <1> QED
    BY <1>1, <1>2, <1>3, <1>4, <1>5, <1>6

\* A handler's state, and the outputs that its lists should hold.
Accounts == Handlers \X SUBSET Outs

\* Every round for an output of a transaction of T leads from an account of
\* P to one of P: making an output, and consuming one.
MakesWithin(P, T) ==
  \A t \in T : \A o \in MadeBy(t) : \A p \in P :
    o \notin p[2] => <<AppendUTXO(p[1], o, Height + 1, t), p[2] \cup {o}>> \in P

SpendsAccount(P, T) ==
  \A t \in T : \A o \in Spends(t) : \A p \in P :
    o \in p[2] => <<SpendUTXO(p[1], o), p[2] \ {o}>> \in P

\* The outputs of a transaction are put into their lists one after another.
LEMMA MakeUTXOsEffect ==
  ASSUME Height \in Nat, NEW P \in SUBSET Accounts, NEW T, MakesWithin(P, T),
         NEW t \in T, t \in TxID, NEW w, NEW D, <<w, D>> \in P, D \cap MadeBy(t) = {}
  PROVE  <<MakeUTXOs(w, t), D \cup MadeBy(t)>> \in P
  <1> DEFINE s == Makes(t)
             n == Len(s)
             E(i) == D \cup {s[j] : j \in 1 .. i}
             G == {p \in Nat \X Handlers : <<p[2], E(p[1])>> \in P}
  <1>1. /\ s \in Seq(Outs) /\ n \in Nat
        /\ \A i \in 1 .. n : s[i] = [TxID |-> t, Index |-> i] /\ s[i] \in Outs /\ s[i] \in MadeBy(t)
        /\ MadeBy(t) = {s[j] : j \in 1 .. n}
    <2>1. /\ s \in Seq(Outs) /\ n \in Nat /\ OutputIndexes(t) = 1 .. n
          /\ \A i \in 1 .. n : s[i] = [TxID |-> t, Index |-> i]
      BY MakesType
    <2> QED
      BY <2>1, ElementOfSeq DEF MadeBy
  <1>2. \A x \in Handlers, o \in Outs : MakeRound(x, o, t) \in Handlers
    BY AppendEffect DEF MakeRound
  <1>3. w \in Handlers
    BY DEF Accounts
  <1> HIDE DEF s, n
  <1>4. <<0, w>> \in G
    <2>1. E(0) = D
      OBVIOUS
    <2> HIDE DEF E
    <2> QED
      BY <1>3, <2>1
  <1>5. ASSUME NEW i \in 1 .. n, NEW x \in Handlers, <<i - 1, x>> \in G
        PROVE  <<i, MakeRound(x, s[i], t)>> \in G
    <2> DEFINE y == MakeRound(x, s[i], t)
               o == s[i]
    <2>1. i \in Nat /\ i - 1 \in Nat /\ o \in Outs /\ o.Index = i /\ o \in MadeBy(t)
      <3>1. i \in Nat /\ i - 1 \in Nat
        BY <1>1
      <3>2. o = [TxID |-> t, Index |-> i] /\ o \in Outs /\ o \in MadeBy(t)
        BY <1>1
      <3> HIDE DEF o
      <3> QED
        BY <3>1, <3>2
    <2>2. y \in Handlers
      BY <1>2, <2>1
    <2>3. o \notin E(i - 1)
      <3>1. o \notin D
        BY <2>1
      <3>2. ASSUME NEW j \in 1 .. i - 1
            PROVE  s[j] # o
        <4>1. j \in 1 .. n /\ j # i
          BY <1>1
        <4>2. s[j] = [TxID |-> t, Index |-> j]
          BY <1>1, <4>1
        <4>3. s[j].Index = j
          BY <4>2
        <4> HIDE DEF o
        <4> QED
          BY <2>1, <4>1, <4>3
      <3> QED
        BY <3>1, <3>2
    <2>4. E(i) = E(i - 1) \cup {o}
      <3>1. \A j : j \in 1 .. i <=> j \in 1 .. i - 1 \/ j = i
        BY <2>1
      <3> QED
        BY <3>1
    <2> HIDE DEF E
    <2>5. <<x, E(i - 1)>> \in P
      BY <1>5
    <2>6. <<y, E(i - 1) \cup {o}>> \in P
      <3>1. y = AppendUTXO(x, o, Height + 1, t)
        BY DEF MakeRound
      <3> HIDE DEF o, y
      <3> QED
        BY <2>1, <2>3, <2>5, <3>1 DEF MakesWithin
    <2> HIDE DEF o, y
    <2>7. <<i, y>> \in G
      BY <2>1, <2>2, <2>4, <2>6
    <2> QED
      BY <2>7 DEF y
  <1> HIDE DEF G
  <1>6. /\ MakeLoop!Fold(w, s, t) \in Handlers
        /\ <<n, MakeLoop!Fold(w, s, t)>> \in G
    <2>1. MakeLoop!Passes(Handlers, Outs, s, t, G)
      BY <1>1, <1>2, <1>5 DEF MakeLoop!Passes, MakeLoop!Loops, n
    <2> QED
      BY <1>3, <1>4, <2>1, MakeLoop!FoldInvariant DEF n
  <1>7. MakeUTXOs(w, t) = MakeLoop!Fold(w, s, t)
    BY LoopsAreFolds DEF s
  <1> QED
    BY <1>1, <1>6, <1>7 DEF G

\* The inputs of a transaction that is not a coinbase are what it consumes.
LEMMA InputsType ==
  ASSUME NEW t \in TxID, ~IsCoinBaseTx(t)
  PROVE  /\ Txn[t].Inputs \in Seq(Spends(t))
         /\ Len(Txn[t].Inputs) \in Nat
         /\ \A i \in 1 .. Len(Txn[t].Inputs) : Txn[t].Inputs[i] \in Spends(t)
         /\ Spends(t) = {Txn[t].Inputs[j] : j \in 1 .. Len(Txn[t].Inputs)}
  <1> DEFINE s == Txn[t].Inputs
  <1>1. s \in Seq(OutPoint)
    BY TxnAssumption DEF Transaction
  <1>2. Spends(t) = {s[j] : j \in 1 .. Len(s)}
    BY DEF Spends
  <1> HIDE DEF s
  <1>3. Len(s) \in Nat /\ \A i \in 1 .. Len(s) : s[i] \in Spends(t)
    BY <1>1, <1>2
  <1>4. s \in Seq(Spends(t))
    BY <1>1, <1>3
  <1> QED
    BY <1>2, <1>3, <1>4 DEF s

\* The outputs that t consumes exist and their transactions have heights
\* from 0 to n in the table.
SpendsWithin(t, n) ==
  /\ Spends(t) \subseteq Outs
  /\ \A o \in Spends(t) : txHeight[o.TxID] \in 0 .. n

\* The inputs of a transaction are taken out of their lists one after another.
LEMMA SpendUTXOsEffect ==
  ASSUME NEW n \in Nat, NEW P \in SUBSET Accounts, NEW T, SpendsAccount(P, T),
         NEW t \in T, t \in TxID, SpendsWithin(t, n),
         ~IsCoinBaseTx(t) => IsInjective(Txn[t].Inputs),
         NEW w, NEW D, <<w, D>> \in P, Spends(t) \subseteq D
  PROVE  <<SpendUTXOs(w, t), D \ Spends(t)>> \in P
  <1>1. CASE IsCoinBaseTx(t)
    <2>1. SpendUTXOs(w, t) = w /\ Spends(t) = {} /\ D \ {} = D
      BY <1>1 DEF SpendUTXOs, Spends
    <2> QED
      BY <2>1
  <1>2. CASE ~IsCoinBaseTx(t)
    <2> DEFINE s == Txn[t].Inputs
               m == Len(s)
               E(i) == D \ {s[j] : j \in 1 .. i}
               G == {p \in Nat \X Handlers : <<p[2], E(p[1])>> \in P}
    <2>1. /\ s \in Seq(Spends(t)) /\ m \in Nat
          /\ \A i \in 1 .. m : s[i] \in Spends(t)
          /\ Spends(t) = {s[j] : j \in 1 .. m}
      BY <1>2, InputsType
    <2>2. \A i, j \in 1 .. m : s[i] = s[j] => i = j
      <3>1. DOMAIN s = 1 .. m
        BY <2>1
      <3> QED
        BY <1>2, <3>1 DEF IsInjective
    <2>3. \A x \in Handlers, o \in Spends(t) : SpendRound(x, o, t) \in Handlers
      <3>1. \A o \in Spends(t) : o \in Outs /\ txHeight[o.TxID] \in Int
        BY DEF SpendsWithin
      <3> QED
        BY <3>1, SpendEffect DEF SpendRound
    <2>4. w \in Handlers
      BY DEF Accounts
    <2> HIDE DEF s, m
    <2>5. <<0, w>> \in G
      <3>1. E(0) = D
        OBVIOUS
      <3> HIDE DEF E
      <3> QED
        BY <2>4, <3>1
    <2>6. ASSUME NEW i \in 1 .. m, NEW x \in Handlers, <<i - 1, x>> \in G
          PROVE  <<i, SpendRound(x, s[i], t)>> \in G
      <3> DEFINE y == SpendRound(x, s[i], t)
                 o == s[i]
      <3>1. i \in Nat /\ i - 1 \in Nat /\ o \in Spends(t) /\ y \in Handlers
        BY <2>1, <2>3
      <3>2. o \in E(i - 1)
        <4>1. \A j \in 1 .. i - 1 : j \in 1 .. m /\ j # i
          BY <2>1
        <4>2. \A j \in 1 .. i - 1 : s[j] # s[i]
          BY <2>2, <4>1
        <4> QED
          BY <3>1, <4>2
      <3>3. E(i) = E(i - 1) \ {o}
        <4>1. \A j : j \in 1 .. i <=> j \in 1 .. i - 1 \/ j = i
          BY <3>1
        <4> QED
          BY <4>1
      <3> HIDE DEF E
      <3>4. <<x, E(i - 1)>> \in P
        BY <2>6
      <3>5. <<y, E(i - 1) \ {o}>> \in P
        <4>1. y = SpendUTXO(x, o)
          BY DEF SpendRound
        <4> HIDE DEF o, y
        <4> QED
          BY <3>1, <3>2, <3>4, <4>1 DEF SpendsAccount
      <3> HIDE DEF o, y
      <3>6. <<i, y>> \in G
        BY <3>1, <3>3, <3>5
      <3> QED
        BY <3>6 DEF y
    <2> HIDE DEF G
    <2>7. /\ SpendLoop!Fold(w, s, t) \in Handlers
          /\ <<m, SpendLoop!Fold(w, s, t)>> \in G
      <3>1. SpendLoop!Passes(Handlers, Spends(t), s, t, G)
        BY <2>1, <2>3, <2>6 DEF SpendLoop!Passes, SpendLoop!Loops, m
      <3> QED
        BY <2>4, <2>5, <3>1, SpendLoop!FoldInvariant DEF m
    <2>8. SpendUTXOs(w, t) = SpendLoop!Fold(w, s, t)
      BY <1>2, LoopsAreFolds DEF s
    <2> QED
      BY <2>1, <2>7, <2>8 DEF G
  <1> QED
    BY <1>1, <1>2

\* The outputs of a transaction of the tip are taken out of their lists one
\* after another.  Which elements go is not known, only that no list is empty
\* too early: the lists of the tip's height are all emptied in the end.
LEMMA UnmakeUTXOsEffect ==
  ASSUME Height \in Nat, NEW w \in Handlers, w.res = "ok", NEW t \in TxID,
         NEW D, NEW hh, hh[t] = Height, NEW gg, MadeBy(t) \subseteq D,
         Fits(w, D, hh, Int \ {Height}, gg, Height)
  PROVE  /\ UnmakeUTXOs(w, t) \in Handlers
         /\ UnmakeUTXOs(w, t).res = "ok"
         /\ Fits(UnmakeUTXOs(w, t), D \ MadeBy(t), hh, Int \ {Height}, gg, Height)
  <1> DEFINE s == Makes(t)
             n == Len(s)
             X == Int \ {Height}
             E(i) == D \ {s[j] : j \in 1 .. i}
             OK(i, x) == x.res = "ok" /\ Fits(x, E(i), hh, X, gg, Height)
             G == {p \in Nat \X Handlers : OK(p[1], p[2])}
  <1>1. /\ s \in Seq(Outs) /\ n \in Nat
        /\ \A i \in 1 .. n : s[i] = [TxID |-> t, Index |-> i] /\ s[i] \in Outs
        /\ MadeBy(t) = {s[j] : j \in 1 .. n}
    <2>1. /\ s \in Seq(Outs) /\ n \in Nat /\ OutputIndexes(t) = 1 .. n
          /\ \A i \in 1 .. n : s[i] = [TxID |-> t, Index |-> i]
      BY MakesType
    <2> QED
      BY <2>1, ElementOfSeq DEF MadeBy
  <1>2. \A x \in Handlers, o \in Outs : UnmakeRound(x, o, t) \in Handlers
    BY UnmakeEffect DEF UnmakeRound
  <1> HIDE DEF s, n
  <1>3. <<0, w>> \in G
    <2>1. E(0) = D
      OBVIOUS
    <2>2. OK(0, w)
      BY <2>1
    <2> HIDE DEF OK
    <2> QED
      BY <2>2
  <1>4. ASSUME NEW i \in 1 .. n, NEW x \in Handlers, <<i - 1, x>> \in G
        PROVE  <<i, UnmakeRound(x, s[i], t)>> \in G
    <2> DEFINE y == UnmakeRound(x, s[i], t)
               o == s[i]
               k == UTXOKey(o, Height)
               l == ListAt(x.lists, k)
    <2>1. i \in Nat /\ i - 1 \in Nat /\ o \in Outs /\ o.TxID = t /\ o.Index = i
      <3>1. i \in Nat /\ i - 1 \in Nat
        BY <1>1
      <3>2. o = [TxID |-> t, Index |-> i] /\ o \in Outs
        BY <1>1
      <3> HIDE DEF o
      <3> QED
        BY <3>1, <3>2
    <2>2. y \in Handlers
      BY <1>2, <2>1
    <2>3. x.res = "ok" /\ Fits(x, E(i - 1), hh, X, gg, Height) /\ x.lists \in UTXOLists
      BY <1>4 DEF Handlers
    <2>4. o \in E(i - 1)
      <3>1. o \in D
        BY <1>1
      <3>2. ASSUME NEW j \in 1 .. i - 1
            PROVE  s[j] # o
        <4>1. j \in 1 .. n /\ j # i
          BY <1>1
        <4>2. s[j] = [TxID |-> t, Index |-> j]
          BY <1>1, <4>1
        <4>3. s[j].Index = j
          BY <4>2
        <4> HIDE DEF o
        <4> QED
          BY <2>1, <4>1, <4>3
      <3> QED
        BY <3>1, <3>2
    <2>5. E(i) = E(i - 1) \ {o}
      <3>1. \A j : j \in 1 .. i <=> j \in 1 .. i - 1 \/ j = i
        BY <2>1
      <3> QED
        BY <3>1
    <2>6. Matches(x.lists, E(i - 1), hh, X) /\ Sound(x.lists, gg, Height)
      BY <2>3 DEF Fits
    <2>7. hh[o.TxID] = Height /\ Height \in Int /\ Height \in 0 .. Height /\ Height \notin X
      BY <2>1
    <2>8. l # << >>
      <3> HIDE DEF o, E, X
      <3> QED
        BY <2>3, <2>4, <2>6, <2>7, NonEmpty
    <2>9. y = UnmakeUTXO(x, o, Height)
      BY DEF UnmakeRound
    <2>10. /\ y.res = "ok"
           /\ \E j \in 1 .. Len(l) : PutAt(y.lists, x.lists, k, RemoveAt(l, j))
      BY <2>1, <2>3, <2>7, <2>8, <2>9, UnmakeEffect
    <2>11. PICK j \in 1 .. Len(l) : PutAt(y.lists, x.lists, k, RemoveAt(l, j))
      BY <2>10
    <2> HIDE DEF y, o, E, X
    <2>12. Matches(y.lists, E(i - 1) \ {o}, hh, X) /\ Sound(y.lists, gg, Height)
      BY <2>3, <2>4, <2>6, <2>7, <2>11, RemoveStep
    <2>13. OK(i, y)
      BY <2>5, <2>10, <2>12 DEF Fits
    <2> HIDE DEF OK
    <2>14. <<i, y>> \in G
      BY <2>1, <2>2, <2>13
    <2> QED
      BY <2>14 DEF y
  <1> HIDE DEF G
  <1>5. /\ UnmakeLoop!Fold(w, s, t) \in Handlers
        /\ <<n, UnmakeLoop!Fold(w, s, t)>> \in G
    <2>1. UnmakeLoop!Passes(Handlers, Outs, s, t, G)
      BY <1>1, <1>2, <1>4 DEF UnmakeLoop!Passes, UnmakeLoop!Loops, n
    <2> QED
      BY <1>3, <2>1, UnmakeLoop!FoldInvariant DEF n
  <1>6. UnmakeUTXOs(w, t) = UnmakeLoop!Fold(w, s, t)
    BY LoopsAreFolds DEF s
  <1> QED
    BY <1>1, <1>5, <1>6 DEF G

\* The outputs that a transaction of the tip had consumed are given back to
\* the lists of their own heights, under the hash of that transaction.
LEMMA RestoreUTXOsEffect ==
  ASSUME Height \in Nat, NEW w \in Handlers, w.res = "ok", NEW t \in TxID,
         NEW D, NEW hh, NEW X, NEW gg, gg[t] = Absent,
         Fits(w, D, hh, X, gg, Height),
         Spends(t) \cap D = {}, SpendsWithin(t, Height),
         \A o \in Spends(t) : hh[o.TxID] = txHeight[o.TxID],
         ~IsCoinBaseTx(t) => IsInjective(Txn[t].Inputs)
  PROVE  /\ RestoreUTXOs(w, t) \in Handlers
         /\ RestoreUTXOs(w, t).res = "ok"
         /\ Fits(RestoreUTXOs(w, t), D \cup Spends(t), hh, X, gg, Height)
  <1>1. CASE IsCoinBaseTx(t)
    <2>1. RestoreUTXOs(w, t) = w /\ Spends(t) = {} /\ D \cup {} = D
      BY <1>1 DEF RestoreUTXOs, Spends
    <2> QED
      BY <2>1
  <1>2. CASE ~IsCoinBaseTx(t)
    <2> DEFINE s == Txn[t].Inputs
               m == Len(s)
               E(i) == D \cup {s[j] : j \in 1 .. i}
               OK(i, x) == x.res = "ok" /\ Fits(x, E(i), hh, X, gg, Height)
               G == {p \in Nat \X Handlers : OK(p[1], p[2])}
    <2>1. /\ s \in Seq(Spends(t)) /\ m \in Nat
          /\ \A i \in 1 .. m : s[i] \in Spends(t)
          /\ Spends(t) = {s[j] : j \in 1 .. m}
      BY <1>2, InputsType
    <2>2. \A i, j \in 1 .. m : s[i] = s[j] => i = j
      <3>1. DOMAIN s = 1 .. m
        BY <2>1
      <3> QED
        BY <1>2, <3>1 DEF IsInjective
    <2>3. \A o \in Spends(t) : o \in Outs /\ txHeight[o.TxID] \in Int /\ o \notin D
                                /\ txHeight[o.TxID] \in 0 .. Height
                                /\ hh[o.TxID] = txHeight[o.TxID]
      BY DEF SpendsWithin
    <2>4. \A x \in Handlers, o \in Spends(t) :
            RestoreRound(x, o, t) = AppendUTXO(x, o, txHeight[o.TxID], t)
      BY <2>3 DEF RestoreRound, RestoreUTXO, Stored, Absent
    <2>5. \A x \in Handlers, o \in Spends(t) : RestoreRound(x, o, t) \in Handlers
      BY <2>3, <2>4, AppendEffect
    <2> HIDE DEF s, m
    <2>6. <<0, w>> \in G
      <3>1. E(0) = D
        OBVIOUS
      <3>2. OK(0, w)
        BY <3>1
      <3> HIDE DEF OK
      <3> QED
        BY <3>2
    <2>7. ASSUME NEW i \in 1 .. m, NEW x \in Handlers, <<i - 1, x>> \in G
          PROVE  <<i, RestoreRound(x, s[i], t)>> \in G
      <3> DEFINE y == RestoreRound(x, s[i], t)
                 o == s[i]
                 h == txHeight[o.TxID]
                 k == UTXOKey(o, h)
      <3>1. i \in Nat /\ i - 1 \in Nat
        BY <2>1
      <3>2. o \in Spends(t) /\ o \in Outs /\ h \in Int /\ h \in 0 .. Height /\ hh[o.TxID] = h
        BY <2>1, <2>3
      <3>3. y \in Handlers /\ y = AppendUTXO(x, o, h, t)
        BY <2>4, <2>5, <3>2
      <3>4. x.res = "ok" /\ Fits(x, E(i - 1), hh, X, gg, Height) /\ x.lists \in UTXOLists
        BY <2>7 DEF Handlers
      <3>5. /\ y.res = "ok"
            /\ PutAt(y.lists, x.lists, k, Append(ListAt(x.lists, k), UTXO(o, t)))
        BY <3>2, <3>3, <3>4, AppendEffect
      <3>6. o \notin E(i - 1)
        <4>1. \A j \in 1 .. i - 1 : j \in 1 .. m /\ j # i
          BY <2>1
        <4>2. \A j \in 1 .. i - 1 : s[j] # s[i]
          BY <2>2, <4>1
        <4>3. o \notin D
          BY <2>3, <3>2
        <4> QED
          BY <4>2, <4>3
      <3>7. E(i) = E(i - 1) \cup {o}
        <4>1. \A j : j \in 1 .. i <=> j \in 1 .. i - 1 \/ j = i
          BY <3>1
        <4> QED
          BY <4>1
      <3>8. Good(UTXO(o, t), k, gg)
        <4>1. UTXO(o, t).TxID = t /\ k[3] = h
          BY DEF UTXO, UTXOKey
        <4>2. gg[t] # h
          BY <3>2 DEF Absent
        <4> HIDE DEF k, o, h
        <4> QED
          BY <4>1, <4>2 DEF Good
      <3>9. Matches(x.lists, E(i - 1), hh, X) /\ Sound(x.lists, gg, Height)
        BY <3>4 DEF Fits
      <3> HIDE DEF y, o, E, h
      <3>10. Matches(y.lists, E(i - 1) \cup {o}, hh, X) /\ Sound(y.lists, gg, Height)
        BY <3>2, <3>4, <3>5, <3>6, <3>8, <3>9, AppendStep
      <3>11. OK(i, y)
        BY <3>5, <3>7, <3>10 DEF Fits
      <3> HIDE DEF OK
      <3>12. <<i, y>> \in G
        BY <3>1, <3>3, <3>11
      <3> QED
        BY <3>12 DEF y
    <2> HIDE DEF G
    <2>8. /\ RestoreLoop!Fold(w, s, t) \in Handlers
          /\ <<m, RestoreLoop!Fold(w, s, t)>> \in G
      <3>1. RestoreLoop!Passes(Handlers, Spends(t), s, t, G)
        BY <2>1, <2>5, <2>7 DEF RestoreLoop!Passes, RestoreLoop!Loops, m
      <3> QED
        BY <2>6, <3>1, RestoreLoop!FoldInvariant DEF m
    <2>9. RestoreUTXOs(w, t) = RestoreLoop!Fold(w, s, t)
      BY <1>2, LoopsAreFolds DEF s
    <2> QED
      BY <2>1, <2>8, <2>9 DEF G
  <1> QED
    BY <1>1, <1>2

-----------------------------------------------------------------------------
(* The loops over the transactions of a block.                             *)

\* Whatever state a handler is in, the loops over a transaction leave it in
\* one.
LEMMA RoundTypes ==
  ASSUME Height \in Nat, NEW n \in Nat, NEW w \in Handlers, NEW t \in TxID,
         SpendsWithin(t, n)
  PROVE  /\ MakeUTXOs(w, t) \in Handlers
         /\ SpendUTXOs(w, t) \in Handlers
         /\ UnmakeUTXOs(w, t) \in Handlers
         /\ RestoreUTXOs(w, t) \in Handlers
  <1> DEFINE G == Nat \X Handlers
             m == Makes(t)
             s == Txn[t].Inputs
  <1>1. m \in Seq(Outs) /\ Len(m) \in Nat /\ \A i \in 1 .. Len(m) : m[i] \in Outs
    <2>1. m \in Seq(Outs) /\ Len(m) \in Nat
      BY MakesType
    <2> QED
      BY <2>1, ElementOfSeq
  <1>2. ~IsCoinBaseTx(t) => /\ s \in Seq(Spends(t)) /\ Len(s) \in Nat
                            /\ \A i \in 1 .. Len(s) : s[i] \in Spends(t)
    BY InputsType
  <1>3. \A o \in Spends(t) : o \in Outs /\ txHeight[o.TxID] \in 0 .. n /\ txHeight[o.TxID] \in Int
    BY DEF SpendsWithin
  <1>4. \A x \in Handlers, o \in Outs : MakeRound(x, o, t) \in Handlers
    BY AppendEffect DEF MakeRound
  <1>5. \A x \in Handlers, o \in Spends(t) : SpendRound(x, o, t) \in Handlers
    BY <1>3, SpendEffect DEF SpendRound
  <1>6. \A x \in Handlers, o \in Outs : UnmakeRound(x, o, t) \in Handlers
    BY UnmakeEffect DEF UnmakeRound
  <1>7. \A x \in Handlers, o \in Spends(t) : RestoreRound(x, o, t) \in Handlers
    <2>1. \A x \in Handlers, o \in Spends(t) :
            RestoreRound(x, o, t) = AppendUTXO(x, o, txHeight[o.TxID], t)
      BY <1>3 DEF RestoreRound, RestoreUTXO, Stored, Absent
    <2> QED
      BY <1>3, <2>1, AppendEffect
  <1> HIDE DEF m, s
  <1>8. <<0, w>> \in G
    OBVIOUS
  <1>9. MakeUTXOs(w, t) \in Handlers
    <2>1. MakeLoop!Passes(Handlers, Outs, m, t, G)
      BY <1>1, <1>4 DEF MakeLoop!Passes, MakeLoop!Loops
    <2>2. MakeLoop!Fold(w, m, t) \in Handlers
      <3> HIDE DEF G
      <3> QED
        BY <1>8, <2>1, MakeLoop!FoldInvariant
    <2> QED
      BY <2>2, LoopsAreFolds DEF m
  <1>10. UnmakeUTXOs(w, t) \in Handlers
    <2>1. UnmakeLoop!Passes(Handlers, Outs, m, t, G)
      BY <1>1, <1>6 DEF UnmakeLoop!Passes, UnmakeLoop!Loops
    <2>2. UnmakeLoop!Fold(w, m, t) \in Handlers
      <3> HIDE DEF G
      <3> QED
        BY <1>8, <2>1, UnmakeLoop!FoldInvariant
    <2> QED
      BY <2>2, LoopsAreFolds DEF m
  <1>11. CASE IsCoinBaseTx(t)
    <2>1. SpendUTXOs(w, t) = w /\ RestoreUTXOs(w, t) = w
      BY <1>11 DEF SpendUTXOs, RestoreUTXOs
    <2> QED
      BY <1>9, <1>10, <2>1
  <1>12. CASE ~IsCoinBaseTx(t)
    <2>1. SpendLoop!Passes(Handlers, Spends(t), s, t, G)
      BY <1>2, <1>5, <1>12 DEF SpendLoop!Passes, SpendLoop!Loops
    <2>2. RestoreLoop!Passes(Handlers, Spends(t), s, t, G)
      BY <1>2, <1>7, <1>12 DEF RestoreLoop!Passes, RestoreLoop!Loops
    <2>3. SpendLoop!Fold(w, s, t) \in Handlers /\ RestoreLoop!Fold(w, s, t) \in Handlers
      <3> HIDE DEF G
      <3>1. SpendLoop!Fold(w, s, t) \in Handlers
        BY <1>8, <2>1, SpendLoop!FoldInvariant
      <3>2. RestoreLoop!Fold(w, s, t) \in Handlers
        BY <1>8, <2>2, RestoreLoop!FoldInvariant
      <3> QED
        BY <3>1, <3>2
    <2>4. SpendUTXOs(w, t) = SpendLoop!Fold(w, s, t) /\ RestoreUTXOs(w, t) = RestoreLoop!Fold(w, s, t)
      BY <1>12, LoopsAreFolds DEF s
    <2> QED
      BY <1>9, <1>10, <2>3, <2>4
  <1> QED
    BY <1>11, <1>12

\* The outputs made and consumed by the first i transactions of a block.
MadeUpto(b, i) == UNION {MadeBy(b[j]) : j \in 1 .. i}

SpentUpto(b, i) == UNION {Spends(b[j]) : j \in 1 .. i}

\* The transactions of a block can be put on the lists of the outputs of U:
\* what they consume is in U, what they make is not.
Applies(b, U, n) ==
  /\ CheckBlockSanity(b)
  /\ \A t \in BlockTxs(b) :
       /\ t \in TxID
       /\ MadeBy(t) \cap U = {}
       /\ Spends(t) \subseteq U
       /\ SpendsWithin(t, n)

\* The persist handler leads from an account of the outputs of U to one of
\* those outputs and the block's, less what the block consumes.
LEMMA PersistLoopEffect ==
  ASSUME Height \in Nat, NEW b, b \in Seq(TxID), NEW U, Applies(b, U, Height),
         NEW P \in SUBSET Accounts, MakesWithin(P, BlockTxs(b)), SpendsAccount(P, BlockTxs(b)),
         <<Begin, U>> \in P
  PROVE  <<persistUnspendUTXOs(b), (U \cup MadeUpto(b, Len(b))) \ SpentUpto(b, Len(b))>> \in P
  <1> DEFINE n == Len(b)
             T == BlockTxs(b)
             E(i) == (U \cup MadeUpto(b, i)) \ SpentUpto(b, i)
             G == {p \in Nat \X Handlers : <<p[2], E(p[1])>> \in P}
  <1>1. /\ n \in Nat
        /\ \A i \in 1 .. n : b[i] \in TxID /\ b[i] \in BlockTxs(b)
        /\ b \in Seq(BlockTxs(b))
    BY DEF BlockTxs
  <1>2. \A i, j \in 1 .. n : b[i] = b[j] => i = j
    <2>1. DOMAIN b = 1 .. n
      BY <1>1
    <2> QED
      BY <2>1 DEF Applies, CheckBlockSanity, IsInjective
  <1>3. ASSUME NEW t \in BlockTxs(b)
        PROVE  /\ t \in TxID /\ MadeBy(t) \cap U = {} /\ Spends(t) \subseteq U
               /\ SpendsWithin(t, Height)
               /\ ~IsCoinBaseTx(t) => IsInjective(Txn[t].Inputs)
    BY DEF Applies, CheckBlockSanity
  <1>4. ASSUME NEW t \in BlockTxs(b), NEW r \in BlockTxs(b), t # r
        PROVE  Spends(t) \cap Spends(r) = {} /\ MadeBy(t) \cap MadeBy(r) = {}
                 /\ Spends(t) \cap MadeBy(r) = {}
    <2>1. Spends(t) \cap Spends(r) = {}
      BY <1>4 DEF Applies, CheckBlockSanity
    <2>2. MadeBy(t) = {o \in Outs : o.TxID = t} /\ MadeBy(r) = {o \in Outs : o.TxID = r}
      BY <1>3, MakesType
    <2> QED
      BY <1>3, <1>4, <2>1, <2>2
  <1>5. \A x \in Handlers, t \in BlockTxs(b) : PersistRound(x, t, b) \in Handlers
    BY <1>3, RoundTypes DEF PersistRound
  <1>6. Begin \in Handlers
    BY DEF Accounts
  <1>7. <<0, Begin>> \in G
    <2>1. E(0) = U
      BY DEF MadeUpto, SpentUpto
    <2> HIDE DEF E
    <2> QED
      BY <1>6, <2>1
  <1> HIDE DEF n
  <1>8. ASSUME NEW i \in 1 .. n, NEW x \in Handlers, <<i - 1, x>> \in G
        PROVE  <<i, PersistRound(x, b[i], b)>> \in G
    <2> DEFINE t == b[i]
               y == MakeUTXOs(x, t)
               z == SpendUTXOs(y, t)
               D == E(i - 1)
               F == D \cup MadeBy(t)
    <2>1. i \in Nat /\ i - 1 \in Nat /\ t \in BlockTxs(b)
      BY <1>1
    <2>2. \A j \in 1 .. i - 1 : b[j] \in BlockTxs(b) /\ b[j] # t
      <3>1. \A j \in 1 .. i - 1 : j \in 1 .. n /\ j # i
        BY <1>1
      <3> QED
        BY <1>1, <1>2, <3>1
    <2>3. \A j : j \in 1 .. i <=> j \in 1 .. i - 1 \/ j = i
      BY <2>1
    <2>4. MadeUpto(b, i) = MadeUpto(b, i - 1) \cup MadeBy(t)
      BY <2>3 DEF MadeUpto
    <2>5. SpentUpto(b, i) = SpentUpto(b, i - 1) \cup Spends(t)
      BY <2>3 DEF SpentUpto
    <2> HIDE DEF t
    <2>6. D \cap MadeBy(t) = {} /\ Spends(t) \subseteq D
      <3>1. MadeBy(t) \cap MadeUpto(b, i - 1) = {}
        BY <1>4, <2>1, <2>2 DEF MadeUpto
      <3>2. Spends(t) \cap SpentUpto(b, i - 1) = {}
        BY <1>4, <2>1, <2>2 DEF SpentUpto
      <3> QED
        BY <1>3, <2>1, <3>1, <3>2
    <2>7. (D \cup MadeBy(t)) \ Spends(t) = E(i)
      <3>1. MadeBy(t) \cap SpentUpto(b, i - 1) = {}
        <4>1. ASSUME NEW j \in 1 .. i - 1
              PROVE  MadeBy(t) \cap Spends(b[j]) = {}
          BY <1>3, <2>1, <2>2
        <4> QED
          BY <4>1 DEF SpentUpto
      <3> QED
        BY <2>4, <2>5, <3>1
    <2> HIDE DEF E
    <2>8. <<x, D>> \in P
      BY <1>8
    <2>9. /\ t \in TxID /\ t \in T /\ SpendsWithin(t, Height)
          /\ ~IsCoinBaseTx(t) => IsInjective(Txn[t].Inputs)
      BY <1>3, <2>1
    <2>10. MakesWithin(P, T) /\ SpendsAccount(P, T)
      OBVIOUS
    <2> HIDE DEF D, T
    <2>11. <<y, D \cup MadeBy(t)>> \in P
      BY <2>6, <2>8, <2>9, <2>10, MakeUTXOsEffect
    <2>12. Spends(t) \subseteq F /\ <<y, F>> \in P
      BY <2>6, <2>11
    <2> HIDE DEF F, y
    <2>13. <<z, F \ Spends(t)>> \in P
      BY <2>9, <2>10, <2>12, SpendUTXOsEffect
    <2>14. <<z, E(i)>> \in P /\ z \in Handlers
      BY <2>7, <2>13 DEF F, Accounts
    <2>15. PersistRound(x, t, b) = z
      BY DEF PersistRound, y
    <2> HIDE DEF z
    <2>16. <<i, z>> \in G
      BY <2>1, <2>14
    <2> QED
      BY <2>15, <2>16 DEF t
  <1> HIDE DEF G
  <1>9. /\ PersistLoop!Fold(Begin, b, b) \in Handlers
        /\ <<n, PersistLoop!Fold(Begin, b, b)>> \in G
    <2>1. PersistLoop!Passes(Handlers, BlockTxs(b), b, b, G)
      BY <1>1, <1>5, <1>8 DEF PersistLoop!Passes, PersistLoop!Loops, n
    <2> QED
      BY <1>6, <1>7, <2>1, PersistLoop!FoldInvariant DEF n
  <1>10. persistUnspendUTXOs(b) = PersistLoop!Fold(Begin, b, b)
    BY LoopsAreFolds
  <1> QED
    BY <1>9, <1>10 DEF G, n

\* The accounts of a handler that has failed or whose lists match.
FitsP(hh, n) == {p \in Accounts : p[1].res = "ok" => Fits(p[1], p[2], hh, Int, hh, n)}

\* Every round of the persist handler that does not fail keeps the lists in
\* agreement with the outputs.
LEMMA PersistRoundsFit ==
  ASSUME Height \in Nat, NEW hh, NEW T \in SUBSET TxID, \A t \in T : SpendsWithin(t, Height),
         \A t \in T : hh[t] = Height + 1,
         \A t \in T : \A o \in Spends(t) : hh[o.TxID] = txHeight[o.TxID]
  PROVE  /\ MakesWithin(FitsP(hh, Height + 1), T)
         /\ SpendsAccount(FitsP(hh, Height + 1), T)
  <1> DEFINE n == Height + 1
             P == FitsP(hh, n)
  <1>1. \A t \in T : \A o \in MadeBy(t) : o \in Outs /\ o.TxID = t /\ t \in TxID
    BY MakesType
  <1>2. ASSUME NEW t \in T, NEW o \in MadeBy(t), NEW p \in P, o \notin p[2]
        PROVE  <<AppendUTXO(p[1], o, n, t), p[2] \cup {o}>> \in P
    <2> DEFINE x == p[1]
               D == p[2]
               y == AppendUTXO(x, o, n, t)
    <2>1. /\ x \in Handlers /\ D \in SUBSET Outs /\ p = <<x, D>>
          /\ x.res = "ok" => Fits(x, D, hh, Int, hh, n)
      BY DEF FitsP, Accounts
    <2>2. o \in Outs /\ o.TxID = t /\ t \in TxID /\ hh[o.TxID] = n /\ n \in Int /\ n \in 0 .. n
      BY <1>1
    <2>3. o \notin D
      BY <1>2
    <2> HIDE DEF x, D, n
    <2>4. /\ y \in Handlers /\ y.res = x.res
          /\ x.res = "ok" =>
               PutAt(y.lists, x.lists, UTXOKey(o, n),
                     Append(ListAt(x.lists, UTXOKey(o, n)), UTXO(o, t)))
      BY <2>1, <2>2, AppendEffect
    <2>5. Good(UTXO(o, t), UTXOKey(o, n), hh)
      BY <2>2, OutType DEF Good, UTXO
    <2> HIDE DEF y
    <2>6. ASSUME y.res = "ok"
          PROVE  Fits(y, D \cup {o}, hh, Int, hh, n)
      <3>1. /\ Matches(x.lists, D, hh, Int) /\ Sound(x.lists, hh, n)
            /\ PutAt(y.lists, x.lists, UTXOKey(o, n),
                     Append(ListAt(x.lists, UTXOKey(o, n)), UTXO(o, t)))
        BY <2>1, <2>4, <2>6 DEF Fits
      <3>2. x.lists \in UTXOLists
        BY <2>1 DEF Handlers
      <3>3. Matches(y.lists, D \cup {o}, hh, Int) /\ Sound(y.lists, hh, n)
        BY <2>2, <2>3, <2>5, <3>1, <3>2, AppendStep
      <3> QED
        BY <3>3 DEF Fits
    <2>7. <<y, D \cup {o}>> \in Accounts
      BY <2>1, <2>2, <2>4 DEF Accounts
    <2>8. <<y, D \cup {o}>> \in FitsP(hh, n)
      BY <2>6, <2>7 DEF FitsP
    <2> QED
      BY <2>8 DEF x, D, y
  <1>3. ASSUME NEW t \in T, NEW o \in Spends(t), NEW p \in P, o \in p[2]
        PROVE  <<SpendUTXO(p[1], o), p[2] \ {o}>> \in P
    <2> DEFINE x == p[1]
               D == p[2]
               y == SpendUTXO(x, o)
               h == txHeight[o.TxID]
               k == UTXOKey(o, h)
               l == ListAt(x.lists, k)
    <2>1. /\ x \in Handlers /\ D \in SUBSET Outs /\ p = <<x, D>>
          /\ x.res = "ok" => Fits(x, D, hh, Int, hh, n)
      BY DEF FitsP, Accounts
    <2>2. o \in Outs /\ h \in Int /\ h \in 0 .. n /\ hh[o.TxID] = h
      BY DEF SpendsWithin
    <2>3. o \in D
      BY <1>3
    <2> HIDE DEF x, D, n
    <2>4. /\ y \in Handlers
          /\ y.res = "ok" =>
               /\ x.res = "ok"
               /\ \E i \in 1 .. Len(l) :
                    /\ l[i].TxID = o.TxID
                    /\ l[i].Index = o.Index
                    /\ PutAt(y.lists, x.lists, k, Front(ReplaceAt(l, i, Last(l))))
      BY <2>1, <2>2, SpendEffect
    <2> HIDE DEF y
    <2>5. ASSUME y.res = "ok"
          PROVE  Fits(y, D \ {o}, hh, Int, hh, n)
      <3>1. PICK i \in 1 .. Len(l) :
              /\ l[i].TxID = o.TxID
              /\ l[i].Index = o.Index
              /\ PutAt(y.lists, x.lists, k, Front(ReplaceAt(l, i, Last(l))))
        BY <2>4, <2>5
      <3>2. Matches(x.lists, D, hh, Int) /\ Sound(x.lists, hh, n)
        BY <2>1, <2>4, <2>5 DEF Fits
      <3>3. k \in UTXOKeys /\ k[3] = h
        BY <2>2, OutType DEF UTXOKey
      <3>4. l[i].Value = OutputAt(o).Value
        <4>1. Good(l[i], k, hh)
          <5> HIDE DEF k
          <5> QED
            BY <3>2, <3>3 DEF Sound
        <4>2. hh[l[i].TxID] = k[3]
          BY <2>2, <3>1, <3>3
        <4>3. o = [TxID |-> l[i].TxID, Index |-> l[i].Index]
          BY <2>2, <3>1, OutType
        <4> HIDE DEF k, l
        <4> QED
          BY <4>1, <4>2, <4>3 DEF Good
      <3>5. x.lists \in UTXOLists
        BY <2>1 DEF Handlers
      <3> HIDE DEF h
      <3>6. Matches(y.lists, D \ {o}, hh, Int) /\ Sound(y.lists, hh, n)
        BY <2>2, <2>3, <3>1, <3>2, <3>4, <3>5, SwapStep
      <3> QED
        BY <3>6 DEF Fits
    <2>6. <<y, D \ {o}>> \in Accounts
      BY <2>1, <2>4 DEF Accounts
    <2>7. <<y, D \ {o}>> \in FitsP(hh, n)
      BY <2>5, <2>6 DEF FitsP
    <2> QED
      BY <2>7 DEF x, D, y
  <1>4. MakesWithin(P, T)
    BY <1>2 DEF MakesWithin
  <1>5. SpendsAccount(P, T)
    BY <1>3 DEF SpendsAccount
  <1> QED
    BY <1>4, <1>5

\* The transactions of the tip can be taken off the lists of the outputs of
\* U: what they made is there, what they consumed is not and was made below.
Reverts(b, U) ==
  /\ CheckBlockSanity(b)
  /\ \A t \in BlockTxs(b) :
       /\ t \in TxID
       /\ MadeBy(t) \subseteq U
       /\ Spends(t) \cap U = {}
       /\ SpendsWithin(t, Height - 1)

\* No round of the rollback handler fails, and each undoes a transaction.
LEMMA RollbackLoopEffect ==
  ASSUME Height \in Nat \ {0}, NEW b, b \in Seq(TxID), NEW U, NEW hh, NEW gg,
         Reverts(b, U),
         Begin \in Handlers, Fits(Begin, U, hh, Int \ {Height}, gg, Height),
         \A t \in BlockTxs(b) : hh[t] = Height /\ gg[t] = Absent,
         \A t \in BlockTxs(b) : \A o \in Spends(t) : hh[o.TxID] = txHeight[o.TxID]
  PROVE  /\ rollbackUnspendUTXOs(b) \in Handlers
         /\ rollbackUnspendUTXOs(b).res = "ok"
         /\ Fits(rollbackUnspendUTXOs(b), (U \ MadeUpto(b, Len(b))) \cup SpentUpto(b, Len(b)),
                 hh, Int \ {Height}, gg, Height)
  <1> DEFINE n == Len(b)
             X == Int \ {Height}
             E(i) == (U \ MadeUpto(b, i)) \cup SpentUpto(b, i)
             OK(i, x) == x.res = "ok" /\ Fits(x, E(i), hh, X, gg, Height)
             G == {p \in Nat \X Handlers : OK(p[1], p[2])}
  <1>1. /\ n \in Nat
        /\ \A i \in 1 .. n : b[i] \in TxID /\ b[i] \in BlockTxs(b)
        /\ b \in Seq(BlockTxs(b))
    BY DEF BlockTxs
  <1>2. \A i, j \in 1 .. n : b[i] = b[j] => i = j
    <2>1. DOMAIN b = 1 .. n
      BY <1>1
    <2> QED
      BY <2>1 DEF Reverts, CheckBlockSanity, IsInjective
  <1>3. ASSUME NEW t \in BlockTxs(b)
        PROVE  /\ t \in TxID /\ MadeBy(t) \subseteq U /\ Spends(t) \cap U = {}
               /\ SpendsWithin(t, Height - 1) /\ SpendsWithin(t, Height)
               /\ hh[t] = Height /\ gg[t] = Absent
               /\ \A o \in Spends(t) : hh[o.TxID] = txHeight[o.TxID]
               /\ ~IsCoinBaseTx(t) => IsInjective(Txn[t].Inputs)
    BY DEF Reverts, SpendsWithin, CheckBlockSanity
  <1>4. ASSUME NEW t \in BlockTxs(b), NEW r \in BlockTxs(b)
        PROVE  /\ Spends(t) \cap MadeBy(r) = {}
               /\ t # r => Spends(t) \cap Spends(r) = {} /\ MadeBy(t) \cap MadeBy(r) = {}
    <2>1. t # r => Spends(t) \cap Spends(r) = {}
      BY DEF Reverts, CheckBlockSanity
    <2>2. MadeBy(t) = {o \in Outs : o.TxID = t} /\ MadeBy(r) = {o \in Outs : o.TxID = r}
      BY <1>3, MakesType
    <2>3. ASSUME NEW o \in Spends(t), o \in MadeBy(r)
          PROVE  FALSE
      <3>1. hh[o.TxID] = Height
        BY <1>3, <2>2, <2>3
      <3>2. hh[o.TxID] \in 0 .. Height - 1
        BY <1>3 DEF SpendsWithin
      <3> QED
        BY <3>1, <3>2
    <2> QED
      BY <2>1, <2>2, <2>3
  <1>5. \A x \in Handlers, t \in BlockTxs(b) : RollbackRound(x, t, b) \in Handlers
    BY <1>3, RoundTypes DEF RollbackRound
  <1>6. <<0, Begin>> \in G
    <2>1. E(0) = U
      BY DEF MadeUpto, SpentUpto
    <2>2. OK(0, Begin)
      BY <2>1 DEF Begin
    <2> HIDE DEF OK
    <2> QED
      BY <2>2
  <1> HIDE DEF n
  <1>7. ASSUME NEW i \in 1 .. n, NEW x \in Handlers, <<i - 1, x>> \in G
        PROVE  <<i, RollbackRound(x, b[i], b)>> \in G
    <2> DEFINE t == b[i]
               y == UnmakeUTXOs(x, t)
               z == RestoreUTXOs(y, t)
               D == E(i - 1)
    <2>1. i \in Nat /\ i - 1 \in Nat /\ t \in BlockTxs(b)
      BY <1>1
    <2>2. \A j \in 1 .. i - 1 : b[j] \in BlockTxs(b) /\ b[j] # t
      <3>1. \A j \in 1 .. i - 1 : j \in 1 .. n /\ j # i
        BY <1>1
      <3> QED
        BY <1>1, <1>2, <3>1
    <2>3. \A j : j \in 1 .. i <=> j \in 1 .. i - 1 \/ j = i
      BY <2>1
    <2>4. MadeUpto(b, i) = MadeUpto(b, i - 1) \cup MadeBy(t)
      BY <2>3 DEF MadeUpto
    <2>5. SpentUpto(b, i) = SpentUpto(b, i - 1) \cup Spends(t)
      BY <2>3 DEF SpentUpto
    <2> HIDE DEF t
    <2>6. MadeBy(t) \subseteq D /\ Spends(t) \cap (D \ MadeBy(t)) = {}
      <3>1. MadeBy(t) \cap MadeUpto(b, i - 1) = {}
        BY <1>4, <2>1, <2>2 DEF MadeUpto
      <3>2. Spends(t) \cap SpentUpto(b, i - 1) = {}
        BY <1>4, <2>1, <2>2 DEF SpentUpto
      <3> QED
        BY <1>3, <2>1, <3>1, <3>2
    <2>7. (D \ MadeBy(t)) \cup Spends(t) = E(i)
      <3>1. MadeBy(t) \cap SpentUpto(b, i - 1) = {}
        <4>1. ASSUME NEW j \in 1 .. i - 1
              PROVE  MadeBy(t) \cap Spends(b[j]) = {}
          BY <1>4, <2>1, <2>2
        <4> QED
          BY <4>1 DEF SpentUpto
      <3>2. Spends(t) \cap MadeBy(t) = {}
        BY <1>4, <2>1
      <3> QED
        BY <2>4, <2>5, <3>1, <3>2
    <2> HIDE DEF E
    <2>8. x.res = "ok" /\ Fits(x, D, hh, X, gg, Height)
      BY <1>7
    <2>9. /\ t \in TxID /\ hh[t] = Height /\ gg[t] = Absent /\ SpendsWithin(t, Height)
          /\ Height \in Nat
          /\ \A o \in Spends(t) : hh[o.TxID] = txHeight[o.TxID]
          /\ ~IsCoinBaseTx(t) => IsInjective(Txn[t].Inputs)
      BY <1>3, <2>1
    <2> HIDE DEF D
    <2>10. /\ y \in Handlers /\ y.res = "ok"
           /\ Fits(y, D \ MadeBy(t), hh, X, gg, Height)
      BY <2>6, <2>8, <2>9, UnmakeUTXOsEffect
    <2> DEFINE F == D \ MadeBy(t)
    <2>11. Spends(t) \cap F = {}
      BY <2>6
    <2> HIDE DEF F, y, X
    <2>12. /\ z \in Handlers /\ z.res = "ok"
           /\ Fits(z, F \cup Spends(t), hh, X, gg, Height)
      BY <2>9, <2>10, <2>11, RestoreUTXOsEffect DEF F
    <2>13. OK(i, z)
      BY <2>7, <2>12 DEF F
    <2> HIDE DEF OK
    <2>14. RollbackRound(x, t, b) = z
      BY DEF RollbackRound, y
    <2> HIDE DEF z
    <2>15. <<i, z>> \in G
      BY <2>1, <2>12, <2>13
    <2> QED
      BY <2>14, <2>15 DEF t
  <1> HIDE DEF G
  <1>8. /\ RollbackLoop!Fold(Begin, b, b) \in Handlers
        /\ <<n, RollbackLoop!Fold(Begin, b, b)>> \in G
    <2>1. RollbackLoop!Passes(Handlers, BlockTxs(b), b, b, G)
      BY <1>1, <1>5, <1>7 DEF RollbackLoop!Passes, RollbackLoop!Loops, n
    <2> QED
      BY <1>6, <2>1, RollbackLoop!FoldInvariant DEF n
  <1>9. rollbackUnspendUTXOs(b) = RollbackLoop!Fold(Begin, b, b)
    BY LoopsAreFolds
  <1> QED
    BY <1>8, <1>9 DEF G, n

-----------------------------------------------------------------------------
(* The invariant.                                                          *)

(***************************************************************************)
(* The lists hold the unspent outputs, and no element that a rollback      *)
(* filed under the hash of a transaction that is persisted again can be    *)
(* taken for an output of it: the element's height is below.  The blocks   *)
(* of the chain passed the base library's checks when they were persisted. *)
(***************************************************************************)
UTXOInv ==
  /\ IInv
  /\ utxos \in UTXOLists
  /\ Matches(utxos, UnspentOutPoints, txHeight, Int)
  /\ Sound(utxos, txHeight, Height)
  /\ \A h \in 1 .. Height : CheckBlockSanity(chain[h])

\* The unspent outputs are those made and not consumed by the chain.
UnspentByChain ==
  UnspentOutPoints = {o \in Outs : o.TxID \in StoredTxs /\ o \notin SpentBy(StoredTxs)}

\* So says the exact index.
LEMMA UnspentOuts == TypeOK /\ UnspentIndexExact => UnspentByChain
  <1> SUFFICES ASSUME TypeOK, UnspentIndexExact PROVE UnspentByChain
    OBVIOUS
  <1>1. ASSUME NEW o \in UnspentOutPoints
        PROVE  o \in Outs /\ o.TxID \in StoredTxs /\ o \notin SpentBy(StoredTxs)
    <2>1. PICK t \in TxID : o \in {[TxID |-> t, Index |-> i] : i \in unspent[t]}
      BY DEF UnspentOutPoints
    <2>2. PICK i \in unspent[t] : o = [TxID |-> t, Index |-> i]
      BY <2>1
    <2>3. Stored(t) /\ i \in OutputIndexes(t) /\ o \notin SpentBy(StoredTxs)
      BY <2>2 DEF UnspentIndexExact
    <2>4. i \in Nat \ {0}
      BY <2>3, OutputIndexesType
    <2> QED
      BY <2>2, <2>3, <2>4 DEF Outs, OutPoint, StoredTxs
  <1>2. ASSUME NEW o \in Outs, o.TxID \in StoredTxs, o \notin SpentBy(StoredTxs)
        PROVE  o \in UnspentOutPoints
    <2>1. o.TxID \in TxID /\ o = [TxID |-> o.TxID, Index |-> o.Index]
      BY OutType
    <2>2. o.Index \in OutputIndexes(o.TxID) /\ Stored(o.TxID)
      BY <1>2 DEF Outs, StoredTxs
    <2> DEFINE t == o.TxID
               i == o.Index
    <2>3. o = [TxID |-> t, Index |-> i] /\ t \in TxID
      BY <2>1
    <2>4. i \in OutputIndexes(t) /\ Stored(t) /\ [TxID |-> t, Index |-> i] \notin SpentBy(StoredTxs)
      BY <1>2, <2>2, <2>3
    <2> HIDE DEF t, i
    <2>5. i \in unspent[t]
      BY <2>3, <2>4 DEF UnspentIndexExact
    <2> QED
      BY <2>3, <2>5 DEF UnspentOutPoints
  <1> QED
    BY <1>1, <1>2 DEF UnspentByChain

\* What all transactions of a block make and consume.
LEMMA BlockUnions ==
  ASSUME NEW b \in Blocks
  PROVE  /\ MadeUpto(b, Len(b)) = {o \in Outs : o.TxID \in BlockTxs(b)}
         /\ SpentUpto(b, Len(b)) = SpentBy(BlockTxs(b))
  <1>1. \A i \in 1 .. Len(b) : b[i] \in TxID
    BY BlockTxsType DEF BlockTxs
  <1>2. \A t \in TxID : MadeBy(t) = {o \in Outs : o.TxID = t}
    BY MakesType
  <1> QED
    BY <1>1, <1>2 DEF MadeUpto, SpentUpto, SpentBy, BlockTxs

\* Deleting the keys of empty lists does not change what the lists hold.
LEMMA DropEmpty ==
  ASSUME NEW lists \in UTXOLists
  PROVE  /\ PersistUnspentWithProgramHash(lists) \in UTXOLists
         /\ \A k : ListAt(PersistUnspentWithProgramHash(lists), k) = ListAt(lists, k)
  <1>1. PICK K \in SUBSET UTXOKeys : lists \in [K -> Seq(Elements)]
    BY DEF UTXOLists
  <1> DEFINE S == {k \in K : lists[k] # << >>}
             new == [k \in S |-> lists[k]]
  <1>2. PersistUnspentWithProgramHash(lists) = new
    BY <1>1 DEF PersistUnspentWithProgramHash, RestrictValues, Restrict
  <1>3. new \in [S -> Seq(Elements)] /\ S \in SUBSET UTXOKeys
    BY <1>1
  <1>4. \A k : ListAt(new, k) = ListAt(lists, k)
    BY <1>1 DEF ListAt
  <1>5. new \in UTXOLists
    <2> HIDE DEF new, S
    <2> QED
      BY <1>3 DEF UTXOLists
  <1> QED
    BY <1>2, <1>4, <1>5

\* Only the heights of the transactions whose outputs are compared matter.
LEMMA MatchesSame ==
  ASSUME NEW lists, NEW new, NEW D, NEW hh, NEW ff, NEW X,
         Matches(lists, D, hh, X), \A o \in D : ff[o.TxID] = hh[o.TxID],
         \A k \in UTXOKeys : ListAt(new, k) = ListAt(lists, k)
  PROVE  Matches(new, D, ff, X)
  <1>1. \A k \in UTXOKeys : \A P : Due(D, ff, k, P) = Due(D, hh, k, P)
    BY DEF Due
  <1>2. ASSUME NEW k \in UTXOKeys, NEW P \in SUBSET Shapes, k[3] \in X \/ P = Shapes
        PROVE  Agree(new, D, ff, k, P)
    <2>1. Agree(lists, D, hh, k, P)
      BY <1>2 DEF Matches
    <2> QED
      BY <1>1, <2>1 DEF Agree
  <1> QED
    BY <1>2 DEF Matches

\* The genesis database has no utxo list.
LEMMA InitUTXOInv ==
  ASSUME Init
  PROVE  UTXOInv
  <1>1. IInv
    BY InitIInv
  <1>2. utxos = << >> /\ Height = 0 /\ \A t \in TxID : unspent[t] = {}
    BY DEF Init, Height
  <1>3. utxos \in UTXOLists
    <2>1. utxos \in [{} -> Seq(Elements)]
      BY <1>2
    <2>2. {} \in SUBSET UTXOKeys
      OBVIOUS
    <2> QED
      BY <2>1, <2>2 DEF UTXOLists
  <1>4. \A k : ListAt(utxos, k) = << >>
    BY <1>2 DEF ListAt
  <1>5. UnspentOutPoints = {}
    BY <1>2 DEF UnspentOutPoints
  <1>6. Matches(utxos, {}, txHeight, Int)
    <2>1. IsFiniteSet({}) /\ Cardinality({}) = 0
      BY FS_EmptySet
    <2>2. \A k \in UTXOKeys : \A P : Filed(ListAt(utxos, k), P) = {} /\ Due({}, txHeight, k, P) = {}
      BY <1>4 DEF Filed, Due
    <2> QED
      BY <2>1, <2>2 DEF Matches, Agree
  <1>7. Sound(utxos, txHeight, Height)
    BY <1>4 DEF Sound
  <1> QED
    BY <1>1, <1>2, <1>3, <1>5, <1>6, <1>7 DEF UTXOInv

\* Persisting a checked block keeps the lists exact.
LEMMA PersistUTXOInv ==
  ASSUME UTXOInv, NEW b \in Blocks, PersistBlock(b)
  PROVE  UTXOInv'
  <1> DEFINE U == UnspentOutPoints
             T == BlockTxs(b)
             w == persistUnspendUTXOs(b)
  <1>1. IInv /\ IInv'
    BY StoreStep DEF UTXOInv, Next
  <1>2. /\ TypeOK /\ UnspentIndexExact /\ SpentOnce
        /\ TypeOK' /\ UnspentIndexExact'
    BY <1>1 DEF IInv
  <1>3. /\ Height \in Nat /\ Height' = Height + 1
        /\ T \subseteq TxID /\ T \cap StoredTxs = {} /\ StoredTxs' = StoredTxs \cup T
        /\ \A t \in T : txHeight'[t] = Height + 1
        /\ \A t \in TxID \ T : txHeight'[t] = txHeight[t]
    BY <1>2, PersistEffect
  <1>4. /\ chain' = Append(chain, b) /\ chain \in Seq(Blocks)
        /\ CheckBlockSanity(b) /\ w.res = "ok"
        /\ utxos' = PersistUnspentWithProgramHash(w.lists)
    BY <1>2 DEF PersistBlock, CheckedBlock, PersistSucceeds, TypeOK
  <1>5. U = {o \in Outs : o.TxID \in StoredTxs /\ o \notin SpentBy(StoredTxs)}
    BY <1>2, UnspentOuts DEF UnspentByChain
  <1>6. UnspentOutPoints' = {o \in Outs : o.TxID \in StoredTxs' /\ o \notin SpentBy(StoredTxs')}
    <2>1. UnspentByChain'
      BY <1>2, UnspentOuts, PTL
    <2> QED
      BY <2>1 DEF UnspentByChain, SpentBy
  <1>7. ASSUME NEW t \in T, NEW o \in Spends(t)
        PROVE  /\ o \in Outs /\ o.TxID \in StoredTxs /\ o.TxID \in TxID /\ o \in U
               /\ txHeight'[o.TxID] = txHeight[o.TxID] /\ txHeight[o.TxID] \in 0 .. Height
    <2>1. o.TxID \in StoredTxs /\ o.Index \in OutputIndexes(o.TxID) /\ o \notin SpentBy(StoredTxs)
      BY <1>2, CheckedInputs
    <2>2. o \in OutPoint /\ o.TxID \in TxID
      BY <1>3, SpendsType
    <2>3. txHeight[o.TxID] \in 0 .. Height
      BY <1>2, <1>3, <2>1, <2>2 DEF TypeOK, StoredTxs, Stored, Absent
    <2> QED
      BY <1>3, <1>5, <2>1, <2>2, <2>3 DEF Outs
  <1>8. \A t \in T : MadeBy(t) = {o \in Outs : o.TxID = t}
    BY <1>3, MakesType
  <1> HIDE DEF w
  <1>9. Applies(b, U, Height)
    <2>1. \A t \in T : Spends(t) \subseteq U /\ SpendsWithin(t, Height)
      BY <1>7 DEF SpendsWithin
    <2>2. \A t \in T : t \in TxID /\ MadeBy(t) \cap U = {}
      BY <1>3, <1>5, <1>8
    <2> HIDE DEF U
    <2> QED
      BY <1>4, <2>1, <2>2 DEF Applies
  <1>10. Begin \in Handlers /\ Begin.lists = utxos
    BY DEF Begin, Handlers, UTXOInv
  <1>11. Matches(utxos, U, txHeight', Int)
    <2>1. \A o \in U : txHeight'[o.TxID] = txHeight[o.TxID]
      BY <1>3, <1>5 DEF StoredTxs
    <2>2. Matches(utxos, U, txHeight, Int)
      BY DEF UTXOInv
    <2> HIDE DEF U
    <2> QED
      BY <2>1, <2>2, MatchesSame
  <1>12. Sound(utxos, txHeight', Height + 1)
    <2> SUFFICES ASSUME NEW k \in UTXOKeys, NEW i \in 1 .. Len(ListAt(utxos, k))
                 PROVE  k[3] \in 0 .. Height + 1 /\ Good(ListAt(utxos, k)[i], k, txHeight')
      BY DEF Sound
    <2> DEFINE l == ListAt(utxos, k)
               u == l[i]
    <2>1. k[3] \in 0 .. Height /\ Good(u, k, txHeight)
      BY DEF UTXOInv, Sound
    <2>2. l \in Seq(Elements)
      BY ListAtType DEF UTXOInv
    <2>3. u.TxID \in TxID
      <3>1. i \in 1 .. Len(l)
        OBVIOUS
      <3> HIDE DEF l
      <3>2. u \in Elements
        BY <2>2, <3>1
      <3> QED
        BY <3>2 DEF Elements
    <2> HIDE DEF l, u
    <2>4. Good(u, k, txHeight')
      <3>1. CASE u.TxID \in T
        <4>1. txHeight'[u.TxID] # k[3]
          BY <1>3, <2>1, <3>1
        <4> QED
          BY <4>1 DEF Good
      <3>2. CASE u.TxID \notin T
        <4>1. txHeight'[u.TxID] = txHeight[u.TxID]
          BY <1>3, <2>3, <3>2
        <4> QED
          BY <2>1, <4>1 DEF Good
      <3> QED
        BY <3>1, <3>2
    <2> QED
      BY <1>3, <2>1, <2>4 DEF l, u
  <1>13. Fits(Begin, U, txHeight', Int, txHeight', Height + 1)
    BY <1>10, <1>11, <1>12 DEF Fits
  <1>14. (U \cup MadeUpto(b, Len(b))) \ SpentUpto(b, Len(b)) = UnspentOutPoints'
    <2>1. /\ MadeUpto(b, Len(b)) = {o \in Outs : o.TxID \in T}
          /\ SpentUpto(b, Len(b)) = SpentBy(T)
      BY BlockUnions
    <2>2. SpentBy(StoredTxs') = SpentBy(StoredTxs) \cup SpentBy(T)
      BY <1>3 DEF SpentBy
    <2>3. ASSUME NEW o \in SpentBy(StoredTxs)
          PROVE  o.TxID \notin T
      <3>1. PICK t \in StoredTxs : o \in Spends(t)
        BY DEF SpentBy
      <3>2. o.TxID \in StoredTxs
        BY <1>2, <3>1 DEF SpentOnce
      <3> QED
        BY <1>3, <3>2
    <2> QED
      BY <1>3, <1>5, <1>6, <2>1, <2>2, <2>3
  <1> HIDE DEF U
  <1>15. b \in Seq(TxID)
    BY BlocksAssumption
  <1>16. /\ w \in Handlers
         /\ Fits(w, UnspentOutPoints', txHeight', Int, txHeight', Height + 1)
    <2> DEFINE P == FitsP(txHeight', Height + 1)
    <2>1. MakesWithin(P, T) /\ SpendsAccount(P, T)
      <3>1. \A t \in T : SpendsWithin(t, Height)
        BY <1>9 DEF Applies
      <3>2. \A t \in T : \A o \in Spends(t) : txHeight'[o.TxID] = txHeight[o.TxID]
        BY <1>7
      <3> HIDE DEF T
      <3> QED
        BY <1>3, <3>1, <3>2, PersistRoundsFit
    <2>2. <<Begin, U>> \in P /\ P \in SUBSET Accounts
      <3>1. U \in SUBSET Outs
        BY <1>5
      <3> QED
        BY <1>10, <1>13, <3>1 DEF FitsP, Accounts
    <2> HIDE DEF P
    <2>3. <<w, (U \cup MadeUpto(b, Len(b))) \ SpentUpto(b, Len(b))>> \in P
      BY <1>3, <1>9, <1>15, <2>1, <2>2, PersistLoopEffect DEF w
    <2>4. <<w, UnspentOutPoints'>> \in P
      BY <1>14, <2>3
    <2> QED
      BY <1>4, <2>4 DEF P, FitsP, Accounts
  <1>17. w.lists \in UTXOLists
    BY <1>16 DEF Handlers
  <1>18. utxos' \in UTXOLists /\ \A k : ListAt(utxos', k) = ListAt(w.lists, k)
    BY <1>4, <1>17, DropEmpty
  <1>19. Matches(utxos', UnspentOutPoints', txHeight', Int)
    BY <1>16, <1>18, MatchesSame DEF Fits
  <1>20. Sound(utxos', txHeight', Height')
    BY <1>3, <1>16, <1>18 DEF Fits, Sound
  <1>21. \A h \in 1 .. Height' : CheckBlockSanity(chain'[h])
    <2>1. \A h \in 1 .. Height : chain'[h] = chain[h] /\ CheckBlockSanity(chain[h])
      BY <1>3, <1>4 DEF UTXOInv, Height
    <2>2. chain'[Height + 1] = b
      BY <1>4 DEF Height
    <2>3. \A h \in 1 .. Height' : h \in 1 .. Height \/ h = Height + 1
      BY <1>3
    <2> HIDE DEF T
    <2> QED
      BY <1>4, <2>1, <2>2, <2>3
  <1> QED
    BY <1>1, <1>18, <1>19, <1>20, <1>21 DEF UTXOInv, Matches, Sound, Agree, Good, Height, CheckBlockSanity

\* The tip's transactions, its inputs and outputs, as the tables have them.
LEMMA TipFacts ==
  ASSUME UTXOInv, chain # << >>, NEW b, b = Last(chain)
  PROVE  /\ b \in Blocks /\ b \in Seq(TxID)
         /\ Height \in Nat \ {0}
         /\ BlockTxs(b) = {t \in TxID : txHeight[t] = Height}
         /\ \A t \in BlockTxs(b) : \A o \in Spends(t) :
              /\ o \in Outs /\ o.TxID \in TxID /\ o.TxID \in StoredTxs
              /\ txHeight[o.TxID] \in 0 .. Height - 1
         /\ Reverts(b, UnspentOutPoints)
  <1> USE DEF UTXOInv, IInv
  <1> DEFINE T == BlockTxs(b)
             U == UnspentOutPoints
  <1>1. chain \in Seq(Blocks) /\ Height \in Nat \ {0} /\ Height <= MaxHeight
    BY DEF TypeOK, Height
  <1>2. b = chain[Height] /\ b \in Blocks
    BY <1>1 DEF Last, Height
  <1>3. b \in Seq(TxID) /\ T \subseteq TxID
    BY <1>2, BlocksAssumption, BlockTxsType
  <1>4. T = {t \in TxID : txHeight[t] = Height}
    <2>1. Height \in 1 .. MaxHeight /\ Height \in 1 .. Height
      BY <1>1, MaxHeightAssumption
    <2>2. \A t \in TxID \ {ElaAssetId} : txHeight[t] = Height <=> t \in T
      <3>1. TxTableExact
        OBVIOUS
      <3> TAKE t \in TxID \ {ElaAssetId}
      <3>2. txHeight[t] = Height <=> Height <= Height /\ t \in BlockTxs(chain[Height])
        BY <2>1, <3>1 DEF TxTableExact
      <3> QED
        BY <1>1, <1>2, <3>2
    <2>3. ElaAssetId \notin T /\ txHeight[ElaAssetId] = 0
      BY <1>2, <2>1, GenesisAssumption DEF GenesisStored
    <2> QED
      BY <1>1, <1>3, <2>2, <2>3
  <1> HIDE DEF T, U
  <1>5. \A t \in T : t \in StoredTxs
    BY <1>1, <1>4 DEF StoredTxs, Stored, Absent
  <1>6. U = {o \in Outs : o.TxID \in StoredTxs /\ o \notin SpentBy(StoredTxs)}
    BY UnspentOuts DEF UnspentByChain, U
  <1>7. ASSUME NEW t \in T, NEW o \in Spends(t)
        PROVE  /\ o \in Outs /\ o.TxID \in TxID /\ o.TxID \in StoredTxs
               /\ txHeight[o.TxID] \in 0 .. Height - 1 /\ o \notin U
    <2>1. /\ o.TxID \in StoredTxs /\ txHeight[o.TxID] < txHeight[t]
          /\ o.Index \in OutputIndexes(o.TxID)
      BY <1>5 DEF SpentOnce
    <2>2. o \in OutPoint /\ o.TxID \in TxID /\ txHeight[t] = Height
      BY <1>4, SpendsType
    <2>3. txHeight[o.TxID] \in Absent .. Height /\ txHeight[o.TxID] # Absent
      BY <2>1, <2>2 DEF TypeOK, StoredTxs, Stored
    <2>4. txHeight[o.TxID] \in 0 .. Height - 1
      BY <1>1, <2>1, <2>2, <2>3 DEF Absent
    <2>5. o \in SpentBy(StoredTxs)
      BY <1>5 DEF SpentBy
    <2> QED
      BY <1>6, <2>1, <2>2, <2>4, <2>5 DEF Outs
  <1>8. ASSUME NEW t \in T
        PROVE  MadeBy(t) \subseteq U
    <2> SUFFICES ASSUME NEW o \in Outs, o.TxID = t, o \in SpentBy(StoredTxs)
                 PROVE  FALSE
      BY <1>3, <1>5, <1>6, MakesType DEF T
    <2>1. PICK r \in StoredTxs : o \in Spends(r)
      BY DEF SpentBy
    <2>2. txHeight[t] < txHeight[r] /\ txHeight[t] = Height
      BY <1>4, <2>1 DEF SpentOnce
    <2>3. txHeight[r] \in Absent .. Height
      BY <2>1 DEF TypeOK, StoredTxs
    <2> QED
      BY <1>1, <2>2, <2>3 DEF Absent
  <1>9. CheckBlockSanity(b)
    <2>1. Height \in 1 .. Height
      BY <1>1
    <2> QED
      BY <1>2, <2>1
  <1>10. Reverts(b, U)
    <2>1. \A t \in T : Spends(t) \cap U = {} /\ SpendsWithin(t, Height - 1)
      BY <1>7 DEF SpendsWithin
    <2>2. \A t \in T : t \in TxID
      BY <1>4
    <2> QED
      BY <1>8, <1>9, <2>1, <2>2 DEF Reverts, T
  <1> QED
    BY <1>1, <1>2, <1>3, <1>4, <1>7, <1>10 DEF T, U

\* The handler that rolls back the tip succeeds, whatever becomes of the
\* heights gg of the tip's transactions, and leaves the lists exact except
\* that those of the tip's height are empty.
LEMMA TipRollback ==
  ASSUME UTXOInv, chain # << >>, NEW b, b = Last(chain),
         NEW gg, \A t \in BlockTxs(b) : gg[t] = Absent,
         \A t \in TxID \ BlockTxs(b) : gg[t] = txHeight[t]
  PROVE  /\ rollbackUnspendUTXOs(b) \in Handlers
         /\ rollbackUnspendUTXOs(b).res = "ok"
         /\ Fits(rollbackUnspendUTXOs(b),
                 (UnspentOutPoints \ MadeUpto(b, Len(b))) \cup SpentUpto(b, Len(b)),
                 txHeight, Int \ {Height}, gg, Height)
  <1> DEFINE U == UnspentOutPoints
             T == BlockTxs(b)
  <1>1. /\ b \in Seq(TxID) /\ Height \in Nat \ {0} /\ Reverts(b, U)
        /\ \A t \in T : t \in TxID /\ txHeight[t] = Height
    BY TipFacts
  <1>2. Begin \in Handlers /\ Begin.lists = utxos
    BY DEF Begin, Handlers, UTXOInv
  <1>3. Matches(utxos, U, txHeight, Int \ {Height})
    BY DEF UTXOInv, Matches
  <1>4. Sound(utxos, gg, Height)
    <2> SUFFICES ASSUME NEW k \in UTXOKeys, NEW i \in 1 .. Len(ListAt(utxos, k))
                 PROVE  k[3] \in 0 .. Height /\ Good(ListAt(utxos, k)[i], k, gg)
      BY DEF Sound
    <2> DEFINE l == ListAt(utxos, k)
               u == l[i]
    <2>1. k[3] \in 0 .. Height /\ Good(u, k, txHeight)
      BY DEF UTXOInv, Sound
    <2>2. l \in Seq(Elements) /\ i \in 1 .. Len(l)
      BY ListAtType DEF UTXOInv
    <2> HIDE DEF l
    <2>3. u \in Elements
      BY <2>2
    <2> HIDE DEF u
    <2>4. u.TxID \in TxID
      BY <2>3 DEF Elements
    <2>5. Good(u, k, gg)
      <3>1. CASE u.TxID \in T
        <4>1. gg[u.TxID] # k[3]
          BY <2>1, <3>1 DEF Absent
        <4> QED
          BY <4>1 DEF Good
      <3>2. CASE u.TxID \notin T
        <4>1. gg[u.TxID] = txHeight[u.TxID]
          BY <2>4, <3>2
        <4> QED
          BY <2>1, <4>1 DEF Good
      <3> QED
        BY <3>1, <3>2
    <2> QED
      BY <2>1, <2>5 DEF l, u
  <1>5. Fits(Begin, U, txHeight, Int \ {Height}, gg, Height)
    BY <1>2, <1>3, <1>4 DEF Fits
  <1>6. \A t \in T : txHeight[t] = Height /\ gg[t] = Absent
    BY <1>1
  <1> HIDE DEF U
  <1>7. /\ rollbackUnspendUTXOs(b) \in Handlers
        /\ rollbackUnspendUTXOs(b).res = "ok"
        /\ Fits(rollbackUnspendUTXOs(b), (U \ MadeUpto(b, Len(b))) \cup SpentUpto(b, Len(b)),
                txHeight, Int \ {Height}, gg, Height)
    BY <1>1, <1>2, <1>5, <1>6, RollbackLoopEffect
  <1> QED
    BY <1>7 DEF U

\* A rollback keeps the lists exact.
LEMMA RollbackUTXOInv ==
  ASSUME UTXOInv, RollbackBlock
  PROVE  UTXOInv'
  <1> DEFINE b == Last(chain)
             T == BlockTxs(b)
             U == UnspentOutPoints
             w == rollbackUnspendUTXOs(b)
             D == (U \ MadeUpto(b, Len(b))) \cup SpentUpto(b, Len(b))
  <1>1. IInv /\ IInv'
    BY StoreStep DEF UTXOInv, Next
  <1>2. /\ TypeOK /\ TxTableExact /\ GenesisStored /\ UnspentIndexExact /\ SpentOnce
        /\ TypeOK' /\ UnspentIndexExact'
    BY <1>1 DEF IInv
  <1>3. /\ b \in Blocks /\ Height' = Height - 1
        /\ StoredTxs' = StoredTxs \ T /\ T \subseteq StoredTxs
        /\ T = {t \in TxID : txHeight[t] = Height}
        /\ \A h \in 1 .. Height - 1 : chain'[h] = chain[h]
        /\ \A t \in TxID \ T : txHeight'[t] = txHeight[t]
    BY <1>2, RollbackEffect
  <1>4. \A t \in T : txHeight'[t] = Absent
    BY <1>3 DEF RollbackBlock, rollbackTransactions
  <1>5. chain # << >> /\ utxos' = PersistUnspentWithProgramHash(w.lists)
    BY DEF RollbackBlock
  <1>6. Height \in Nat \ {0}
        /\ \A t \in T : \A o \in Spends(t) :
             /\ o \in Outs /\ o.TxID \in TxID /\ o.TxID \in StoredTxs
             /\ txHeight[o.TxID] \in 0 .. Height - 1
    BY <1>5, TipFacts
  <1>7. /\ w \in Handlers
        /\ Fits(w, D, txHeight, Int \ {Height}, txHeight', Height)
    BY <1>4, <1>3, <1>5, TipRollback
  <1>8. U = {o \in Outs : o.TxID \in StoredTxs /\ o \notin SpentBy(StoredTxs)}
    BY <1>2, UnspentOuts DEF UnspentByChain
  <1>9. UnspentOutPoints' = {o \in Outs : o.TxID \in StoredTxs' /\ o \notin SpentBy(StoredTxs')}
    <2>1. UnspentByChain'
      BY <1>2, UnspentOuts, PTL
    <2> QED
      BY <2>1 DEF UnspentByChain, SpentBy
  <1>10. D = UnspentOutPoints'
    <2>1. /\ MadeUpto(b, Len(b)) = {o \in Outs : o.TxID \in T}
          /\ SpentUpto(b, Len(b)) = SpentBy(T)
      BY <1>3, BlockUnions
    <2>2. SpentBy(StoredTxs) = SpentBy(StoredTxs') \cup SpentBy(T)
      BY <1>3 DEF SpentBy
    <2>3. ASSUME NEW o \in SpentBy(T)
          PROVE  o \in Outs /\ o.TxID \in StoredTxs' /\ o \notin SpentBy(StoredTxs')
      <3>1. PICK t \in T : o \in Spends(t)
        BY DEF SpentBy
      <3>2. o \in Outs /\ o.TxID \in StoredTxs /\ txHeight[o.TxID] \in 0 .. Height - 1
        BY <1>6, <3>1
      <3>3. o.TxID \notin T
        BY <1>3, <1>6, <3>2
      <3>4. \A s \in StoredTxs : o \in Spends(s) => s = t
        BY <1>2, <1>3, <3>1 DEF SpentOnce
      <3>5. o \notin SpentBy(StoredTxs')
        BY <1>3, <3>1, <3>4 DEF SpentBy
      <3> QED
        BY <1>3, <3>2, <3>3, <3>5
    <2>4. \A o : o \in D <=> \/ o \in U /\ ~(o \in Outs /\ o.TxID \in T)
                           \/ o \in SpentBy(T)
      <3> HIDE DEF b, T, U
      <3> QED
        BY <2>1
    <2> HIDE DEF b, T, D, U
    <2>5. \A o : o \in U <=> o \in Outs /\ o.TxID \in StoredTxs /\ o \notin SpentBy(StoredTxs)
      BY <1>8
    <2>6. \A o : o \in UnspentOutPoints' <=>
                  /\ o \in Outs /\ o.TxID \in StoredTxs /\ o.TxID \notin T
                  /\ o \notin SpentBy(StoredTxs')
      BY <1>3, <1>9
    <2>7. \A o : o \in SpentBy(StoredTxs) <=> o \in SpentBy(StoredTxs') \/ o \in SpentBy(T)
      BY <2>2
    <2>8. \A o \in SpentBy(T) : /\ o \in Outs /\ o.TxID \in StoredTxs /\ o.TxID \notin T
                               /\ o \notin SpentBy(StoredTxs')
      BY <1>3, <2>3
    <2> QED
      BY <2>4, <2>5, <2>6, <2>7, <2>8
  <1> HIDE DEF D, U, w
  <1>11. w.lists \in UTXOLists
    BY <1>7 DEF Handlers
  <1>12. utxos' \in UTXOLists /\ \A k : ListAt(utxos', k) = ListAt(w.lists, k)
    BY <1>5, <1>11, DropEmpty
  <1>13. \A o \in D : txHeight'[o.TxID] = txHeight[o.TxID] /\ txHeight[o.TxID] # Height
    <2>1. ASSUME NEW o \in D
          PROVE  o.TxID \in TxID \ T
      BY <1>3, <1>9, <1>10 DEF StoredTxs
    <2> QED
      BY <1>3, <2>1
  <1>14. Matches(utxos', D, txHeight', Int \ {Height})
    <2>1. Matches(w.lists, D, txHeight, Int \ {Height})
      BY <1>7 DEF Fits
    <2> QED
      BY <1>12, <1>13, <2>1, MatchesSame
  <1>15. ASSUME NEW k \in UTXOKeys, k[3] = Height
         PROVE  /\ ListAt(utxos', k) = << >>
                /\ \A P : Filed(ListAt(utxos', k), P) = {} /\ Due(D, txHeight', k, P) = {}
    <2>1. \A P : Due(D, txHeight', k, P) = {}
      BY <1>13, <1>15 DEF Due, UTXOKey
    <2>2. Cardinality(Filed(ListAt(utxos', k), Shapes)) = 0
      BY <1>14, <2>1, FS_EmptySet DEF Matches, Agree
    <2>3. ListAt(utxos', k) \in Seq(Elements)
      BY <1>12, ListAtType
    <2>4. Len(ListAt(utxos', k)) = 0
      BY <2>2, <2>3, FiledAll
    <2>5. ListAt(utxos', k) = << >>
      BY <2>3, <2>4
    <2> QED
      BY <2>1, <2>5 DEF Filed
  <1>16. Matches(utxos', D, txHeight', Int)
    <2>1. ASSUME NEW k \in UTXOKeys, NEW P \in SUBSET Shapes
          PROVE  Agree(utxos', D, txHeight', k, P)
      <3>1. CASE k[3] = Height
        BY <1>15, <3>1 DEF Agree
      <3>2. CASE k[3] # Height
        <4>1. k[3] \in Int \ {Height}
          BY <3>2 DEF UTXOKeys
        <4> QED
          BY <1>14, <4>1 DEF Matches
      <3> QED
        BY <3>1, <3>2
    <2> QED
      BY <1>14, <2>1 DEF Matches
  <1>17. Sound(utxos', txHeight', Height - 1)
    <2> SUFFICES ASSUME NEW k \in UTXOKeys, NEW i \in 1 .. Len(ListAt(utxos', k))
                 PROVE  k[3] \in 0 .. Height - 1 /\ Good(ListAt(utxos', k)[i], k, txHeight')
      BY DEF Sound
    <2>1. k[3] \in 0 .. Height /\ Good(ListAt(utxos', k)[i], k, txHeight')
      BY <1>7, <1>12 DEF Fits, Sound
    <2>2. k[3] # Height
      <3>1. SUFFICES ASSUME k[3] = Height PROVE FALSE
        OBVIOUS
      <3>2. ListAt(utxos', k) = << >>
        BY <1>15, <3>1
      <3> QED
        BY <3>2
    <2> QED
      BY <1>6, <2>1, <2>2
  <1>18. \A h \in 1 .. Height' : CheckBlockSanity(chain'[h])
    <2>1. \A h \in 1 .. Height - 1 : h \in 1 .. Height
      BY <1>6
    <2>2. \A h \in 1 .. Height : CheckBlockSanity(chain[h])
      BY DEF UTXOInv
    <2> QED
      BY <1>3, <2>1, <2>2
  <1>19. Matches(utxos', UnspentOutPoints', txHeight', Int) /\ Sound(utxos', txHeight', Height')
    BY <1>3, <1>10, <1>16, <1>17
  <1> QED
    BY <1>1, <1>12, <1>18, <1>19
    DEF UTXOInv, Matches, Sound, Agree, Good, Height, CheckBlockSanity

\* A step that changes no variable preserves the invariant.
LEMMA StutterUTXOInv ==
  ASSUME UTXOInv, UNCHANGED vars
  PROVE  UTXOInv'
  <1>1. IInv'
    BY StutterIInv DEF UTXOInv
  <1>2. /\ utxos' = utxos /\ txHeight' = txHeight /\ chain' = chain
        /\ Height' = Height /\ UnspentOutPoints' = UnspentOutPoints
    BY DEF vars, Height, UnspentOutPoints
  <1> QED
    BY <1>1, <1>2 DEF UTXOInv

\* Every behaviour of the store, reorganisations included, satisfies the
\* invariant of the lists.
THEOREM StoreUTXOInvariant == Spec => []UTXOInv
  <1>1. Init => UTXOInv
    BY InitUTXOInv
  <1>2. ASSUME UTXOInv, [Next]_vars
        PROVE  UTXOInv'
    <2>1. ASSUME NEW b \in Blocks, PersistBlock(b)
          PROVE  UTXOInv'
      BY <1>2, <2>1, PersistUTXOInv
    <2>2. CASE RollbackBlock
      BY <1>2, <2>2, RollbackUTXOInv
    <2>3. CASE UNCHANGED vars
      BY <1>2, <2>3, StutterUTXOInv
    <2> QED
      BY <1>2, <2>1, <2>2, <2>3 DEF Next
  <1> QED
    BY <1>1, <1>2, PTL DEF Spec

\* Whatever was persisted and rolled back before, the handler that rolls back
\* the tip's utxo lists neither fails nor indexes outside a list, although
\* rollbackUnspendUTXOs files what it gives back under the wrong hash.
THEOREM StoreTipRollsBack == Spec => []TipRollsBack
  <1>1. UTXOInv => TipRollsBack
    <2> SUFFICES ASSUME UTXOInv, chain # << >>
                 PROVE  rollbackUnspendUTXOs(Last(chain)).res = "ok"
      BY DEF TipRollsBack, RollbackSucceeds
    <2> DEFINE gg == [t \in TxID |-> IF t \in BlockTxs(Last(chain)) THEN Absent ELSE txHeight[t]]
    <2>1. \A t \in BlockTxs(Last(chain)) : t \in TxID
      BY TipFacts
    <2>2. /\ \A t \in BlockTxs(Last(chain)) : gg[t] = Absent
          /\ \A t \in TxID \ BlockTxs(Last(chain)) : gg[t] = txHeight[t]
      BY <2>1
    <2> HIDE DEF gg
    <2> QED
      BY <2>2, TipRollback
  <1> QED
    BY <1>1, StoreUTXOInvariant, PTL

\* The utxo lists hold the indexes and values of exactly the unspent outputs,
\* after every sequence of blocks persisted and rolled back: a balance that
\* is summed over the lists is right (persistUnspendUTXOs,
\* rollbackUnspendUTXOs, PersistUnspentWithProgramHash).
THEOREM StoreUTXOBalanceExact == Spec => []UTXOBalanceExact
  <1>1. UTXOInv => UTXOBalanceExact
    <2> SUFFICES ASSUME UTXOInv
                 PROVE  UTXOBalanceExact
      OBVIOUS
    <2> DEFINE U == UnspentOutPoints
               list(k) == IF k \in DOMAIN utxos THEN utxos[k] ELSE << >>
               outs(k) == {o \in U : UTXOKey(o, txHeight[o.TxID]) = k}
               IV(x) == <<x.Index, x.Value>>
    <2>1. U \subseteq Outs /\ \A o \in U : txHeight[o.TxID] \in Int
      <3>1. U = {o \in Outs : o.TxID \in StoredTxs /\ o \notin SpentBy(StoredTxs)}
        BY UnspentOuts DEF UnspentByChain, UTXOInv, IInv
      <3>2. txHeight \in [TxID -> Absent .. Height]
        BY DEF UTXOInv, IInv, TypeOK
      <3>3. \A t \in TxID : txHeight[t] \in Int
        BY <3>2
      <3>4. \A t \in StoredTxs : t \in TxID
        BY DEF StoredTxs
      <3> HIDE DEF U
      <3> QED
        BY <3>1, <3>3, <3>4
    <2>2. \A k \in DOMAIN utxos : k \in UTXOKeys
      BY DEF UTXOInv, UTXOLists
    <2>3. \A k : list(k) = ListAt(utxos, k) /\ list(k) \in Seq(Elements)
      BY ListAtType DEF ListAt, UTXOInv
    <2>4. \A o \in U : IV(UTXO(o, o.TxID)) = <<o.Index, OutputAt(o).Value>>
      BY DEF UTXO
    <2>5. ASSUME NEW k \in DOMAIN utxos \cup {UTXOKey(o, txHeight[o.TxID]) : o \in U},
                 NEW p \in {IV(UTXO(o, o.TxID)) : o \in outs(k)}
                             \cup {IV(list(k)[i]) : i \in DOMAIN list(k)}
          PROVE  Cardinality({i \in DOMAIN list(k) : IV(list(k)[i]) = p})
                   = Cardinality({o \in outs(k) : IV(UTXO(o, o.TxID)) = p})
      <3>1. k \in UTXOKeys
        BY <2>1, <2>2, OutType
      <3>2. p \in Shapes
        <4>1. \A o \in outs(k) : IV(UTXO(o, o.TxID)) \in Shapes
          BY <2>1, <2>4, OutType
        <4>2. \A i \in DOMAIN list(k) : IV(list(k)[i]) \in Shapes
          <5>1. \A u \in Elements : IV(u) \in Shapes
            BY DEF Shapes, Elements
          <5>2. \A i \in DOMAIN list(k) : list(k)[i] \in Elements
            <6> DEFINE l == list(k)
            <6>1. l \in Seq(Elements)
              BY <2>3
            <6> HIDE DEF l
            <6>2. \A i \in DOMAIN l : l[i] \in Elements
              BY <6>1
            <6> QED
              BY <6>2 DEF l
          <5> QED
            BY <5>1, <5>2
        <4> QED
          BY <4>1, <4>2
      <3>3. k[3] \in Int /\ {p} \in SUBSET Shapes
        BY <3>1, <3>2 DEF UTXOKeys
      <3>4. Agree(utxos, U, txHeight, k, {p})
        BY <3>1, <3>3 DEF UTXOInv, Matches
      <3>5. {i \in DOMAIN list(k) : IV(list(k)[i]) = p} = Filed(ListAt(utxos, k), {p})
        <4>1. DOMAIN list(k) = 1 .. Len(list(k))
          <5> HIDE DEF list
          <5> QED
            BY <2>3
        <4> HIDE DEF list
        <4> QED
          BY <2>3, <4>1 DEF Filed
      <3>6. {o \in outs(k) : IV(UTXO(o, o.TxID)) = p} = Due(U, txHeight, k, {p})
        BY <2>4 DEF Due
      <3> QED
        BY <3>4, <3>5, <3>6 DEF Agree
    <2> QED
      BY <2>5 DEF UTXOBalanceExact
  <1> QED
    BY <1>1, StoreUTXOInvariant, PTL

=============================================================================
