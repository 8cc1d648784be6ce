-------------------------- MODULE TokenChainStore --------------------------
(***************************************************************************)
(* The token chain's database (src/blockchain/chainstore.go).              *)
(*                                                                         *)
(* The base store (Elastos.ELA.SideChain/blockchain.ChainStore) persists   *)
(* or rolls back one block at a time: it runs the registered handlers in   *)
(* order, each of which reads the committed database and writes to one     *)
(* batch, and commits the batch if none of them fails.  So the handlers    *)
(* are operators on the committed state, a failing handler leaves every    *)
(* table as it was, and a block is persisted or rolled back in one step.   *)
(* A crash loses the batch and nothing else.                               *)
(*                                                                         *)
(* Absent records are Absent, {} or a missing key, as each table deletes   *)
(* a record when its list becomes empty.                                   *)
(***************************************************************************)
EXTENDS Transactions, SequencesExt

CONSTANTS
  Blocks,      \* the blocks that may reach the store: sequences of hashes
  MaxHeight    \* bound on the height of the chain

ASSUME BlocksAssumption == Blocks \subseteq Seq(TxID)
ASSUME MaxHeightAssumption == MaxHeight \in Nat

VARIABLES
  chain,         \* the blocks above genesis, lowest first
  txHeight,      \* DATA_Transaction: height of the block that holds t
  unspent,       \* IX_Unspent: unspent[t], the unspent output indexes of t
  utxos,         \* IX_Unspent_UTXO: (address, asset, height) -> list of utxo
  assets,        \* ST_Info: assets[a], the height at which a was registered
  mainchainTxs   \* the main chain transactions already recharged

indexVars == <<chain, txHeight, unspent, assets, mainchainTxs>>
vars == <<chain, txHeight, unspent, utxos, assets, mainchainTxs>>

Absent == -1

Height == Len(chain)

BlockTxs(b) == {b[i] : i \in 1 .. Len(b)}

\* The outputs consumed by the transactions of T.
SpentBy(T) == UNION {Spends(t) : t \in T}

-----------------------------------------------------------------------------
(* Reading the database.                                                   *)

\* GetTransaction(t) returns no error.
Stored(t) == txHeight[t] # Absent

StoredTxs == {t \in TxID : Stored(t)}

\* The key of the list that holds the utxo of output o made at height h.
UTXOKey(o, h) == <<OutputAt(o).ProgramHash, OutputAt(o).AssetID, h>>

\* The element stored for output o under the transaction hash id.
UTXO(o, id) == [TxID |-> id, Index |-> o.Index, Value |-> OutputAt(o).Value]

-----------------------------------------------------------------------------
(***************************************************************************)
(* IX_Unspent_UTXO.  A handler works on unspendUTXOs, a map of the lists   *)
(* it has touched, loaded on first use.  Here w.lists is that map laid     *)
(* over the database, so that reading a key loads it; w.res tells whether  *)
(* the handler goes on ("ok"), has returned an error ("err") or has        *)
(* indexed outside a list ("panic").                                       *)
(***************************************************************************)
Begin == [res |-> "ok", lists |-> utxos]

Fail(w, res) == [w EXCEPT !.res = res]

\* Append the utxo of o, made at height h, under the hash id; a list that
\* cannot be read starts empty.
AppendUTXO(w, o, h, id) ==
  LET key == UTXOKey(o, h)
      list == IF key \in DOMAIN w.lists THEN w.lists[key] ELSE << >>
  IN  IF w.res # "ok"
      THEN w
      ELSE [w EXCEPT !.lists = [k \in {key} \cup DOMAIN @ |->
              IF k = key THEN Append(list, UTXO(o, id)) ELSE @[k]]]

\* Mutant of Find: the index is not compared.
FindIgnoresIndex(list, o) == SelectInSeq(list, LAMBDA u : u.TxID = o.TxID)

\* Position of the utxo named o in a list, 0 if it is not there.
Find(list, o) ==
  SelectInSeq(list, LAMBDA u : u.TxID = o.TxID /\ u.Index = o.Index)

\* Mutant of SpendUTXO: the list is cut at the element instead of losing it.
SpendUTXOTruncates(w, o) ==
  LET k == UTXOKey(o, txHeight[o.TxID])
      i == Find(w.lists[k], o)
  IN  IF w.res # "ok" \/ k \notin DOMAIN w.lists \/ i = 0
      THEN Fail(w, "err")
      ELSE [w EXCEPT !.lists[k] = SubSeq(@, 1, i - 1)]

\* Remove the utxo that input o refers to: its place is taken by the last
\* element of the list.  The list must exist and must hold the utxo.
SpendUTXO(w, o) ==
  LET k == UTXOKey(o, txHeight[o.TxID])
      list == w.lists[k]
      i == Find(list, o)
  IN  IF w.res # "ok"
      THEN w
      ELSE IF ~Stored(o.TxID) \/ k \notin DOMAIN w.lists
      THEN Fail(w, "err")
      ELSE IF i = 0
      THEN Fail(w, "err")
      ELSE [w EXCEPT !.lists[k] = Front(ReplaceAt(list, i, Last(list)))]

\* Remove the utxo of output o, made at height h.  The list must exist, but
\* when it does not hold the utxo its first element is removed instead.
UnmakeUTXO(w, o, h) ==
  LET k == UTXOKey(o, h)
      list == w.lists[k]
      i == Find(list, o)
  IN  IF w.res # "ok"
      THEN w
      ELSE IF k \notin DOMAIN w.lists
      THEN Fail(w, "err")
      ELSE IF list = << >>
      THEN Fail(w, "panic")
      ELSE [w EXCEPT !.lists[k] = RemoveAt(list, IF i = 0 THEN 1 ELSE i)]

\* Mutant of RestoreUTXO: the output is filed under the height of the block
\* that is rolled back.
RestoreUTXOAtTip(w, o, t) ==
  IF w.res = "ok" /\ ~Stored(o.TxID)
  THEN Fail(w, "err")
  ELSE AppendUTXO(w, o, Height, t)

\* Give back the output o that transaction t had consumed.  The element is
\* filed under the hash of t, not of the transaction that made the output.
RestoreUTXO(w, o, t) ==
  IF w.res = "ok" /\ ~Stored(o.TxID)
  THEN Fail(w, "err")
  ELSE AppendUTXO(w, o, txHeight[o.TxID], t)

\* The two loops of the persist handler over one transaction, and of the
\* rollback handler: outputs come first in both.
MakeUTXOs(w, t) ==
  FoldLeft(LAMBDA x, o : AppendUTXO(x, o, Height + 1, t), w, Makes(t))

SpendUTXOs(w, t) ==
  IF IsCoinBaseTx(t) THEN w ELSE FoldLeft(SpendUTXO, w, Txn[t].Inputs)

UnmakeUTXOs(w, t) ==
  FoldLeft(LAMBDA x, o : UnmakeUTXO(x, o, Height), w, Makes(t))

RestoreUTXOs(w, t) ==
  IF IsCoinBaseTx(t)
  THEN w
  ELSE FoldLeft(LAMBDA x, o : RestoreUTXO(x, o, t), w, Txn[t].Inputs)

persistUnspendUTXOs(b) ==
  FoldLeft(LAMBDA w, t : SpendUTXOs(MakeUTXOs(w, t), t), Begin, b)

rollbackUnspendUTXOs(b) ==
  FoldLeft(LAMBDA w, t : RestoreUTXOs(UnmakeUTXOs(w, t), t), Begin, b)

\* PersistUnspentWithProgramHash deletes the key of an empty list.
PersistUnspentWithProgramHash(lists) ==
  RestrictValues(lists, LAMBDA list : list # << >>)

-----------------------------------------------------------------------------
(***************************************************************************)
(* IX_Unspent.  The order of a list of indexes is of no consequence and is *)
(* left out; that no index is ever listed twice is RestoredIsSpent below.  *)
(***************************************************************************)

\* Indexes of t that a transaction of block b consumes.
SpentIndexes(b, t) == {o.Index : o \in {p \in SpentBy(BlockTxs(b)) : p.TxID = t}}

\* An input whose transaction has no list, neither in the database nor made
\* so far by the block itself, makes the handler fail.
persistUnspendFails(b) ==
  \E i \in 1 .. Len(b) : \E o \in Spends(b[i]) :
    /\ unspent[o.TxID] = {}
    /\ ~\E j \in 1 .. i : b[j] = o.TxID /\ Txn[b[j]].Outputs # << >>

\* Mutant of persistUnspend: only the first input of a transaction is removed.
persistUnspendFirstInput(b) ==
  [t \in TxID |->
     (IF t \in BlockTxs(b) THEN OutputIndexes(t) ELSE unspent[t])
       \ {o.Index : o \in {Head(Txn[s].Inputs) :
             s \in {u \in BlockTxs(b) : Spends(u) # {} /\ Head(Txn[u].Inputs).TxID = t}}}]

persistUnspend(b) ==
  [t \in TxID |->
     (IF t \in BlockTxs(b) THEN OutputIndexes(t) ELSE unspent[t])
       \ SpentIndexes(b, t)]

\* Mutant of rollbackUnspend: the lists of the block's own transactions stay.
rollbackUnspendKeepsOwn(b) ==
  [t \in TxID |-> unspent[t] \cup SpentIndexes(b, t)]

\* The batch deletes the lists of the block's own transactions first and
\* puts the lists of the transactions they spend from last.
rollbackUnspend(b) ==
  [t \in TxID |->
     IF SpentIndexes(b, t) # {} THEN unspent[t] \cup SpentIndexes(b, t)
     ELSE IF t \in BlockTxs(b) THEN {}
     ELSE unspent[t]]

-----------------------------------------------------------------------------
(* Transactions, assets and recharged main chain transactions.             *)

RegisteredBy(T) == {AssetOf(t) : t \in {s \in T : IsRegisterAssetTx(s)}}

RechargedBy(T) == {Txn[t].MainchainTx : t \in {s \in T : IsRechargeToSideChainTx(s)}}

\* PersistAsset refuses an asset named ELA.
PersistAssetFails(b) ==
  \E t \in BlockTxs(b) : IsRegisterAssetTx(t) /\ AssetName[AssetOf(t)] = "ELA"

\* Mutant of persistTransactions: the height of the block's parent is stored.
persistTransactionsAtParent(b, h) ==
  /\ txHeight' = [t \in TxID |-> IF t \in BlockTxs(b) THEN h - 1 ELSE txHeight[t]]
  /\ assets' = [a \in AssetID |->
                  IF a \in RegisteredBy(BlockTxs(b)) THEN h - 1 ELSE assets[a]]
  /\ mainchainTxs' = mainchainTxs \cup RechargedBy(BlockTxs(b))

\* Mutant of persistTransactions: main chain transactions are not recorded.
persistTransactionsForgetsMainchain(b, h) ==
  /\ txHeight' = [t \in TxID |-> IF t \in BlockTxs(b) THEN h ELSE txHeight[t]]
  /\ assets' = [a \in AssetID |->
                  IF a \in RegisteredBy(BlockTxs(b)) THEN h ELSE assets[a]]
  /\ UNCHANGED mainchainTxs

persistTransactions(b, h) ==
  /\ txHeight' = [t \in TxID |-> IF t \in BlockTxs(b) THEN h ELSE txHeight[t]]
  /\ assets' = [a \in AssetID |->
                  IF a \in RegisteredBy(BlockTxs(b)) THEN h ELSE assets[a]]
  /\ mainchainTxs' = mainchainTxs \cup RechargedBy(BlockTxs(b))

\* Mutants of rollbackTransactions: only the coinbase is removed; the assets
\* stay; the main chain transactions stay.
rollbackTransactionsCoinBaseOnly(b) ==
  /\ txHeight' = [txHeight EXCEPT ![b[1]] = Absent]
  /\ UNCHANGED <<assets, mainchainTxs>>

rollbackTransactionsKeepsAssets(b) ==
  /\ txHeight' = [t \in TxID |->
                    IF t \in BlockTxs(b) THEN Absent ELSE txHeight[t]]
  /\ mainchainTxs' = mainchainTxs \ RechargedBy(BlockTxs(b))
  /\ UNCHANGED assets

rollbackTransactionsKeepsMainchain(b) ==
  /\ txHeight' = [t \in TxID |->
                    IF t \in BlockTxs(b) THEN Absent ELSE txHeight[t]]
  /\ assets' = [a \in AssetID |->
                  IF a \in RegisteredBy(BlockTxs(b)) THEN Absent ELSE assets[a]]
  /\ UNCHANGED mainchainTxs

rollbackTransactions(b) ==
  /\ txHeight' = [t \in TxID |->
                    IF t \in BlockTxs(b) THEN Absent ELSE txHeight[t]]
  /\ assets' = [a \in AssetID |->
                  IF a \in RegisteredBy(BlockTxs(b)) THEN Absent ELSE assets[a]]
  /\ mainchainTxs' = mainchainTxs \ RechargedBy(BlockTxs(b))

-----------------------------------------------------------------------------
(***************************************************************************)
(* What the chain has established of a block before the store sees it: the *)
(* base library's block checks, and for every transaction the checks that  *)
(* main.go hands to the chain as CheckTxSanity and CheckTxContext.  Only   *)
(* the checks against the tables of this module are kept; each reads the   *)
(* committed tables, none sees the other transactions of the block.        *)
(***************************************************************************)

\* Base library: hashes, inputs and recharges are unique within the block.
CheckBlockSanity(b) ==
  /\ IsInjective(b)
  /\ \A t \in BlockTxs(b) : ~IsCoinBaseTx(t) => IsInjective(Txn[t].Inputs)
  /\ \A s, t \in BlockTxs(b) :
       s # t => /\ Spends(s) \cap Spends(t) = {}
                /\ IsRechargeToSideChainTx(s) /\ IsRechargeToSideChainTx(t)
                     => Txn[s].MainchainTx # Txn[t].MainchainTx

\* Base library: t is new, its inputs are unspent (IsDoubleSpend reads
\* IX_Unspent) and its main chain transaction has not been recharged.
CheckTxContext(t) ==
  /\ ~Stored(t)
  /\ \A o \in Spends(t) : o.Index \in unspent[o.TxID]
  /\ IsRechargeToSideChainTx(t) => Txn[t].MainchainTx \notin mainchainTxs

\* Mutant of AssetNameIsNew: only the name of ELA is refused.
AssetNameIsNotEla(t) ==
  IsRegisterAssetTx(t) => AssetName[AssetOf(t)] # "ELA"

\* The name of the asset differs from the names of all registered assets.
AssetNameIsNew(t) ==
  IsRegisterAssetTx(t) =>
    \A a \in AssetID : assets[a] # Absent => AssetName[a] # AssetName[AssetOf(t)]

CheckedBlock(b) ==
  /\ \A t \in BlockTxs(b) : CheckTxContext(t) /\ AssetNameIsNew(t)
  /\ CheckBlockSanity(b)

-----------------------------------------------------------------------------
\* A new database holds the genesis block, which registers ELA.
Init ==
  /\ chain = << >>
  /\ txHeight = [t \in TxID |-> IF t = ElaAssetId THEN 0 ELSE Absent]
  /\ unspent = [t \in TxID |-> {}]
  /\ utxos = << >>
  /\ assets = [a \in AssetID |-> IF a = ElaAssetId THEN 0 ELSE Absent]
  /\ mainchainTxs = {}

\* No handler of block b returns an error or panics.
PersistSucceeds(b) ==
  /\ persistUnspendUTXOs(b).res = "ok"
  /\ ~PersistAssetFails(b)
  /\ ~persistUnspendFails(b)

PersistBlock(b) ==
  /\ Height < MaxHeight
  /\ CheckedBlock(b)
  /\ PersistSucceeds(b)
  /\ utxos' = PersistUnspentWithProgramHash(persistUnspendUTXOs(b).lists)
  /\ persistTransactions(b, Height + 1)
  /\ unspent' = persistUnspend(b)
  /\ chain' = Append(chain, b)

RollbackSucceeds(b) == rollbackUnspendUTXOs(b).res = "ok"

\* A reorganisation rolls the chain back one block at a time.
RollbackBlock ==
  /\ chain # << >>
  /\ LET b == Last(chain)
     IN  /\ RollbackSucceeds(b)
         /\ utxos' = PersistUnspentWithProgramHash(rollbackUnspendUTXOs(b).lists)
         /\ rollbackTransactions(b)
         /\ unspent' = rollbackUnspend(b)
  /\ chain' = Front(chain)

Next == (\E b \in Blocks : PersistBlock(b)) \/ RollbackBlock

Spec == Init /\ [][Next]_vars

\* The store of a chain that is only ever extended.
SpecNoReorg == Init /\ [][\E b \in Blocks : PersistBlock(b)]_vars

-----------------------------------------------------------------------------
(* Properties.                                                             *)

\* Every table but the utxo lists has its type: heights are those of blocks
\* of the chain, and only outputs that exist are listed as unspent.
TypeOK ==
  /\ chain \in Seq(Blocks)
  /\ Height <= MaxHeight
  /\ txHeight \in [TxID -> Absent .. Height]
  /\ unspent \in [TxID -> SUBSET (Nat \ {0})]
  /\ \A t \in TxID : unspent[t] \subseteq OutputIndexes(t)
  /\ assets \in [AssetID -> Absent .. Height]
  /\ mainchainTxs \subseteq MainchainTx

\* The transactions that the chain holds, genesis included.
ChainTxs == {ElaAssetId} \cup UNION {BlockTxs(chain[h]) : h \in 1 .. Height}

\* DATA_Transaction answers for exactly the transactions of the chain, each
\* with the height of its block, however blocks were persisted and rolled
\* back (persistTransactions, rollbackTransactions).
TxTableExact ==
  \A t \in TxID \ {ElaAssetId} : \A h \in 1 .. MaxHeight :
    txHeight[t] = h <=> h <= Height /\ t \in BlockTxs(chain[h])

\* No output is consumed by two transactions of the chain, and an input
\* refers to an output of a strictly earlier block.
SpentOnce ==
  \A t \in StoredTxs : \A o \in Spends(t) :
    /\ o.TxID \in StoredTxs
    /\ txHeight[o.TxID] < txHeight[t]
    /\ o.Index \in OutputIndexes(o.TxID)
    /\ \A s \in StoredTxs : o \in Spends(s) => s = t

\* IX_Unspent lists an output if and only if its transaction is in the chain
\* and no transaction of the chain consumes it: a rollback gives back what
\* the block had consumed and drops what it had made.
UnspentIndexExact ==
  \A t \in TxID :
    unspent[t] = IF Stored(t)
                 THEN {i \in OutputIndexes(t) :
                         [TxID |-> t, Index |-> i] \notin SpentBy(StoredTxs)}
                 ELSE {}

\* Rolling back a block never gives back an index that is already listed, so
\* the append without a check in rollbackUnspend makes no duplicate.
RestoredIsSpent ==
  chain # << >> =>
    \A o \in SpentBy(BlockTxs(Last(chain))) : o.Index \notin unspent[o.TxID]

\* An asset is on record if and only if a transaction of the chain registers
\* it, with the height of that block: no rollback of one registration drops
\* the record of another (PersistAsset, RollbackAsset).
AssetTableExact ==
  \A a \in AssetID :
    LET R == {t \in StoredTxs : IsRegisterAssetTx(t) /\ AssetOf(t) = a}
    IN  IF R = {} THEN assets[a] = Absent
                  ELSE \A t \in R : assets[a] = txHeight[t]

\* A main chain transaction is on record if and only if the chain recharges
\* it, and no two transactions of the chain recharge the same one.
MainchainTxsExact ==
  /\ mainchainTxs = RechargedBy(StoredTxs)
  /\ \A s, t \in {u \in StoredTxs : IsRechargeToSideChainTx(u)} :
       Txn[s].MainchainTx = Txn[t].MainchainTx => s = t

\* The unspent outputs, by the exact index.
UnspentOutPoints ==
  UNION {{[TxID |-> t, Index |-> i] : i \in unspent[t]} : t \in TxID}

\* Each utxo list holds the indexes and values of exactly the unspent outputs
\* of its address, asset and height, so that a balance summed over the lists
\* is right, after rollbacks too (the hash stored in an element aside).
UTXOBalanceExact ==
  \A k \in DOMAIN utxos \cup {UTXOKey(o, txHeight[o.TxID]) : o \in UnspentOutPoints} :
    LET list == IF k \in DOMAIN utxos THEN utxos[k] ELSE << >>
        outs == {o \in UnspentOutPoints : UTXOKey(o, txHeight[o.TxID]) = k}
        IV(x) == <<x.Index, x.Value>>
    IN  \A p \in {IV(UTXO(o, o.TxID)) : o \in outs} \cup {IV(list[i]) : i \in DOMAIN list} :
          Cardinality({i \in DOMAIN list : IV(list[i]) = p})
            = Cardinality({o \in outs : IV(UTXO(o, o.TxID)) = p})

\* Every utxo list is non-empty and every element of it names an unspent
\* output of that address, asset and height, with its value.
UTXOEntriesGenuine ==
  \A k \in DOMAIN utxos :
    /\ utxos[k] # << >>
    /\ \A i \in DOMAIN utxos[k] :
         LET u == utxos[k][i]
             o == [TxID |-> u.TxID, Index |-> u.Index]
         IN  /\ o \in UnspentOutPoints
             /\ k = UTXOKey(o, txHeight[o.TxID])
             /\ u = UTXO(o, o.TxID)

\* A block that passed validation is persisted: no handler finds a list or an
\* index missing.
CheckedBlockPersists == \A b \in Blocks : CheckedBlock(b) => PersistSucceeds(b)

\* The tip can be rolled back: no handler fails or indexes outside a list.
TipRollsBack == chain # << >> => RollbackSucceeds(Last(chain))

\* Two registered assets never have the same name.
AssetNamesUnique ==
  \A a, c \in AssetID :
    assets[a] # Absent /\ assets[c] # Absent /\ AssetName[a] = AssetName[c] => a = c

-----------------------------------------------------------------------------
L == INSTANCE Ledger

\* The tables make up a ledger: every step of the store is one that a ledger
\* whose only state is the chain would take, so no table, whatever was rolled
\* back before, lets a block in that spends, recharges or registers what the
\* chain says it must not.
ImplementsLedger == L!Spec
=============================================================================
