---------------------------- MODULE Transactions ----------------------------
(***************************************************************************)
(* The transactions of the token side chain, as the code under src/ sees   *)
(* them.  A transaction is identified by its hash, an asset by its asset   *)
(* id; both hashes are taken to be injective, so Txn maps a hash to the    *)
(* one transaction that has it.  The transaction type itself lives in the  *)
(* base library (Elastos.ELA.SideChain/types): only the fields that the    *)
(* token chain reads are kept.                                             *)
(*                                                                         *)
(* Indexes are counted from 1 (the code counts outputs from 0).            *)
(***************************************************************************)
EXTENDS Integers, Sequences

CONSTANTS
  TxID,          \* the transaction hashes
  AssetID,       \* the asset ids: ELA and the tokens
  ProgramHash,   \* the addresses
  MainchainTx,   \* hashes of main chain transactions
  ElaAssetId,    \* hash of the genesis transaction, also the asset id of ELA
  AssetName,     \* AssetName[a]: the Name field of asset a
  Txn            \* Txn[t]: the transaction whose hash is t

TxTypes == {"CoinBase", "RegisterAsset", "TransferAsset",
            "Record", "RechargeToSideChain", "TransferCrossChainAsset"}

OutPoint == [TxID : TxID, Index : Nat \ {0}]

\* Value is the field that serializeOutput keeps: Value of an ELA output, an
\* int64, and TokenValue, which is never negative, of any other.  The other of
\* the two fields is zero in every output that was read from bytes.
Output == [ProgramHash : ProgramHash, AssetID : AssetID, Value : Int]

(***************************************************************************)
(* The payload is flattened: RegisteredAsset is Payload.Asset.Hash() of a  *)
(* RegisterAsset transaction, Amount and Controller are its other fields;  *)
(* MainchainTx is the hash that GetMainchainTxHash returns for a           *)
(* RechargeToSideChain transaction.                                        *)
(***************************************************************************)
Transaction ==
  [TxType : TxTypes, Inputs : Seq(OutPoint), Outputs : Seq(Output),
   LockTime : Nat,
   RegisteredAsset : AssetID, Amount : Int, Controller : ProgramHash,
   MainchainTx : MainchainTx]

ASSUME TxnAssumption == Txn \in [TxID -> Transaction]

\* The genesis transaction registers ELA and has neither inputs nor outputs.
ASSUME GenesisAssumption ==
  /\ ElaAssetId \in TxID \cap AssetID
  /\ Txn[ElaAssetId].TxType = "RegisterAsset"
  /\ Txn[ElaAssetId].Inputs = << >>
  /\ Txn[ElaAssetId].Outputs = << >>
  /\ \A t \in TxID \ {ElaAssetId} :
       Txn[t].TxType = "RegisterAsset" => Txn[t].RegisteredAsset # ElaAssetId

IsCoinBaseTx(t) == Txn[t].TxType = "CoinBase"

IsRegisterAssetTx(t) == Txn[t].TxType = "RegisterAsset"

IsRechargeToSideChainTx(t) == Txn[t].TxType = "RechargeToSideChain"

\* The indexes of the outputs of t.
OutputIndexes(t) == 1 .. Len(Txn[t].Outputs)

\* The outputs that t makes, in order.
Makes(t) == [i \in OutputIndexes(t) |-> [TxID |-> t, Index |-> i]]

\* The outputs that t consumes; the input of a coinbase refers to nothing.
Spends(t) ==
  IF IsCoinBaseTx(t)
  THEN {}
  ELSE {Txn[t].Inputs[i] : i \in 1 .. Len(Txn[t].Inputs)}

\* The output that an input refers to: referTxn.Outputs[index].
OutputAt(o) == Txn[o.TxID].Outputs[o.Index]

\* The asset under which PersistAsset files the registration made by t:
\* Payload.Asset.Hash(), except for the genesis transaction, whose own hash
\* is the id of ELA.
AssetOf(t) == IF t = ElaAssetId THEN t ELSE Txn[t].RegisteredAsset
=============================================================================
