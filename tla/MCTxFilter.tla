----------------------------- MODULE MCTxFilter -----------------------------
(***************************************************************************)
(* A light client that may watch two addresses and an output; a coinbase,  *)
(* a registration with an ELA and a token output, and transactions that    *)
(* spend an output of each and of one another.                             *)
(***************************************************************************)
EXTENDS TxFilter, TLC

CONSTANTS A, B, ela, cb, regX, pay, move, back, X, m

Ref(t, i) == [TxID |-> t, Index |-> i]

Out(p, a, v) == [ProgramHash |-> p, AssetID |-> a, Value |-> v]

Tx(type, ins, outs) ==
  [TxType |-> type, Inputs |-> ins, Outputs |-> outs, LockTime |-> 0,
   RegisteredAsset |-> X, Amount |-> 1, Controller |-> A, MainchainTx |-> m]

MCTxn ==
     ela  :> Tx("RegisterAsset", << >>, << >>)
  @@ cb   :> Tx("CoinBase", << >>, <<Out(A, ela, 3), Out(B, ela, 7)>>)
  @@ regX :> Tx("RegisterAsset", <<Ref(cb, 2)>>, <<Out(B, ela, 1), Out(A, X, 5)>>)
  @@ pay  :> Tx("TransferAsset", <<Ref(cb, 1)>>, <<Out(B, ela, 2)>>)
  @@ move :> Tx("TransferAsset", <<Ref(regX, 2)>>, <<Out(B, X, 5)>>)
  @@ back :> Tx("TransferAsset", <<Ref(pay, 1), Ref(move, 1)>>, <<Out(A, ela, 1), Out(A, X, 5)>>)

MCTxID == DOMAIN MCTxn

MCAssetName == ela :> "ELA" @@ X :> "foo"

MCLoads == {{}, {A}, {B, Ref(regX, 2)}}

MCElement == {A, B, Ref(regX, 2)}
=============================================================================
