------------------------ MODULE MCTokenChainStore ------------------------
(***************************************************************************)
(* A small instance of the store: three coinbases, each with two outputs   *)
(* in one list; two transactions that consume the same output, one with    *)
(* two inputs; a spend of a spend; two registrations of assets with the    *)
(* same name, one of the same asset and one of an asset named ELA; a       *)
(* transfer of a token; and two recharges of the same main chain           *)
(* transaction.                                                            *)
(***************************************************************************)
EXTENDS TokenChainStore

CONSTANTS A, B,                            \* addresses
          ela,                             \* the genesis transaction, ELA
          cb1, cb2, cb3,                   \* coinbases
          pay, join, again,                \* transfers of ELA
          regX, regX2, regY, regE, move,   \* registrations, transfer of X
          rech1, rech2,                    \* recharges of m
          X, Y, E, m                       \* assets; a main chain hash

Ref(t, i) == [TxID |-> t, Index |-> i]

Out(p, a, v) == [ProgramHash |-> p, AssetID |-> a, Value |-> v]

Tx(type, ins, outs) ==
  [TxType |-> type, Inputs |-> ins, Outputs |-> outs, LockTime |-> 0,
   RegisteredAsset |-> X, Amount |-> 1, Controller |-> A, MainchainTx |-> m]

CoinBase == Tx("CoinBase", << >>, <<Out(A, ela, 3), Out(A, ela, 7)>>)

MCTxn ==
     ela   :> [Tx("RegisterAsset", << >>, << >>) EXCEPT !.RegisteredAsset = E]
  @@ cb1   :> CoinBase
  @@ cb2   :> CoinBase
  @@ cb3   :> CoinBase
  @@ pay   :> Tx("TransferAsset", <<Ref(cb1, 2)>>, <<Out(A, ela, 3), Out(B, ela, 2)>>)
  @@ join  :> Tx("TransferAsset", <<Ref(cb1, 1), Ref(cb1, 2)>>, <<Out(B, ela, 9)>>)
  @@ again :> Tx("TransferAsset", <<Ref(pay, 1), Ref(cb2, 1)>>, <<Out(A, ela, 5)>>)
  @@ regX  :> Tx("RegisterAsset", <<Ref(cb1, 1)>>, <<Out(B, ela, 1), Out(A, X, 5)>>)
  @@ regX2 :> Tx("RegisterAsset", <<Ref(cb2, 2)>>, <<Out(A, X, 5)>>)
  @@ regY  :> [Tx("RegisterAsset", <<Ref(cb2, 1)>>, <<Out(A, Y, 4)>>)
                 EXCEPT !.RegisteredAsset = Y]
  @@ regE  :> [Tx("RegisterAsset", <<Ref(cb1, 1)>>, <<Out(A, E, 4)>>)
                 EXCEPT !.RegisteredAsset = E]
  @@ move  :> Tx("TransferAsset", <<Ref(regX, 2)>>, <<Out(A, X, 2), Out(B, X, 3)>>)
  @@ rech1 :> Tx("RechargeToSideChain", << >>, <<Out(B, ela, 6)>>)
  @@ rech2 :> Tx("RechargeToSideChain", << >>, <<Out(B, ela, 6)>>)

MCTxID == DOMAIN MCTxn

MCAssetName == ela :> "ELA" @@ E :> "ELA" @@ X :> "foo" @@ Y :> "foo"

\* A coinbase followed by at most two other transactions.
MCBlocks ==
  {<<c>> \o s : c \in {cb1, cb2, cb3},
                s \in {s \in SeqOf(MCTxID \ {ela, cb1, cb2, cb3}, 2) : IsInjective(s)}}
=============================================================================
