--------------------------- MODULE MCValidator ---------------------------
(***************************************************************************)
(* A small instance of the checks: one coinbase for each height, one that  *)
(* cheats the foundation, and transactions that pass all checks next to    *)
(* ones that fail a single check each.  A coinbase matures after one       *)
(* block, so block 3 is the first that can spend one, and block 4 the      *)
(* first that can move a token registered in block 3.                      *)
(***************************************************************************)
EXTENDS Validator

CONSTANTS F, M, bogus,                       \* addresses, one of them invalid
          ela,
          cb1, cb2, cb3, cb4, cheat,         \* coinbases
          pay, overpay, far,                 \* transfers of ELA
          regX, split, short, regBad,        \* registrations
          move, frac, mint, burn, dust,      \* transfers of tokens
          rech, withdraw,                    \* cross chain transfers
          X, Y, Z, none, m

Ref(t, i) == [TxID |-> t, Index |-> i]

Out(p, a, v) == [ProgramHash |-> p, AssetID |-> a, Value |-> v]

Tx(type, ins, outs) ==
  [TxType |-> type, Inputs |-> ins, Outputs |-> outs, LockTime |-> 0,
   RegisteredAsset |-> X, Amount |-> 1, Controller |-> M, MainchainTx |-> m]

CoinBase(h, f) ==
  [Tx("CoinBase", << >>, <<Out(F, ela, f), Out(M, ela, 10 - f)>>) EXCEPT !.LockTime = h]

Fee == Ref(cb2, 2)

MCTxn ==
     ela   :> [Tx("RegisterAsset", << >>, << >>) EXCEPT !.RegisteredAsset = Z]
  @@ cb1   :> CoinBase(1, 3)
  @@ cb2   :> CoinBase(2, 3)
  @@ cb3   :> CoinBase(3, 3)
  @@ cb4   :> CoinBase(4, 3)
  @@ cheat :> CoinBase(2, 2)
  @@ pay   :> Tx("TransferAsset", <<Ref(cb1, 1)>>, <<Out(F, ela, 2)>>)
  @@ overpay :> Tx("TransferAsset", <<Ref(cb1, 1)>>, <<Out(F, ela, 3)>>)
  @@ far   :> Tx("TransferAsset", <<Ref(cb1, 1)>>, <<Out(bogus, ela, 2)>>)
  @@ regX  :> Tx("RegisterAsset", <<Ref(cb1, 2)>>, <<Out(M, ela, 2), Out(M, X, 1000)>>)
  @@ split :> Tx("RegisterAsset", <<Ref(cb1, 2)>>, <<Out(M, X, 600), Out(F, X, 400)>>)
  @@ short :> Tx("RegisterAsset", <<Ref(cb1, 2)>>, <<Out(M, X, 900)>>)
  @@ regBad :> [Tx("RegisterAsset", <<Ref(cb1, 2)>>, <<Out(M, Y, 1000)>>)
                  EXCEPT !.RegisteredAsset = Y]
  @@ move  :> Tx("TransferAsset", <<Ref(regX, 2), Fee>>,
                 <<Out(F, X, 600), Out(M, X, 400), Out(M, ela, 6)>>)
  @@ frac  :> Tx("TransferAsset", <<Ref(regX, 2), Fee>>,
                 <<Out(F, X, 550), Out(M, X, 450)>>)
  @@ mint  :> Tx("TransferAsset", <<Ref(regX, 2), Fee>>,
                 <<Out(F, X, 600), Out(M, X, 500)>>)
  @@ burn  :> Tx("TransferAsset", <<Ref(regX, 2), Fee>>, <<Out(F, X, 600)>>)
  @@ dust  :> Tx("TransferAsset", <<Ref(cb1, 2)>>, <<Out(M, ela, 6), Out(M, Y, 0)>>)
  @@ rech  :> Tx("RechargeToSideChain", << >>, <<Out(F, ela, 6)>>)
  @@ withdraw :> Tx("TransferCrossChainAsset", <<Ref(cb1, 2)>>, <<Out(F, ela, 5)>>)

MCTxID == DOMAIN MCTxn

MCAssetName == [a \in {ela, X, Y, Z, none} |->
                  CASE a \in {ela, Z} -> "ELA" [] a = X -> "x" [] OTHER -> "y"]

\* One unit is 10 base units of ELA and 1000 of a token; X has one digit.
MCAssetPrecision == [a \in {ela, X, Y, Z, none} |-> 1]

Passing == {pay, regX, move, rech, withdraw}

Refused == {overpay, far, split, short, regBad, frac, mint, burn, dust}

\* A coinbase followed by at most two transactions that can pass the checks,
\* or by one that cannot.
MCBlocks ==
  {<<c>> \o s : c \in {cb1, cb2, cb3, cb4, cheat},
                s \in {s \in SeqOf(Passing, 2) : IsInjective(s)} \cup {<<t>> : t \in Refused}}
=============================================================================
