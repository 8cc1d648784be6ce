---------------------------- MODULE MCTokenNode ----------------------------
(***************************************************************************)
(* A small node.  ELA enters by recharges only, so the first block brings  *)
(* some in and later ones spend it.  There is a coinbase for each height   *)
(* and each reward that the fees below can add up to.                      *)
(***************************************************************************)
EXTENDS TokenNode

CONSTANTS F, M, ela,
          rech2, pay, regX, regY, reap, dust, late, big,
          X, Y, Z, m1, m2, none,
          Chosen,       \* the transactions of this instance
          MaxPicked     \* bound on the transactions of a block

Ref(t, i) == [TxID |-> t, Index |-> i]

Out(p, a, v) == [ProgramHash |-> p, AssetID |-> a, Value |-> v]

Tx(type, ins, outs) ==
  [TxType |-> type, Inputs |-> ins, Outputs |-> outs, LockTime |-> 0,
   RegisteredAsset |-> X, Amount |-> 1, Controller |-> M, MainchainTx |-> m1]

\* The coinbases: <<height, reward>>.
MCCoinBases == (1 .. MaxHeight) \X (0 .. 10)

MCCoinBase(c) ==
  [Tx("CoinBase", << >>, CoinbaseOutputs(c[2])) EXCEPT !.LockTime = c[1]]

\* pay and regY compete for the first output of rech2, regX, dust, late and big
\* for the second; regX and regY register different assets under one name; reap
\* spends the coinbase of a first block with rech2; dust has an output of the
\* asset that regY registers, late is locked until block 4, and big does not
\* fit a block.
MCRegulars ==
     ela   :> [Tx("RegisterAsset", << >>, << >>) EXCEPT !.RegisteredAsset = Z]
  @@ rech2 :> [Tx("RechargeToSideChain", << >>, <<Out(F, ela, 9), Out(F, ela, 5)>>)
                 EXCEPT !.MainchainTx = m2]
  @@ pay   :> Tx("TransferAsset", <<Ref(rech2, 1)>>, <<Out(F, ela, 6)>>)
  @@ regX  :> Tx("RegisterAsset", <<Ref(rech2, 2)>>, <<Out(M, ela, 1), Out(M, X, 10)>>)
  @@ regY  :> [Tx("RegisterAsset", <<Ref(rech2, 1)>>, <<Out(M, ela, 4), Out(M, Y, 10)>>)
                 EXCEPT !.RegisteredAsset = Y]
  @@ reap  :> Tx("TransferAsset", <<Ref(<<1, 2>>, 2)>>, <<Out(M, ela, 1)>>)
  @@ dust  :> Tx("TransferAsset", <<Ref(rech2, 2)>>, <<Out(F, ela, 4), Out(F, Y, 0)>>)
  @@ late  :> [Tx("TransferAsset", <<Ref(rech2, 2)>>, <<Out(F, ela, 0)>>)
                 EXCEPT !.LockTime = 3]
  @@ big   :> Tx("TransferAsset", <<Ref(rech2, 2)>>, <<Out(F, ela, 0)>>)

MCTxID == Chosen \cup {ela} \cup MCCoinBases

MCTxn == [t \in MCTxID |-> IF t \in MCCoinBases THEN MCCoinBase(t) ELSE MCRegulars[t]]

\* regX and regY register assets of the same name.
MCAssetName == [a \in {ela, X, Y, Z, none} |-> IF a \in {ela, Z} THEN "ELA" ELSE "x"]

MCAssetPrecision == [a \in {ela, X, Y, Z, none} |-> IF a = ela THEN 0 ELSE 1]

MCTxSize == [t \in MCTxID |-> CASE t = big -> 4 [] t = regX -> 3 [] OTHER -> 1]

MCRechargeFee == [t \in MCTxID |-> IF t = rech2 THEN 2 ELSE 0]

\* What other nodes mine: a recharge, the second registration, or nothing.
MCNetBlocks ==
  {<<<<h, 0>>>> : h \in {MaxHeight}}
    \cup {<<<<h, 2>>, rech2>> : h \in 1 .. 2}
    \cup {<<<<h, 5>>, regY>> : h \in IF regY \in Chosen THEN {2} ELSE {}}

MCBlocks ==
  {<<c>> \o s : c \in MCCoinBases, s \in {s \in SeqOf(Chosen, MaxPicked) : IsInjective(s)}}
    \cup MCNetBlocks
=============================================================================
