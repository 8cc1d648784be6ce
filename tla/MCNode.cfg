SPECIFICATION NodeSpec
CONSTANTS
  F = F  M = M  ela = ela
  rech2 = rech2  pay = pay  regX = regX  regY = regY
  reap = reap  dust = dust  late = late  big = big
  X = X  Y = Y  Z = Z  m1 = m1  m2 = m2  none = none
  MaxPicked = 2
  TxID <- MCTxID
  AssetID = {ela, X, Y, Z, none}
  ProgramHash = {F, M}
  MainchainTx = {m1, m2}
  ElaAssetId = ela
  AssetName <- MCAssetName
  Txn <- MCTxn
  Blocks <- MCBlocks
  NetBlocks <- MCNetBlocks
  Foundation = F
  Miner = M
  EmptyHash = none
  ValidAddress = {F, M}
  WellNamed = {X, Y}
  AssetPrecision <- MCAssetPrecision
  MinPrecision = 0
  ElaDigits = 0
  TokenDigits = 1
  CoinbaseMaturity = 1
  MinTransactionFee = 1
  MinCrossChainTxFee = 2
  MinRegisterAssetTxFee = 4
  Int64Half = 1000
  Uint32Size = 256
  TxSize <- MCTxSize
  CoinBaseSize = 1
  MaxBlockSize = 4
  MaxTxPerBlock = 3
  RechargeFee <- MCRechargeFee
  Chosen = {rech2, pay, regY, reap, dust, late}
  MaxHeight = 3
INVARIANTS
  PoolUnspent
  
  
PROPERTIES
  TakesSpendable
  ImplementsTxLife
