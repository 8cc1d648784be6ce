SPECIFICATION ValidatorSpec
CONSTANTS
  F = F  M = M  bogus = bogus
  ela = ela  cb1 = cb1  cb2 = cb2  cb3 = cb3  cb4 = cb4  cheat = cheat
  pay = pay  overpay = overpay  far = far
  regX = regX  split = split  short = short  regBad = regBad
  move = move  frac = frac  mint = mint  burn = burn  dust = dust
  rech = rech  withdraw = withdraw
  X = X  Y = Y  Z = Z  none = none  m = m
  TxID <- MCTxID
  AssetID = {ela, X, Y, Z, none}
  ProgramHash = {F, M, bogus}
  MainchainTx = {m}
  ElaAssetId = ela
  AssetName <- MCAssetName
  Txn <- MCTxn
  Blocks <- MCBlocks
  MaxHeight = 4
  Foundation = F
  EmptyHash = none
  ValidAddress = {F, M}
  WellNamed = {X}
  AssetPrecision <- MCAssetPrecision
  MinPrecision = 0
  ElaDigits = 1
  TokenDigits = 3
  CoinbaseMaturity = 1
  MinTransactionFee = 1
  MinCrossChainTxFee = 2
  MinRegisterAssetTxFee = 5
  Int64Half = 1000
  Uint32Size = 256
INVARIANTS
  
  
  
  MovedAmountsPrecise
  
