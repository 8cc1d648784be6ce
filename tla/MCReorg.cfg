SPECIFICATION Spec
CONSTANTS
  A = A  B = B
  ela = ela  cb1 = cb1  cb2 = cb2  cb3 = cb3
  pay = pay  join = join  again = again
  regX = regX  regX2 = regX2  regY = regY  regE = regE  move = move
  rech1 = rech1  rech2 = rech2
  X = X  Y = Y  E = E  m = m
  TxID <- MCTxID
  AssetID = {ela, X, Y, E}
  ProgramHash = {A, B}
  MainchainTx = {m}
  ElaAssetId = ela
  AssetName <- MCAssetName
  Txn <- MCTxn
  Blocks <- MCBlocks
  MaxHeight = 3
INVARIANTS
  TypeOK
  TxTableExact
  SpentOnce
  UnspentIndexExact
  RestoredIsSpent
  AssetTableExact
  MainchainTxsExact
  UTXOBalanceExact
  TipRollsBack
PROPERTY
  ImplementsLedger
