SPECIFICATION ServiceSpec
CONSTANTS
  A = A  B = B
  ela = ela  cb1 = cb1  cb2 = cb2  cb3 = cb3
  pay = pay  join = join  again = again
  regX = regX  regX2 = regX2  regY = regY  regE = regE  move = move
  rech1 = rech1  rech2 = rech2
  X = X  Y = Y  E = E  m = m
  TxID <- MCTxID
  AssetID = {ela, X, Y, E}
  ProgramHash = {A, B}
  MainchainTx = {m}
  ElaAssetId = ela
  AssetName <- MCAssetName
  Txn <- MCTxn
  Blocks <- MCServeReorgBlocks
  MaxHeight = 3
  bad = bad
  Requests <- MCServeReorgRequests
  BadAddress = bad
  AssetUnit <- MCAssetUnit
  Uint32Size = 256
INVARIANT
  ReceivedIsBalance
