SPECIFICATION FilterSpec
CONSTANTS
  A = A  B = B
  ela = ela  cb = cb  regX = regX  pay = pay  move = move  back = back
  X = X  m = m
  TxID <- MCTxID
  AssetID = {ela, X}
  ProgramHash = {A, B}
  MainchainTx = {m}
  ElaAssetId = ela
  AssetName <- MCAssetName
  Txn <- MCTxn
  Element <- MCElement
  Loads <- MCLoads
INVARIANTS
  FilterHolds
PROPERTIES
  MissesOnlySpentRegistrations
CHECK_DEADLOCK FALSE
