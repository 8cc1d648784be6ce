SPECIFICATION CodecSpec
CONSTANTS
  Base = 4
  MaxTokenValueDataSize = 2
  Wires <- MCWires
  Registrations <- MCRegistrations
  MaxTxs = 2
INVARIANTS
  TransactionsReadBack
  RecordsReadBack
CHECK_DEADLOCK FALSE
