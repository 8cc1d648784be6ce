SPECIFICATION StartupSpec
CONSTANTS
  NoFile = NoFile
  Unreadable = Unreadable
  Files <- MCFiles
  Addresses <- MCAddresses
  SpvDefaults <- MCSpvDefaults
INVARIANTS
  LateUsersAbandoned
  ReturnStopsAll
  
PROPERTIES
  InterruptEnds
CHECK_DEADLOCK FALSE
