CONSTANTS
  miner = miner
  stranger = stranger
  Wallets <- TwoWallets
  Listed <- OnlyMiner
  Requests <- SomeRequests
  MaxAge = 2
  MaxLate = 0
  MaxTrouble = 1
SPECIFICATION FairSpec
INVARIANTS
  RecordedInTurn
  RepeatsBounded
PROPERTIES
  DroppedOnlyIfListed
  ProofsRunOut
