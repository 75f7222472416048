CONSTANTS
  boot1 = boot1
  boot2 = boot2
  miner = miner
  legacy = legacy
  secp = secp
  NoRows = noRows
  Addresses <- Wallets
  Rank <- Order
  Bootstrap <- TwoSeats
  Miners <- TwoMiners
  Moves <- OneMove
  MinSessions = 1
  MaxValidators = 2
  Quorum = 2
  Ops <- EveryOp
  MaxSessions = 2
  MaxTrouble = 1
SPECIFICATION FairSpec
INVARIANTS
  NeverVacant
PROPERTIES
  OrganicFirst
  RetiredBySync
  SunsetHolds
  SeatsCatchUp
