CONSTANTS
  w1 = w1
  w2 = w2
  treasury = treasury
  reserve = reserve
  h1 = h1
  h2 = h2
  noHash = noHash
  Wallets <- TwoWallets
  Treasury = treasury
  Reserve = reserve
  NoHash = noHash
  Rank <- Order
  Hashes <- OneHash
  Trimmed <- Exact
  MinFee = 1
  MinSessions = 2
  MaxMempool = 2
  Amounts <- One
  Fees <- One
  Times <- TwoTimes
  Now = 1
  GenesisAnts <- Four
  GenesisSessions <- OnlyFirst
  Web2Ledgers <- SecondJoins
  Ops <- FundsOps
  MaxBlocks = 1
  MaxQueue = 2
  MaxMint = 4
SPECIFICATION Spec
VIEW WithoutHistory
INVARIANTS
  TypeOK
  ActivatedBounded
PROPERTIES
  OnlyTakersLeaveShort
CHECK_DEADLOCK FALSE
