CONSTANTS
  w1 = w1
  w2 = w2
  treasury = treasury
  reserve = reserve
  h1 = h1
  h2 = h2
  noHash = noHash
  Wallets <- TwoWallets
  Treasury = treasury
  Reserve = reserve
  NoHash = noHash
  Rank <- Order
  Hashes <- TwoHashes
  Trimmed <- Exact
  MinFee = 3
  MinSessions = 2
  MaxMempool = 2
  Amounts <- One
  Fees <- Three
  Times <- OneTime
  Now = 1
  GenesisAnts <- RichAndLeft
  GenesisSessions <- OnlyFirst
  Web2Ledgers <- PoolLedgers
  Ops <- PoolOps
  MaxBlocks = 2
  MaxQueue = 2
  MaxMint = 0
SPECIFICATION Spec
SYMMETRY HashSymmetry
INVARIANTS
  BridgeCreditOnce
  ExemptionSurvives
  HistoryRebuilds
  OnlyTornFileRefuses
PROPERTIES
  SealConserves
  ReplayFaithful
  ReplayNeverGives
CHECK_DEADLOCK FALSE
