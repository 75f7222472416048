CONSTANTS
  w1 = w1
  w2 = w2
  treasury = treasury
  reserve = reserve
  h1 = h1
  h2 = h2
  noHash = noHash
  Wallets <- TwoWallets
  Treasury = treasury
  Reserve = reserve
  NoHash = noHash
  Rank <- Order
  Hashes <- OneHash
  Trimmed <- Exact
  MinFee = 1
  MinSessions = 2
  MaxMempool = 2
  Amounts <- One
  Fees <- One
  Times <- OneTime
  Now = 1
  GenesisAnts <- ThreeAndTwo
  GenesisSessions <- OnlySecond
  Web2Ledgers <- SecondJoins
  Ops <- LiveOps
  MaxBlocks = 2
  MaxQueue = 1
  MaxMint = 1
SPECIFICATION FairSpec
PROPERTIES
  CreditIsSealed
CHECK_DEADLOCK FALSE
