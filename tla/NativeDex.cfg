CONSTANTS
  w1 = w1
  w2 = w2
  wanet = wanet
  Admin = admin
  NoSession = noSession
  Wallets <- TwoWallets
  Symbols <- OnlyWanet
  Wanet = wanet
  MaxUnits = 6
  MaxFee = 300
  FeeDen = 10000
  StartAnts <- Balances
  StartActivated <- Activations
  StartMembers <- First
  Exempt <- Second
  AuthRequired = TRUE
  AdminEndpoints = TRUE
  NativeMint = TRUE
  TestMode = FALSE
  Units <- UnitSizes
  FeeRates <- Rates
  MinOuts <- Minimums
  Deadlines <- Heights
  Ops <- EveryOp
  MaxBlocks = 1
  MaxRequests = 4
SPECIFICATION Spec
VIEW WithoutHistory
INVARIANTS
  ActivatedBounded
  BooksAddUp
  PoolsCommitted
  QuoteIsBest
PROPERTIES
  ProductGrows
  ShareKept
  SharesAreRoot
  AcceptedConserves
