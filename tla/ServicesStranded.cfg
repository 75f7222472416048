CONSTANTS
  old = old
  new = new
  other = other
  c1 = c1
  c2 = c2
  s1 = s1
  s2 = s2
  Wallets <- ThreeWallets
  Senders <- TwoKeys
  Funds <- Balances
  Callers <- TwoCallers
  Faults <- CrashOnly
  Amounts <- SomeAmounts
  MaxPerBurn = 2
  MinFee = 1
  Signers <- OneSigner
  Threshold = 1
  Lifetime = 1
  MaxTime = 1
  MaxBurns = 1
  Legacy <- OneLegacy
  SecpOf <- SameKey
  Nonces <- One
SPECIFICATION Spec
INVARIANT NothingStranded
\* Time is bounded.
CHECK_DEADLOCK FALSE
