SPECIFICATION FairSpec
CONSTANTS
  t1 = t1
  t2 = t2
  Tx <- TwoTx
  EpochLengths <- OneLength
  GenesisTime = 0
  GenesisSpan = 1
  StartTime = 2
  MaxTime = 8
  Faults <- AllFaults
INVARIANTS
  MemoryMatchesStore
  SealedOnce
  RefusedOnlyByGenesis
PROPERTIES
  LogGrows
  PendingIsSealed
\* The clock is bounded, and a refused start is final.
CHECK_DEADLOCK FALSE
