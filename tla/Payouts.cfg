CONSTANTS
  Requests <- FewRequests
  Barred <- OnlyStranger
  Prepared <- Queue
  Feeds <- Answers
  HourlyMax = 1
  MaxRetries = 2
  Cycles = {c1}
  Slots = {s1}
  Nobody = nobody
  Overlap = FALSE
  Unconfirmed = FALSE
  MaxTrouble = 2
SPECIFICATION FairSpec
INVARIANTS
  HourCapKept
PROPERTIES
  StatusFinal
  KeepsContract
  PendingEnds
CHECK_DEADLOCK FALSE
