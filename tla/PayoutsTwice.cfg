CONSTANTS
  Requests <- TwoRequests
  Barred <- NoOne
  Prepared <- ShortQueue
  Feeds <- NoAnswers
  HourlyMax = 3
  MaxRetries = 2
  Cycles = {c1, c2}
  Slots = {s1, s2}
  Nobody = nobody
  Overlap = TRUE
  Unconfirmed = FALSE
  MaxTrouble = 1
SPECIFICATION Spec
INVARIANTS
  SentOnce
CHECK_DEADLOCK FALSE
