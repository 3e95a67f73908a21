SPECIFICATION FairSpec
CONSTANTS
  Attempts = {a1, a2}
  Kinds = {"REFUND", "STORE_CREDIT", "EXCHANGE", "LOCAL"}
  TotalValue = 4
  Fee = 1
  Rates = {1, 2}
  KeyLasts = TRUE
  LateLanding = TRUE
  SlowAttempts = TRUE
  MaxFaults = 2
  MaxPayments = 3
  MaxPayment = 6
INVARIANTS SplitIsExact MovedOnce
PROPERTIES PaysOutOnce EventuallyRecorded
CHECK_DEADLOCK FALSE
