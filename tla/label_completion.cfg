SPECIFICATION FairSpec
CONSTANTS
  Attempts = {a1, a2}
  Retriers = {r1}
  Priced = TRUE
  MaxSwitches = 1
  MaxAttempts = 2
  MaxFaults = 1
  None = None
INVARIANTS ChargeAnnounced MailsBounded
PROPERTIES NeverBackwards EventuallyFinished EventuallyCharged
CHECK_DEADLOCK FALSE
