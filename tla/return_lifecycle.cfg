SPECIFICATION FairSpec
CONSTANTS
  Requests = {r1, r2}
  Trackers = {t1}
  MaxFaults = 1
INVARIANT ReceivedOnce
PROPERTIES NeverBackwards NotSilent DeliveredIsReceived
CHECK_DEADLOCK FALSE
