SPECIFICATION FairSpec
CONSTANTS
  Deliveries = {d1, d2, d3}
  MaxFaults = 2
INVARIANTS TypeOK AckedIsApplied AppliedOnce
PROPERTY EventuallyAcked
