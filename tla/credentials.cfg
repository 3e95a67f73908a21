SPECIFICATION FairTokenSpec
CONSTANTS
  Slots = {s1, s2, s3}
  Absent = Absent
  MaxUninstalls = 1
  MaxFaults = 1
INVARIANTS TokenTypeOK NewestOnFile
PROPERTY Heals
CHECK_DEADLOCK FALSE
