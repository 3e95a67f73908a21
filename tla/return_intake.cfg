SPECIFICATION Spec
CONSTANTS
  Submissions = {s1, s2, s3}
  Units = 2
  Limit = 2
  MaxCycles = 1
SYMMETRY Symmetry
INVARIANTS ClaimsWithinOrder UnitsPromisedOnce SlotsCounted
CHECK_DEADLOCK FALSE
