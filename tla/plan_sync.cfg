SPECIFICATION Spec
CONSTANTS
  Calls = {c1, c2}
  MaxChanges = 4
  MaxFaults = 1
SYMMETRY Symmetry
INVARIANTS SyncedInOrder ResetsEarned
CHECK_DEADLOCK FALSE
