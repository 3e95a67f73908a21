SPECIFICATION FairErasureSpec
CONSTANTS
  Returns = {r1, r2}
  Attempts = {a1, a2}
  Writers = {w1}
  PageSize = 1
  MaxWrites = 2
  MaxFailures = 2
  None = None
INVARIANT Erased
PROPERTY EventuallyErased
CHECK_DEADLOCK FALSE
