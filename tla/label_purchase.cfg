SPECIFICATION Spec
CONSTANTS
  Attempts = {a1, a2, a3, a4}
  Carriers = {"shippo"}
  Searchable = {"shippo"}
  SlowAttempts = FALSE
  LateLanding = FALSE
  None = None
SYMMETRY Symmetry
INVARIANTS TypeOK OneLivePurchase PurchaseKeepsRow
PROPERTIES SavedForGood KeepsPromise
CHECK_DEADLOCK FALSE
