SPECIFICATION JourneySpec
CONSTANTS
  Items = {"i1", "i2", "j"}
  Orders = {"A", "B"}
  OrderOf <- MCOrderOf
  UnitsSold <- MCUnitsSold
  Before <- MCBefore
  Policies <- MCPolicies
  Answers <- MCAnswers
  Posts = {s1}
  Returns = {r1}
  None = None
  MaxEvents = 1
SYMMETRY Symmetry
INVARIANTS JourneyTypeOK PhotosReported
PROPERTIES ReturnsAllowed FeeAsQuoted
CHECK_DEADLOCK FALSE
