SPECIFICATION Spec
CONSTANTS
  Requests = {r1, r2, r3, r4}
  Keys = {"warehouse"}
  Orders = {o1}
  Values = {v1}
  Policies = {p1, p2}
  Carriers = {c1, c2}
  Credentials = {k1}
  Plans = {"FREE", "STARTER"}
  Limit <- MCLimit
  None = None
SYMMETRY Symmetry
PROPERTIES SavesWipeNothing OneDefault WithinLimit CredentialsKept
CHECK_DEADLOCK FALSE
