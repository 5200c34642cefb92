CONSTANTS
  Attempts = {a1, a2}
  Intents = {i1, i2}
  MollieRefunds = {r1, r2}
  Jobs = {j1, j2}
  None = None
  GrantMayEnd = TRUE
  DisputeRefunded = TRUE
  DashboardRefunds = TRUE
  SlowCalls = FALSE
  Settings = {"paid", "dashboard", "refund", "both", "regranted"}
SYMMETRY Symmetry
SPECIFICATION MCSpec
CHECK_DEADLOCK FALSE
INVARIANTS
  Consistent
  RefundsAccounted
PROPERTIES
  
  ImplementsLedger
