CONSTANTS
  Attempts = {a1}
  Intents = {i1, i2}
  MollieRefunds = {r1, r2}
  Jobs = {j1}
  None = None
  GrantMayEnd = FALSE
  DisputeRefunded = FALSE
  DashboardRefunds = FALSE
  SlowCalls = FALSE
  Settings = {"retries"}
SPECIFICATION FairMCSpec
CHECK_DEADLOCK FALSE
PROPERTIES
  PaidIsRecorded
  RefundIsRecorded
