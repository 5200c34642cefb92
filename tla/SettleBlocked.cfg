CONSTANTS
  Attempts = {a1, a2}
  Intents = {}
  MollieRefunds = {}
  Jobs = {j1}
  None = None
  GrantMayEnd = TRUE
  DisputeRefunded = FALSE
  DashboardRefunds = FALSE
  SlowCalls = FALSE
  Settings = {"retries"}
SPECIFICATION FairMCSpec
CHECK_DEADLOCK FALSE
PROPERTIES
  PaidIsRecorded
