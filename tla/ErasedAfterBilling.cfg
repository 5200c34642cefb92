CONSTANTS
  Students = {anna}
  Handlers = {h1}
  Sweep = sweep
  SeatLimits = {1}
  MinStudents = 1
  CancelCheckAt = 2
  Tiered = TRUE
SPECIFICATION MissedStartSpec
CHECK_DEADLOCK FALSE
INVARIANTS
  PaymentOnlyOnChargedBooking
