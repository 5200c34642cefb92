CONSTANTS
  Students = {anna, ben}
  Handlers = {h1}
  Sweep = sweep
  SeatLimits = {1, 2}
  MinStudents = 1
  CancelCheckAt = 2
  Tiered = TRUE
  Settings = {"class"}
SYMMETRY Symmetry
SPECIFICATION MCSpec
CHECK_DEADLOCK FALSE
INVARIANTS
  Consistent
  SeatsWithinCapacity
  BroadcastTellsTheTruth
  BillMatchesBookings
  ErasedHoldNoSeat
PROPERTIES
  TermsKeptOnceBooked
  OutcomesAreFinal
