CONSTANTS
  Students = {anna, ben, cleo}
  Handlers = {h1, h2}
  Sweep = sweep
  SeatLimits = {1}
  MinStudents = 1
  CancelCheckAt = 2
  Tiered = TRUE
  Settings = {"line", "ends"}
SPECIFICATION FairMCSpec
CHECK_DEADLOCK FALSE
INVARIANTS
  QueueNumbered
PROPERTIES
  CancelIsFinal
  ImplementsPromotionQueue
  FreedSeatIsAnswered
  TimedClassEnds
