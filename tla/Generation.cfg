SPECIFICATION FairMCSpec
CONSTANTS
    DaysPerWeek = 2
    SlotsPerDay = 2
    DEFAULT_WEEKS = 2
    CheckLead = 1
    ProbeLead = 1
    None = None
    Rules = {r1, r2}
    Regular = {r1}
    Sweepers = {s1, s2}
    Requests = {q1, q2}
    Slots <- MCSlots
    Spots <- MCSpots
    MaxNow = 2
    MaxCalls = 5
    MaxFailures = 1
    LastDate = 10
    Settings = {"sweeps", "archives", "spots", "window"}
    Second = r2
    SecondSweep = s2
    SecondRequest = q2
CHECK_DEADLOCK FALSE
INVARIANTS
  Consistent
  PromiseKept
PROPERTIES
  AddedWhileRunning
  ArchiveAccounted
  TimedWindow
