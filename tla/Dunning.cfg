CONSTANTS
  Payments = {p1, p2}
  Sweeps = {s1, s2}
  OverdueAfter = 1
  RemindEvery = 2
  Cooldown = 0
  Horizon = 3
  None = None
  Settings = {"payments", "sweeps"}
  Second = p2
  SecondRun = s2
SPECIFICATION MCSpec
INVARIANTS
  Consistent
PROPERTIES
  SpacedOut
  OnlyTheOwingChased
  FullPeriodToPay
  RemindedAgain
