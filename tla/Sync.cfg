CONSTANTS
  r1 = r1
  r2 = r2
  o1 = o1
  o2 = o2
  Teacher <- TeacherOf
  Tabs = {t1, t2}
  Regs = {r1}
  Owners = {o1}
  MaxMarks = 2
  Refusals = {{}}
  None = None
  LateRequests = TRUE
SPECIFICATION FairSyncSpec
CHECK_DEADLOCK FALSE
PROPERTIES
  ReplayIsTrue
  MarksSettle
