CONSTANTS
  r1 = r1
  r2 = r2
  o1 = o1
  o2 = o2
  Teacher <- TeacherOf
  Tabs = {t1, t2}
  Regs = {r1, r2}
  Owners = {o1, o2}
  MaxMarks = 3
  Refusals <- MCRefusals
  None = None
SYMMETRY Symmetry
SPECIFICATION MCSpec
CHECK_DEADLOCK FALSE
INVARIANTS
  Consistent
PROPERTIES
  KeptUntilWritten
