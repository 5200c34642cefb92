SPECIFICATION FairMCSpec
CONSTANTS
    None = None
    Mailers = {m1, m2}
    FirstMailer = m1
    FirstDevice = d1
    Pushers = {p1, p2}
    Devices = {d1, d2}
    Reminders = {r1, r2}
    Bookings = {1, 2}
    Settings = {"mail", "push", "remind", "timely"}
    MaxRows = 2
    ClassStart = 2
    MaxNow = 3
    Unread = 1
    Urgent = 1
    Stale = 1
    ClaimDeadline = 1
    Moment = 1
    MaxMailFailures = 2
CHECK_DEADLOCK FALSE
INVARIANTS
  ToldOnce
  NothingDropped
PROPERTIES
  PushedInTime
  TimelyReached
