\* Runs against the clock, the mailer, the author and power failures
SPECIFICATION DailyRunSpec
CONSTANTS
  m1 = m1
  m2 = m2
  s1 = s1
  Msg = {m1, m2}
  System = {s1}
  Waypoint <- OneSystem
  Attaching = {}
  Requesting = {}
  KillSent = {m1}
  InTransit = {}
  KillFileSent = {}
  Qqq = {}
  IgnoreBSY = FALSE
  KillInTransit = FALSE
  KillInTransitFiles = FALSE
  NoDirectory = {}
  Failing = {"mark"}
  Withdrawable = {m1}
  Race = FALSE
  MaxUnmarked = 1
  MaxCrashes = 1
  TicksPerMinute = 2
  MaxClock = 3
INVARIANTS
  RunTypeOK
  NotForgotten
PROPERTIES
  EventuallyHandled
CHECK_DEADLOCK FALSE
