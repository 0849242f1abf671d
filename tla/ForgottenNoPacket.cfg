\* The packet of a message could not be opened
SPECIFICATION RunSpec
CONSTANTS
  m1 = m1
  m2 = m2
  s1 = s1
  Msg = {m1, m2}
  System = {s1}
  Waypoint <- OneSystem
  Attaching = {}
  Requesting = {}
  KillSent = {m1}
  InTransit = {}
  KillFileSent = {}
  Qqq = {}
  IgnoreBSY = FALSE
  KillInTransit = FALSE
  KillInTransitFiles = FALSE
  NoDirectory = {}
  Failing = {"packet"}
  Withdrawable = {}
  Race = FALSE
  MaxUnmarked = 0
  MaxCrashes = 0
  TicksPerMinute = 2
  MaxClock = 2
INVARIANTS
  NeverForgotten
CHECK_DEADLOCK FALSE
