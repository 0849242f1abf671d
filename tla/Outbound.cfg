\* A mailer that waits for cfroute, power failures, files that fail to open
SPECIFICATION OutboundSpec
CONSTANTS
  m1 = m1
  m2 = m2
  m3 = m3
  s1 = s1
  s2 = s2
  Msg = {m1, m2, m3}
  System = {s1, s2}
  Waypoint <- Route
  Attaching = {m1}
  Requesting = {m2}
  KillSent = {m1}
  InTransit = {m2}
  KillFileSent = {m1}
  Qqq = {}
  IgnoreBSY = FALSE
  KillInTransit = TRUE
  KillInTransitFiles = FALSE
  NoDirectory = {}
  Failing = {"packet", "queue", "write", "mark"}
  Withdrawable = {m1}
  Race = FALSE
  MaxUnmarked = 1
  MaxCrashes = 1
INVARIANTS
  OutboundTypeOK
  CopiesBounded
  FilesTravelAlong
  NoBusyLeft
PROPERTIES
  AtLeastOnce
  BusyHonoured
