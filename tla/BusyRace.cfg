\* A mailer connects between the check for .BSY and its creation
SPECIFICATION OutboundSpec
CONSTANTS
  m1 = m1
  m2 = m2
  m3 = m3
  s1 = s1
  s2 = s2
  Msg = {m1, m2, m3}
  System = {s1, s2}
  Waypoint <- Route
  Attaching = {m1, m2}
  Requesting = {m2}
  KillSent = {m1}
  InTransit = {m2}
  KillFileSent = {m1}
  Qqq = {}
  IgnoreBSY = FALSE
  KillInTransit = TRUE
  KillInTransitFiles = FALSE
  NoDirectory = {}
  Failing = {}
  Withdrawable = {}
  Race = TRUE
  MaxUnmarked = 0
  MaxCrashes = 0
PROPERTIES
  BusyHonoured
