\* A base that other programs use, a deletion that fails, a power failure
SPECIFICATION FairSpec
CONSTANTS
  m1 = m1
  m2 = m2
  m3 = m3
  s1 = s1
  s2 = s2
  Msg = {m1, m2, m3}
  Stored <- InBase
  System = {s1, s2}
  Waypoint <- Route
  Kept = {}
  Killing = {m1, m3}
  MaxDeletions = 1
  MaxCopies = 4
  MaxFailures = 2
  MaxCrashes = 1
INVARIANTS
  BaseTypeOK
  NoneSkipped
  PackedFirst
PROPERTIES
  RunEnds
