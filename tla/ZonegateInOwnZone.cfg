\* A message of zone 2 that comes to fly ZON and is for zone 1
SPECIFICATION Spec
CONSTANTS
  NoAddress = NoAddress
  Domain = {"", "b"}
  AKAs <- OurAddresses
  Switches <- BossDirect
  Links <- LinksAll
  Headers <- FewHeaders
  Kludges <- FewLines
  MaxLines = 3
  Leftovers <- LeftBehind
  Routes <- RouteAnswers
INVARIANTS
  ZonegateInOwnZone
