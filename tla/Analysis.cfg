\* Kludges in any order, configurations, loops and gates
SPECIFICATION Spec
CONSTANTS
  NoAddress = NoAddress
  Domain = {"", "b"}
  AKAs <- OurAddresses
  Switches <- Configurations
  Links <- LinksAll
  Headers <- HeadersAll
  Kludges <- AllLines
  MaxLines = 3
  Leftovers <- LeftBehind
  Routes <- RouteAnswers
INVARIANTS
  TypeOK
  LoopDetected
  ViasLogged
  PathFollowed
  AddressesAsWritten
  LoopNotPacked
  NotToOurselves
  AttributesFirst
  OurAkaFits
