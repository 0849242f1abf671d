\* One macro of three words, defined and used
SPECIFICATION ReaderSpec
CONSTANTS
  Word <- WordsRead
  Line <- LinesOfMacro
  Verb = {"ROUTE-TO"}
  Setting = {"NETMAIL"}
  Switch = {"TOPDOWN"}
  Modifier = {"CRASH"}
  OwnMacro = {"MYZONES"}
  Own <- OwnWords
  Day = {"MON"}
  Refused = {"bad"}
  File = {"f", "BOSS"}
  MaxLines = 4
  MaxUses = 6
  MaxFiles = 2
INVARIANTS
  InPlace
CHECK_DEADLOCK FALSE
