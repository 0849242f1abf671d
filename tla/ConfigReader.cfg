\* Files of up to four lines in any order, one level of INCLUDE
SPECIFICATION FairReaderSpec
CONSTANTS
  Word <- WordsRead
  Line <- LinesRead
  Verb = {"ROUTE-TO"}
  Setting = {"NETMAIL"}
  Switch = {"TOPDOWN"}
  Modifier = {"CRASH"}
  OwnMacro = {"MYZONES"}
  Own <- OwnWords
  Day = {"MON"}
  Refused = {"bad"}
  File = {"f", "BOSS"}
  MaxLines = 4
  MaxUses = 6
  MaxFiles = 2
INVARIANTS
  ReaderTypeOK
  NothingLost
  MacrosReusable
  MacrosAsWritten
PROPERTIES
  LineEndsCommand
  Terminates
CHECK_DEADLOCK FALSE
