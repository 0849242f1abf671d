\* Two commands and three address words
SPECIFICATION Spec
CONSTANTS
  Domain = {"", "fidonet"}
  Words <- WordsUsed
  Dotted = {"fidonet.org"}
  Systems <- SystemsUsed
  Secrets = {"x", "passwords"}
  TooLong = {"passwords"}
  MaxCommands = 2
  MaxWords = 3
INVARIANTS
  AddressesTypeOK
  OwnOnce
  ReadingsAgree
  EntriesAsWritten
  WildcardsAsDocumented
CHECK_DEADLOCK FALSE
