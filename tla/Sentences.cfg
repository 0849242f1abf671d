\* Route files of up to two sentences, every word in every order
SPECIFICATION SentencesSpec
CONSTANTS
  n1 = n1
  n2 = n2
  p0 = p0
  p1 = p1
  Node = {n1, n2}
  Point = {p0, p1}
  Boss = p0
  Star = Star
  NoAddress = NoAddress
  Verbs <- VerbsRead
  Words <- WordsFew
  Flavours = {"CRASH"}
  Encryptions = {"ENC", "NONENC"}
  Switches = {"ASSUMEWAYPOINTS"}
  MaxVias = 2
  MaxEntries = 1
INVARIANTS
  TypeOK
  SomeKindRouted
  SentencesAsWritten
PROPERTIES
  RulesSpec
CHECK_DEADLOCK FALSE
