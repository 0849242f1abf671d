\* Files of up to three one-entry sentences, with or without TOPDOWN
SPECIFICATION Spec
CONSTANTS
  n1 = n1
  n2 = n2
  p0 = p0
  p1 = p1
  Node = {n1, n2}
  Point = {p0, p1}
  Boss = p0
  Star = Star
  NoAddress = NoAddress
  Verbs <- VerbsDecide
  Words <- WordsDecide
  Flavours = {"CRASH"}
  Encryptions = {}
  Switches = {"TOPDOWN"}
  MaxVias = 3
  MaxEntries = 1
  Messages <- Mail
INVARIANTS
  QueryTypeOK
  LastRuleDecides
  FirstRuleDecides
CHECK_DEADLOCK FALSE
