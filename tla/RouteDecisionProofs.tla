------------------------- MODULE RouteDecisionProofs --------------------------
(***************************************************************************)
(* Theorems about RouteDecision: which rule decides about a message, for   *)
(* every table a route file can build and every message.                   *)
(***************************************************************************)
EXTENDS RouteDecision, RouteTableProofs

(***************************************************************************)
(* The matches among the first n vias                                      *)
(***************************************************************************)
LEMMA MatchingNone ==
  ASSUME NEW to PROVE Matching(to, 0) = {} /\ ~NoPackLast(to, 0)
<1>1. 1 .. 0 = {}
  OBVIOUS
<1>2. QED
  BY <1>1 DEF Matching, NoPackLast

LEMMA MatchingStep ==
  ASSUME NEW to, NEW n \in Nat
  PROVE  Matching(to, n + 1) =
           IF DoesMatch(vias[n + 1], to, msg) THEN Matching(to, n) \cup {n + 1}
                                              ELSE Matching(to, n)
<1>1. 1 .. n + 1 = (1 .. n) \cup {n + 1}
  OBVIOUS
<1>2. QED
  BY <1>1 DEF Matching

\* A via that matches is the last match so far.
LEMMA LastStep ==
  ASSUME NEW to, NEW n \in Nat, DoesMatch(vias[n + 1], to, msg)
  PROVE  \A i : IsLastOf(i, Matching(to, n + 1)) <=> i = n + 1
<1>1. Matching(to, n + 1) = Matching(to, n) \cup {n + 1}
  BY MatchingStep
<1>2. \A i \in Matching(to, n) : i \in 1 .. n
  BY DEF Matching
<1>3. QED
  BY <1>1, <1>2 DEF IsLastOf

LEMMA NoPackLastStep ==
  ASSUME NEW to, NEW n \in Nat
  PROVE  NoPackLast(to, n + 1) <=>
           IF DoesMatch(vias[n + 1], to, msg) THEN vias[n + 1].direct = "NoPack"
                                              ELSE NoPackLast(to, n)
<1>1. CASE DoesMatch(vias[n + 1], to, msg)
  <2>1. \A i : IsLastOf(i, Matching(to, n + 1)) <=> i = n + 1
    BY <1>1, LastStep
  <2>2. n + 1 \in 1 .. n + 1
    OBVIOUS
  <2>3. QED
    BY <1>1, <2>1, <2>2 DEF NoPackLast
<1>2. CASE ~DoesMatch(vias[n + 1], to, msg)
  <2>1. Matching(to, n + 1) = Matching(to, n)
    BY <1>2, MatchingStep
  <2>2. \A i : IsLastOf(i, Matching(to, n)) => i \in 1 .. n
    BY DEF IsLastOf, Matching
  <2>3. 1 .. n \subseteq 1 .. n + 1
    OBVIOUS
  <2>4. QED
    BY <1>2, <2>1, <2>2, <2>3 DEF NoPackLast
<1>3. QED
  BY <1>1, <1>2

-----------------------------------------------------------------------------
(***************************************************************************)
(* While the loops run the table stays                                     *)
(***************************************************************************)
LEMMA TableStays ==
  ASSUME DecisionInv, UNCHANGED tableVars
  PROVE  /\ TableInv' /\ vias' = vias /\ reader' = reader
         /\ GetViaCount \in Nat /\ GetViaCount' = GetViaCount
         /\ TopDown' <=> TopDown
         /\ NoNoPack' <=> NoNoPack
<1>1. TableInv' /\ vias' = vias /\ reader' = reader /\ switches' = switches
  BY TableInvNext DEF DecisionInv, tableVars
<1>2. GetViaCount' = GetViaCount
  BY <1>1 DEF GetViaCount, InUse
<1>3. GetViaCount \in Nat
  BY CountIs DEF DecisionInv
<1>4. QED
  BY <1>1, <1>2, <1>3 DEF TopDown, NoNoPack

\* And the answers about the message in hand stay with it.
LEMMA AnswersStay ==
  ASSUME DecisionInv, UNCHANGED << tableVars, msg >>
  PROVE  /\ \A n : n = count' => (NoPackLast(msg.dest, count)' <=> NoPackLast(msg.dest, n))
         /\ NoPackLast(msg.dest, GetViaCount)' <=> NoPackLast(msg.dest, GetViaCount)
         /\ \A n : n = count' =>
              /\ Matching(msg.transit, count)' = Matching(msg.transit, n)
              /\ Matching(msg.transit, count - 1)' = Matching(msg.transit, n - 1)
<1>1. vias' = vias /\ msg' = msg /\ GetViaCount' = GetViaCount
  BY TableStays
<1>2. QED
  BY <1>1 DEF NoPackLast, Matching, IsLastOf

LEMMA AskKeeps ==
  ASSUME DecisionInv, NEW m \in Messages, Ask(m)
  PROVE  DecisionInv'
<1>1. /\ TableInv' /\ reader' = "ready" /\ GetViaCount' \in Nat
  BY TableStays DEF Ask
<1>2. m \in Message
  BY MessagesAssumption
<1>3. QueryTypeOK'
  <2>1. phase' = "nopack" /\ msg' = m /\ count' \in 0 .. GetViaCount'
    BY <1>1 DEF Ask
  <2>2. ignore' = FALSE /\ got' = FALSE /\ storage' = NoAddress /\ attrib' \in Attrib
    BY DEF Ask, Attrib
  <2>3. QED
    BY <1>2, <2>1, <2>2 DEF QueryTypeOK
<1>4. ~NoPackLast(msg.dest, count)'
  <2>1. 1 .. 0 = {}
    OBVIOUS
  <2>2. QED
    BY <2>1 DEF Ask, NoPackLast
<1>5. QED
  BY <1>1, <1>3, <1>4 DEF Ask, DecisionInv

LEMMA NoPackStepKeeps ==
  ASSUME DecisionInv, NoPackStep
  PROVE  DecisionInv'
<1>1. /\ TableInv' /\ reader' = "ready" /\ vias' = vias
      /\ GetViaCount' = GetViaCount /\ GetViaCount \in Nat
  BY TableStays DEF NoPackStep, DecisionInv
<1>2. count \in Nat /\ count' = count + 1 /\ count' \in 0 .. GetViaCount
  BY <1>1 DEF NoPackStep, DecisionInv, QueryTypeOK
<1>3. NoPackLast(msg.dest, count)' <=> NoPackLast(msg.dest, count + 1)
  BY <1>2, AnswersStay DEF NoPackStep
<1>4. ignore' \in BOOLEAN /\ (ignore' <=> NoPackLast(msg.dest, count + 1))
  <2>1. CASE DoesMatch(vias[count + 1], msg.dest, msg)
    BY <1>2, <2>1, NoPackLastStep DEF NoPackStep
  <2>2. CASE ~DoesMatch(vias[count + 1], msg.dest, msg)
    <3>1. ignore' = ignore
      BY <2>2 DEF NoPackStep
    <3>2. ignore \in BOOLEAN /\ (ignore <=> NoPackLast(msg.dest, count))
      BY DEF NoPackStep, DecisionInv, QueryTypeOK
    <3>3. QED
      BY <1>2, <2>2, <3>1, <3>2, NoPackLastStep
  <2>3. QED
    BY <2>1, <2>2
<1>5. QueryTypeOK'
  BY <1>1, <1>2, <1>4 DEF NoPackStep, DecisionInv, QueryTypeOK
<1>6. QED
  BY <1>1, <1>3, <1>4, <1>5 DEF NoPackStep, DecisionInv

LEMMA NoPackReturnKeeps ==
  ASSUME DecisionInv, NoPackReturn
  PROVE  DecisionInv'
<1>1. /\ TableInv' /\ reader' = "ready" /\ vias' = vias
      /\ GetViaCount' = GetViaCount /\ GetViaCount \in Nat
      /\ count' = 0 /\ msg' = msg /\ ~got' /\ count = GetViaCount
  BY TableStays DEF NoPackReturn, DecisionInv
<1>2. ignore <=> NoPackLast(msg.dest, GetViaCount)
  BY <1>1 DEF NoPackReturn, DecisionInv
<1>3. NoPackLast(msg.dest, GetViaCount)' <=> NoPackLast(msg.dest, GetViaCount)
  BY AnswersStay DEF NoPackReturn
<1>4. Matching(msg.transit, count)' = {}
  BY <1>1, AnswersStay, MatchingNone DEF NoPackReturn
<1>5. PackSoFar' /\ FirstSoFar'
  BY <1>1, <1>4 DEF PackSoFar, FirstSoFar
<1>6. QueryTypeOK'
  BY <1>1 DEF NoPackReturn, DecisionInv, QueryTypeOK
<1>7. QED
  BY <1>1, <1>2, <1>3, <1>5, <1>6 DEF NoPackReturn, DecisionInv

-----------------------------------------------------------------------------
(***************************************************************************)
(* The loop of FindPackSystem                                              *)
(***************************************************************************)
\* The system of a complete via is an address.
LEMMA PackSystemIs ==
  ASSUME DecisionInv, NEW i \in 1 .. GetViaCount
  PROVE  /\ vias[i] \in Via
         /\ PackSystem(vias[i], msg.transit) \in Address
<1>1. vias[i] \in Via
  BY CountIs, ElementOfSeq DEF DecisionInv
<1>2. vias[i].direct = "Routed" => vias[i].system \in Address
  BY TableInvComplete DEF DecisionInv, TableComplete
<1>3. msg.transit \in Address
  BY DEF DecisionInv, QueryTypeOK, Message
<1>4. [msg.transit EXCEPT !.point = Boss] \in Address
  BY <1>3, NamesAssumption DEF Address
<1>5. QED
  BY <1>1, <1>2, <1>3, <1>4 DEF PackSystem, Via, Direction

LEMMA PackMatchKeeps ==
  ASSUME DecisionInv, PackStep, PackMatch(vias[count + 1])
  PROVE  DecisionInv'
<1> DEFINE n == count + 1
           via == vias[n]
           S == Matching(msg.transit, n)
<1>1. /\ TableInv' /\ reader' = "ready" /\ vias' = vias /\ msg' = msg
      /\ GetViaCount' = GetViaCount /\ GetViaCount \in Nat
      /\ TopDown' <=> TopDown
      /\ NoNoPack' <=> NoNoPack
  BY TableStays DEF PackStep, DecisionInv
<1>2. /\ count \in Nat /\ count' = n /\ n \in 1 .. GetViaCount /\ n - 1 = count
      /\ count' \in 0 .. GetViaCount
  BY <1>1 DEF PackStep, DecisionInv, QueryTypeOK
<1>3. Matching(msg.transit, count)' = S /\ Matching(msg.transit, count - 1)' = Matching(msg.transit, count)
  BY <1>2, AnswersStay DEF PackStep
<1>4. n \in S /\ \A i : IsLastOf(i, S) <=> i = n
  BY <1>2, LastStep, MatchingStep DEF PackMatch
<1>5. \A i \in S : (\A j \in S : j <= i) => i = n
  BY <1>4 DEF IsLastOf
<1>6. \A j \in S : j <= n
  BY <1>4 DEF IsLastOf
<1>7. ~NoPackLast(msg.dest, GetViaCount)'
  BY AnswersStay DEF PackStep, DecisionInv
<1>8. via \in Via /\ PackSystem(via, msg.transit) \in Address
  BY <1>2, PackSystemIs
<1>9. CASE via.direct = "NoPack"
  <2>1. got' = FALSE /\ storage' = storage /\ attrib' = via.attrib /\ phase' = "pack"
    BY <1>9 DEF PackMatch, PackStep
  <2>2. PackSoFar'
    BY <1>1, <1>3, <1>5, <1>9, <2>1 DEF PackSoFar, IsLastOf
  <2>3. FirstSoFar'
    BY <1>1, <1>2, <1>9 DEF FirstSoFar, NoNoPack
  <2>4. QueryTypeOK'
    BY <1>1, <1>2, <1>8, <2>1 DEF PackStep, DecisionInv, QueryTypeOK, Via
  <2>5. QED
    BY <1>1, <1>7, <2>1, <2>2, <2>3, <2>4 DEF DecisionInv
<1>10. CASE via.direct # "NoPack"
  <2>1. /\ got' = TRUE /\ storage' = PackSystem(via, msg.transit)
        /\ attrib' = via.attrib /\ phase' = IF TopDown THEN "packed" ELSE "pack"
    BY <1>10 DEF PackMatch, PackStep, TopDown
  <2>2. PackSoFar'
    <3>1. vias'[n] = via /\ msg'.transit = msg.transit
      BY <1>1
    <3>2. /\ n \in S /\ (\A j \in S : j <= n) /\ vias'[n].direct # "NoPack"
          /\ storage' = PackSystem(vias'[n], msg'.transit) /\ attrib' = vias'[n].attrib
      BY <1>4, <1>6, <1>10, <2>1, <3>1
    <3>3. QED
      BY <1>3, <2>1, <3>2 DEF PackSoFar, IsLastOf
  <2>3. QueryTypeOK'
    BY <1>1, <1>2, <1>8, <2>1 DEF PackStep, DecisionInv, QueryTypeOK, Via
  <2>4. CASE TopDown
    <3>1. NoNoPack => Matching(msg.transit, count) = {}
      BY <2>4 DEF PackStep, DecisionInv, FirstSoFar
    <3>2. phase' = "packed"
      BY <2>1, <2>4
    <3>3. QED
      BY <1>1, <1>2, <1>3, <1>4, <1>7, <2>1, <2>2, <2>3, <2>4, <3>1, <3>2
         DEF DecisionInv
  <2>5. CASE ~TopDown
    <3>1. FirstSoFar'
      BY <1>1, <2>5 DEF FirstSoFar
    <3>2. phase' = "pack"
      BY <2>1, <2>5
    <3>3. QED
      BY <1>1, <1>7, <2>2, <2>3, <2>5, <3>1, <3>2 DEF DecisionInv
  <2>6. QED
    BY <2>4, <2>5
<1>11. QED
  BY <1>9, <1>10

LEMMA PackNoMatchKeeps ==
  ASSUME DecisionInv, PackStep, PackNoMatch(vias[count + 1])
  PROVE  DecisionInv'
<1> DEFINE S == Matching(msg.transit, count)
<1>1. /\ TableInv' /\ reader' = "ready" /\ vias' = vias /\ msg' = msg
      /\ GetViaCount' = GetViaCount /\ GetViaCount \in Nat
      /\ TopDown' <=> TopDown
      /\ NoNoPack' <=> NoNoPack
  BY TableStays DEF PackStep, DecisionInv
<1>2. count \in Nat /\ count' = count + 1 /\ count' \in 0 .. GetViaCount
  BY <1>1 DEF PackStep, DecisionInv, QueryTypeOK
<1>3. Matching(msg.transit, count)' = S
  BY <1>2, AnswersStay, MatchingStep DEF PackStep, PackNoMatch
<1>4. ~NoPackLast(msg.dest, GetViaCount)'
  BY AnswersStay DEF PackStep, DecisionInv
<1>5. phase' = "pack" /\ got' = got /\ storage' = storage /\ attrib' = attrib
  BY DEF PackStep, PackNoMatch
<1>6. PackSoFar /\ FirstSoFar /\ (TopDown => ~got)
  BY DEF PackStep, DecisionInv
<1>7. PackSoFar'
  BY <1>1, <1>3, <1>5, <1>6 DEF PackSoFar, IsLastOf
<1>8. FirstSoFar'
  BY <1>1, <1>3, <1>6 DEF FirstSoFar
<1>9. QueryTypeOK'
  BY <1>1, <1>2, <1>5 DEF PackStep, DecisionInv, QueryTypeOK
<1>10. QED
  BY <1>1, <1>4, <1>5, <1>6, <1>7, <1>8, <1>9 DEF DecisionInv

LEMMA PackReturnKeeps ==
  ASSUME DecisionInv, PackReturn
  PROVE  DecisionInv'
<1> DEFINE S == Matching(msg.transit, count)
<1>1. /\ TableInv' /\ reader' = "ready" /\ vias' = vias /\ msg' = msg
      /\ GetViaCount' = GetViaCount /\ GetViaCount \in Nat
      /\ TopDown' <=> TopDown
      /\ NoNoPack' <=> NoNoPack
  BY TableStays DEF PackReturn, DecisionInv
<1>2. /\ count' = count /\ count = GetViaCount
      /\ got' = got /\ storage' = storage /\ attrib' = attrib
      /\ phase' = IF got THEN "packed" ELSE "left"
  BY DEF PackReturn
<1>3. Matching(msg.transit, count)' = S
  BY <1>2, AnswersStay DEF PackReturn
<1>4. ~NoPackLast(msg.dest, GetViaCount)'
  BY AnswersStay DEF PackReturn, DecisionInv
<1>5. PackSoFar /\ FirstSoFar /\ (TopDown => ~got)
  BY DEF PackReturn, DecisionInv
<1>6. PackSoFar'
  BY <1>1, <1>2, <1>3, <1>5 DEF PackSoFar, IsLastOf
<1>7. FirstSoFar'
  BY <1>1, <1>3, <1>5 DEF FirstSoFar
<1>8. QueryTypeOK'
  BY <1>1, <1>2 DEF PackReturn, DecisionInv, QueryTypeOK
<1>9. QED
  BY <1>1, <1>2, <1>4, <1>5, <1>6, <1>7, <1>8 DEF DecisionInv

-----------------------------------------------------------------------------
(***************************************************************************)
(* The invariant                                                           *)
(***************************************************************************)
LEMMA CountNat == TableInv => GetViaCount \in Nat
BY CountIs

LEMMA CountNatNext == TableInv' => (GetViaCount \in Nat)'
BY CountNat, PTL

\* No word is read once the file is.
LEMMA ReadFileKeeps ==
  ASSUME DecisionInv, ReadFile
  PROVE  DecisionInv'
<1>1. reader # "ready"
  BY DEF ReadFile, TableNext, SetupNewVia, SetWaypoint, BadWaypoint, AddTarget,
         SetOnFrom, SwitchExcept, SetAttrib, SetEncryption, Switch, OtherCommand,
         EndOfFile, InSentence, Reading
<1>2. phase = "idle" /\ count = 0
  BY <1>1 DEF DecisionInv
<1>3. TableInv' /\ GetViaCount' \in Nat
  BY TableInvNext, CountNatNext DEF ReadFile, DecisionInv
<1>4. UNCHANGED queryVars
  BY DEF ReadFile
<1>5. QueryTypeOK'
  BY <1>2, <1>3, <1>4 DEF DecisionInv, QueryTypeOK, queryVars
<1>6. QED
  BY <1>2, <1>3, <1>4, <1>5 DEF DecisionInv, queryVars

LEMMA StutterKeeps ==
  ASSUME DecisionInv, UNCHANGED vars
  PROVE  DecisionInv'
<1>1. TableInv'
  BY TableInvNext DEF DecisionInv, vars, tableVars
<1>2. QED
  BY <1>1
     DEF vars, tableVars, queryVars, DecisionInv, QueryTypeOK, NoPackLast, Matching,
         IsLastOf, PackSoFar, FirstSoFar, TopDown, NoNoPack, GetViaCount, InUse

LEMMA DecisionInvInit == Init => DecisionInv
<1> SUFFICES ASSUME Init PROVE DecisionInv
  OBVIOUS
<1>1. TableInv /\ GetViaCount \in Nat
  BY TableInvInit, CountNat DEF Init
<1>2. msg \in Message
  BY MessagesAssumption DEF Init
<1>3. /\ phase = "idle" /\ count = 0 /\ ignore = FALSE /\ got = FALSE
      /\ storage = NoAddress /\ attrib \in Attrib
  BY DEF Init, Attrib
<1>4. QueryTypeOK
  <2>1. count \in 0 .. GetViaCount
    BY <1>1, <1>3
  <2>2. QED
    BY <1>2, <1>3, <2>1 DEF QueryTypeOK
<1>5. QED
  BY <1>1, <1>3, <1>4 DEF DecisionInv

LEMMA DecisionInvNext == DecisionInv /\ [Next]_vars => DecisionInv'
<1> SUFFICES ASSUME DecisionInv, [Next]_vars PROVE DecisionInv'
  OBVIOUS
<1>1. CASE ReadFile
  BY <1>1, ReadFileKeeps
<1>2. ASSUME NEW m \in Messages, Ask(m) PROVE DecisionInv'
  BY <1>2, AskKeeps
<1>3. CASE NoPackStep
  BY <1>3, NoPackStepKeeps
<1>4. CASE NoPackReturn
  BY <1>4, NoPackReturnKeeps
<1>5. CASE PackStep
  BY <1>5, PackMatchKeeps, PackNoMatchKeeps DEF PackStep
<1>6. CASE PackReturn
  BY <1>6, PackReturnKeeps
<1>7. CASE UNCHANGED vars
  BY <1>7, StutterKeeps
<1>8. QED
  BY <1>1, <1>2, <1>3, <1>4, <1>5, <1>6, <1>7 DEF Next, Decide

LEMMA DecisionAlways == Spec => []DecisionInv
<1>1. QED
  BY DecisionInvInit, DecisionInvNext, PTL DEF Spec

-----------------------------------------------------------------------------
(***************************************************************************)
(* The theorems                                                            *)
(***************************************************************************)
\* The locals of the two loops keep their types, and the loops never look
\* beyond the vias that are complete.
THEOREM QueryTyped == Spec => []QueryTypeOK
<1>1. DecisionInv => QueryTypeOK
  BY DEF DecisionInv
<1>2. QED
  BY <1>1, DecisionAlways, PTL

\* Whatever the route file, a message is packed only for a system that a rule
\* which applies to it names, and with the flavour of that rule.
THEOREM PackedWhereNamed == Spec => []PackedSomewhere
<1>1. ASSUME DecisionInv PROVE PackedSomewhere
  <2> SUFFICES ASSUME phase = "packed"
               PROVE  /\ storage \in Address
                      /\ \E i \in 1 .. GetViaCount :
                           /\ vias[i].direct # "NoPack"
                           /\ DoesMatch(vias[i], msg.transit, msg)
                           /\ storage = PackSystem(vias[i], msg.transit)
                           /\ attrib = vias[i].attrib
    BY DEF PackedSomewhere
  <2> DEFINE S == Matching(msg.transit, count)
  <2>1. PICK i \in S : /\ vias[i].direct # "NoPack"
                       /\ storage = PackSystem(vias[i], msg.transit)
                       /\ attrib = vias[i].attrib
    BY <1>1 DEF DecisionInv, PackSoFar
  <2>2. count \in 0 .. GetViaCount /\ GetViaCount \in Nat
    BY <1>1, CountNat DEF DecisionInv, QueryTypeOK
  <2>3. i \in 1 .. GetViaCount /\ DoesMatch(vias[i], msg.transit, msg)
    BY <2>2 DEF Matching
  <2>4. storage \in Address
    BY <1>1, <2>1, <2>3, PackSystemIs
  <2>5. QED
    BY <2>1, <2>3, <2>4
<1>2. QED
  BY <1>1, DecisionAlways, PTL

\* Without TOPDOWN the last rule that matches decides, whatever the rules
\* before it have left in the locals of the loops.
THEOREM LastRuleWins == Spec => []LastRuleDecides
<1>1. ASSUME DecisionInv PROVE LastRuleDecides
  <2> DEFINE n == GetViaCount
             S == Matching(msg.transit, n)
             Stays == S = {} \/ NoPackLast(msg.dest, n) \/ NoPackLast(msg.transit, n)
  <2> SUFFICES ASSUME Decided, ~TopDown
               PROVE  /\ Stays => phase = "left"
                      /\ ~Stays => \A i \in S : IsLastOf(i, S) => DecidedBy(i)
    BY DEF LastRuleDecides
  <2>1. CASE phase = "packed"
    <3>1. count = n /\ got /\ PackSoFar /\ ~NoPackLast(msg.dest, n)
      BY <1>1, <2>1 DEF DecisionInv
    <3>2. PICK i \in S : /\ IsLastOf(i, S) /\ vias[i].direct # "NoPack"
                         /\ storage = PackSystem(vias[i], msg.transit)
                         /\ attrib = vias[i].attrib
      BY <3>1 DEF PackSoFar
    <3>3. \A j \in S : IsLastOf(j, S) => j = i
      <4>1. \A j \in S : j \in Nat
        BY <1>1, CountNat DEF Matching, DecisionInv
      <4>2. QED
        BY <3>2, <4>1 DEF IsLastOf
    <3>4. ~NoPackLast(msg.transit, n)
      BY <3>2, <3>3 DEF NoPackLast, IsLastOf
    <3>5. DecidedBy(i)
      BY <2>1, <3>2 DEF DecidedBy
    <3>6. QED
      BY <3>1, <3>2, <3>3, <3>4, <3>5
  <2>2. CASE phase = "left"
    <3>1. CASE NoPackLast(msg.dest, n)
      BY <2>2, <3>1
    <3>2. CASE ~NoPackLast(msg.dest, n)
      <4>1. count = n /\ ~got /\ PackSoFar
        BY <1>1, <2>2, <3>2 DEF DecisionInv
      <4>2. \A i \in S : IsLastOf(i, S) => vias[i].direct = "NoPack"
        BY <4>1 DEF PackSoFar
      <4>3. QED
        BY <2>2, <4>2 DEF DecidedBy
    <3>3. QED
      BY <3>1, <3>2
  <2>3. QED
    BY <2>1, <2>2 DEF Decided
<1>2. QED
  BY <1>1, DecisionAlways, PTL

\* With TOPDOWN, as long as the file has no NOPACK rule, the first rule that
\* matches decides.
THEOREM FirstRuleWins == Spec => []FirstRuleDecides
<1>1. ASSUME DecisionInv PROVE FirstRuleDecides
  <2> DEFINE n == GetViaCount
             S == Matching(msg.transit, n)
  <2> SUFFICES ASSUME Decided, TopDown, \A i \in 1 .. n : vias[i].direct # "NoPack"
               PROVE  /\ S = {} => phase = "left"
                      /\ \A i \in S : IsFirstOf(i, S) => DecidedBy(i)
    BY DEF FirstRuleDecides
  <2>1. NoNoPack /\ n \in Nat /\ count \in 0 .. n
    BY <1>1, CountNat DEF NoNoPack, DecisionInv, QueryTypeOK
  <2>2. CASE phase = "packed"
    <3>1. /\ count \in Matching(msg.transit, count)
          /\ Matching(msg.transit, count - 1) = {} /\ got /\ PackSoFar
      BY <1>1, <2>1, <2>2 DEF DecisionInv
    <3>2. count \in S /\ \A j \in S : count <= j
      BY <2>1, <3>1 DEF Matching
    <3>3. /\ storage = PackSystem(vias[count], msg.transit)
          /\ attrib = vias[count].attrib
      <4>1. PICK i \in Matching(msg.transit, count) :
              /\ IsLastOf(i, Matching(msg.transit, count))
              /\ storage = PackSystem(vias[i], msg.transit)
              /\ attrib = vias[i].attrib
        BY <3>1 DEF PackSoFar
      <4>2. i \in 1 .. count /\ count <= i
        BY <3>1, <4>1 DEF IsLastOf, Matching
      <4>3. i = count
        BY <2>1, <4>2
      <4>4. QED
        BY <4>1, <4>3
    <3>4. \A i \in S : IsFirstOf(i, S) => i = count
      BY <2>1, <3>2 DEF IsFirstOf, Matching
    <3>5. QED
      BY <2>1, <2>2, <3>2, <3>3, <3>4 DEF DecidedBy, Matching
  <2>3. CASE phase = "left"
    <3>1. ~NoPackLast(msg.dest, n)
      BY DEF NoPackLast
    <3>2. count = n /\ FirstSoFar
      BY <1>1, <2>3, <3>1 DEF DecisionInv
    <3>3. S = {}
      BY <2>1, <3>2 DEF FirstSoFar
    <3>4. QED
      BY <2>3, <3>3
  <2>4. QED
    BY <2>2, <2>3 DEF Decided
<1>2. QED
  BY <1>1, DecisionAlways, PTL
=============================================================================
