------------------------- MODULE RouteSentencesProofs -------------------------
(***************************************************************************)
(* Theorems about RouteSentences: the table against the file as written,   *)
(* for files of any length.                                                *)
(***************************************************************************)
EXTENDS RouteSentences, RouteTableProofs

\* What the table keeps of a sentence.
Agree(via, s) ==
  /\ via.inited = s.inited /\ via.direct = s.direct
  /\ via.mail = s.mail /\ via.files = s.files
  /\ via.system = s.system /\ via.to = s.to

Blank(via) == ~via.inited => via.system = NoAddress

\* The last via and the last sentence.
LEMMA LastAgree ==
  ASSUME SentencesInv, vias # << >>
  PROVE  /\ ViaOK(InUse) /\ Blank(InUse)
         /\ LastWritten \in Via /\ written # << >>
         /\ Agree(InUse, LastWritten)
<1>1. vias \in Seq(Via) /\ written \in Seq(Via) /\ Len(written) = Len(vias)
  BY DEF SentencesInv, SentencesAsWritten, TableInv, TypeOK
<1>2. Len(vias) \in 1 .. Len(vias) /\ Len(vias) \in DOMAIN vias /\ written # << >>
  BY <1>1, EmptySeq, LenProperties
<1>3. LastWritten \in Via
  BY <1>1, <1>2, ElementOfSeq DEF LastWritten
<1>4. Agree(InUse, LastWritten) /\ Blank(InUse)
  BY <1>1, <1>2 DEF Agree, Blank, InUse, LastWritten, SentencesInv, SentencesAsWritten
<1>5. QED
  BY <1>2, <1>3, <1>4, InUseOK DEF SentencesInv

\* Rewriting both the same way keeps them in step.
LEMMA LastBoth ==
  ASSUME SentencesInv, vias # << >>, TableInv',
         NEW via \in Via, NEW s \in Via, Agree(via, s), Blank(via),
         ReplaceInUse(via), WriteLast(s),
         list' \in {"to", "from"}, excluding' \in BOOLEAN,
         onFrom' <=> list' = "from", list' = "to" => onExcept' = excluding'
  PROVE  SentencesInv'
<1> DEFINE n == Len(vias)
<1>1. vias \in Seq(Via) /\ written \in Seq(Via) /\ Len(written) = n
  BY DEF SentencesInv, SentencesAsWritten, TableInv, TypeOK
<1>2. /\ vias' \in Seq(Via) /\ Len(vias') = n /\ n \in Nat \ {0}
      /\ vias'[n] = via /\ \A i \in 1 .. n - 1 : vias'[i] = vias[i]
  BY <1>1, Replacing
<1>3. /\ written' \in Seq(Via) /\ Len(written') = n
      /\ written'[n] = s /\ \A i \in 1 .. n - 1 : written'[i] = written[i]
  BY <1>1, <1>2, ExceptSeq DEF WriteLast
<1>4. DOMAIN vias = 1 .. n /\ DOMAIN vias' = 1 .. n
  BY <1>1, <1>2, LenProperties
<1>5. \A i \in DOMAIN vias' : Agree(vias'[i], written'[i]) /\ Blank(vias'[i])
  <2>1. TAKE i \in DOMAIN vias'
  <2>2. CASE i = n
    BY <1>2, <1>3, <2>2
  <2>3. CASE i # n
    <3>1. i \in 1 .. n - 1 /\ i \in DOMAIN vias
      BY <1>2, <1>4, <2>3
    <3>2. vias'[i] = vias[i] /\ written'[i] = written[i]
      BY <1>2, <1>3, <3>1
    <3>3. QED
      BY <3>1, <3>2 DEF Agree, Blank, SentencesInv, SentencesAsWritten
  <2>4. QED
    BY <2>2, <2>3
<1>6. SentencesAsWritten'
  BY <1>2, <1>3, <1>5 DEF SentencesAsWritten, Agree
<1>7. QED
  BY <1>3, <1>5, <1>6 DEF SentencesInv, Blank

\* A sentence that says nothing is written over, like the via it has left.
LEMMA BeginKeeps ==
  ASSUME SentencesInv, TableInv', NEW v \in Verbs, Begin(v)
  PROVE  SentencesInv'
<1> DEFINE n == Len(vias)
<1>1. v \in Verb /\ NewVia(v) \in Via
  BY VocabularyAssumption, NewViaType
<1>2. vias \in Seq(Via) /\ written \in Seq(Via) /\ Len(written) = n /\ n \in Nat
  BY LenProperties DEF SentencesInv, SentencesAsWritten, TableInv, TypeOK
<1>3. vias = << >> <=> written = << >>
  BY <1>2, EmptySeq
<1>4. onFrom' = FALSE /\ onExcept' = FALSE /\ list' = "to" /\ excluding' = FALSE
  BY DEF Begin, SetupNewVia
<1>5. CASE vias # << >> /\ ~InUse.inited
  <2>1. /\ ViaOK(InUse) /\ Blank(InUse) /\ LastWritten \in Via
        /\ Agree(InUse, LastWritten) /\ written # << >>
    BY <1>5, LastAgree
  <2>2. ReplaceInUse(SetStatus(InUse, v)) /\ WriteLast(NewVia(v))
    BY <1>5, <2>1 DEF Begin, SetupNewVia, WriteLast, Agree
  <2>3. SetStatus(InUse, v) \in Via
    BY <1>1, <2>1, SetStatusType DEF ViaOK
  <2>4. InUse.system = NoAddress /\ InUse.to = << >> /\ InUse \in Via
    BY <1>5, <2>1 DEF Blank, ViaOK
  <2>5. Agree(SetStatus(InUse, v), NewVia(v)) /\ Blank(SetStatus(InUse, v))
    BY <1>1, <1>5, <2>4 DEF Agree, Blank, SetStatus, NewVia, Via, Verb
  <2>6. QED
    BY <1>1, <1>4, <1>5, <2>2, <2>3, <2>5, LastBoth
<1>6. CASE ~(vias # << >> /\ ~InUse.inited)
  <2>1. vias' = Append(vias, NewVia(v))
    BY <1>6 DEF Begin, SetupNewVia
  <2>2. written' = Append(written, NewVia(v))
    BY <1>3, <1>6, LastAgree DEF Begin, Agree
  <2>3. /\ vias' \in Seq(Via) /\ written' \in Seq(Via)
        /\ Len(vias') = n + 1 /\ Len(written') = n + 1
        /\ \A i \in 1 .. n : vias'[i] = vias[i] /\ written'[i] = written[i]
        /\ vias'[n + 1] = NewVia(v) /\ written'[n + 1] = NewVia(v)
    BY <1>1, <1>2, <2>1, <2>2, AppendProperties
  <2>4. DOMAIN vias' = 1 .. n + 1 /\ DOMAIN vias = 1 .. n
    BY <1>2, <2>3, LenProperties
  <2>5. \A i \in DOMAIN vias' : Agree(vias'[i], written'[i]) /\ Blank(vias'[i])
    <3>1. TAKE i \in DOMAIN vias'
    <3>2. CASE i = n + 1
      BY <2>3, <3>2 DEF Agree, Blank, NewVia
    <3>3. CASE i # n + 1
      <4>1. i \in 1 .. n /\ i \in DOMAIN vias
        BY <1>2, <2>4, <3>3
      <4>2. QED
        BY <2>3, <4>1 DEF Agree, Blank, SentencesInv, SentencesAsWritten
    <3>4. QED
      BY <3>2, <3>3
  <2>6. SentencesAsWritten'
    BY <2>3, <2>5 DEF SentencesAsWritten, Agree
  <2>7. QED
    BY <1>4, <2>3, <2>5, <2>6 DEF SentencesInv, Blank
<1>7. QED
  BY <1>5, <1>6

\* An address added to both.
LEMMA TargetBoth ==
  ASSUME SentencesInv, NEW w \in Words, NEW via \in Via, NEW s \in Via, Agree(via, s)
  PROVE  /\ WrittenTarget(s, w) \in Via
         /\ Agree(AddNewRoutedAddress(via, w), WrittenTarget(s, w))
<1>1. EntryOf(w) \in Entry
  BY EntryType DEF SentencesInv, TableInv, TypeOK
<1>2. WrittenEntry(w) \in Entry
  BY <1>1 DEF WrittenEntry, Entry, SentencesInv
<1>3. /\ s.to \in Seq(Entry) /\ s.from \in Seq(Entry)
      /\ Append(s.to, WrittenEntry(w)) \in Seq(Entry)
      /\ Append(s.from, WrittenEntry(w)) \in Seq(Entry)
  BY <1>2, AppendProperties DEF Via
<1>4. WrittenTarget(s, w) \in Via
  BY <1>3 DEF WrittenTarget, Via
<1>5. CASE list = "from"
  <2>1. onFrom
    BY <1>5 DEF SentencesInv
  <2>2. QED
    BY <1>4, <1>5, <2>1 DEF AddNewRoutedAddress, WrittenTarget, Agree, Via
<1>6. CASE list # "from"
  <2>1. ~onFrom /\ onExcept = excluding
    BY <1>6 DEF SentencesInv
  <2>2. WrittenEntry(w) = EntryOf(w)
    BY <2>1 DEF WrittenEntry, EntryOf
  <2>3. QED
    BY <1>4, <1>6, <2>1, <2>2 DEF AddNewRoutedAddress, WrittenTarget, Agree, Via
<1>7. QED
  BY <1>4, <1>5, <1>6

LEMMA WriteWaypointKeeps ==
  ASSUME SentencesInv, TableInv', NEW w \in Words, WriteWaypoint(w)
  PROVE  SentencesInv'
<1> DEFINE here == Qualified(w)
           via == [InUse EXCEPT !.inited = TRUE, !.system = here]
           s == [LastWritten EXCEPT !.inited = TRUE, !.system = here]
<1>1. vias # << >> /\ TableInv
  BY DEF SentencesInv, TableInv, WriteWaypoint, SetWaypoint, InSentence
<1>2. ViaOK(InUse) /\ LastWritten \in Via /\ Agree(InUse, LastWritten)
  BY <1>1, LastAgree
<1>3. here \in Address
  BY VocabularyAssumption, NamesAssumption
     DEF WriteWaypoint, SetWaypoint, FullyQualified, Qualified, Word, Address
<1>4. via \in Via /\ s \in Via /\ Agree(via, s) /\ via.inited /\ Blank(via)
  BY <1>2, <1>3 DEF ViaOK, Via, Agree, Blank
<1>5. /\ list' \in {"to", "from"} /\ excluding' \in BOOLEAN
      /\ onFrom' <=> list' = "from"
      /\ list' = "to" => onExcept' = excluding'
  BY DEF WriteWaypoint, SetWaypoint, SentencesInv
<1>6. CASE "ASSUMEWAYPOINTS" \in switches
  <2>1. ReplaceInUse(AddNewRoutedAddress(via, w)) /\ WriteLast(WrittenTarget(s, w))
    BY <1>6 DEF WriteWaypoint, SetWaypoint
  <2>2. WrittenTarget(s, w) \in Via /\ Agree(AddNewRoutedAddress(via, w), WrittenTarget(s, w))
    BY <1>4, TargetBoth
  <2>3. AddNewRoutedAddress(via, w) \in Via /\ Blank(AddNewRoutedAddress(via, w))
    BY <1>1, <1>4, AddEntryType DEF TableInv, Blank
  <2>4. QED
    BY <1>1, <1>5, <2>1, <2>2, <2>3, LastBoth
<1>7. CASE "ASSUMEWAYPOINTS" \notin switches
  <2>1. ReplaceInUse(via) /\ WriteLast(s)
    BY <1>7 DEF WriteWaypoint, SetWaypoint
  <2>2. QED
    BY <1>1, <1>4, <1>5, <2>1, LastBoth
<1>8. QED
  BY <1>6, <1>7

LEMMA WriteTargetKeeps ==
  ASSUME SentencesInv, TableInv', NEW w \in Words, WriteTarget(w)
  PROVE  SentencesInv'
<1>1. vias # << >> /\ TableInv /\ InUse.inited
  BY DEF SentencesInv, TableInv, WriteTarget, AddTarget, InSentence
<1>2. InUse \in Via /\ LastWritten \in Via /\ Agree(InUse, LastWritten)
  BY <1>1, LastAgree DEF ViaOK
<1>3. /\ AddNewRoutedAddress(InUse, w) \in Via /\ Blank(AddNewRoutedAddress(InUse, w))
      /\ WrittenTarget(LastWritten, w) \in Via
      /\ Agree(AddNewRoutedAddress(InUse, w), WrittenTarget(LastWritten, w))
  BY <1>1, <1>2, AddEntryType, TargetBoth DEF TableInv, Blank
<1>4. /\ ReplaceInUse(AddNewRoutedAddress(InUse, w))
      /\ WriteLast(WrittenTarget(LastWritten, w))
  BY DEF WriteTarget, AddTarget
<1>5. QED
  BY <1>1, <1>3, <1>4, LastBoth DEF WriteTarget, AddTarget, SentencesInv

LEMMA WriteFlavourKeeps ==
  ASSUME SentencesInv, TableInv', NEW f \in Flavours, WriteFlavour(f)
  PROVE  SentencesInv'
<1> DEFINE via == [InUse EXCEPT !.attrib = f]
           s == [LastWritten EXCEPT !.attrib = f]
<1>1. vias # << >>
  BY DEF SentencesInv, TableInv, WriteFlavour, SetAttrib, InSentence
<1>2. InUse \in Via /\ LastWritten \in Via /\ Agree(InUse, LastWritten) /\ Blank(InUse)
  BY <1>1, LastAgree DEF ViaOK
<1>3. via \in Via /\ s \in Via /\ Agree(via, s) /\ Blank(via)
  BY <1>2, VocabularyAssumption DEF Via, Agree, Blank
<1>4. ReplaceInUse(via) /\ WriteLast(s)
  BY DEF WriteFlavour, SetAttrib
<1>5. QED
  BY <1>1, <1>3, <1>4, LastBoth DEF WriteFlavour, SetAttrib, SentencesInv

LEMMA WriteEncryptionKeeps ==
  ASSUME SentencesInv, TableInv', NEW e \in Encryptions, WriteEncryption(e)
  PROVE  SentencesInv'
<1>1. vias # << >>
  BY DEF SentencesInv, TableInv, WriteEncryption, SetEncryption, InSentence
<1>2. InUse \in Via /\ LastWritten \in Via /\ Agree(InUse, LastWritten) /\ Blank(InUse)
  BY <1>1, LastAgree DEF ViaOK
<1>3. PICK via \in {[InUse EXCEPT !.plain = FALSE], [InUse EXCEPT !.encrypted = FALSE]} :
        ReplaceInUse(via)
  BY DEF WriteEncryption, SetEncryption
<1>4. PICK s \in {[LastWritten EXCEPT !.plain = FALSE], [LastWritten EXCEPT !.encrypted = FALSE]} :
        WriteLast(s)
  BY DEF WriteEncryption
<1>5. via \in Via /\ s \in Via /\ Agree(via, s) /\ Blank(via)
  BY <1>2 DEF Via, Agree, Blank
<1>6. QED
  BY <1>1, <1>3, <1>4, <1>5, LastBoth DEF WriteEncryption, SetEncryption, SentencesInv

\* The words that leave the table and the sentences alone.
LEMMA OtherWordsKeep ==
  ASSUME SentencesInv, TableInv', UNCHANGED << vias, written >>,
         list' \in {"to", "from"}, excluding' \in BOOLEAN,
         onFrom' <=> list' = "from", list' = "to" => onExcept' = excluding'
  PROVE  SentencesInv'
BY DEF SentencesInv, SentencesAsWritten

LEMMA SentencesTable == [SentencesNext]_sentenceVars => [TableNext]_tableVars
BY DEF SentencesNext, Begin, WriteWaypoint, WriteTarget, WriteFrom, WriteExcept,
       WriteFlavour, WriteEncryption, Elsewhere, TableNext, sentenceVars

LEMMA SentencesInvInit == SentencesInit => SentencesInv
<1> SUFFICES ASSUME SentencesInit PROVE SentencesInv
  OBVIOUS
<1>1. TableInv /\ vias = << >> /\ written = << >>
  BY TableInvInit DEF SentencesInit, TableInit
<1>2. written \in Seq(Via) /\ DOMAIN vias = {}
  BY <1>1, EmptySeq, LenProperties
<1>3. SentencesAsWritten
  BY <1>1, <1>2 DEF SentencesAsWritten
<1>4. QED
  BY <1>1, <1>2, <1>3 DEF SentencesInit, TableInit, SentencesInv

LEMMA SentencesInvNext == SentencesInv /\ [SentencesNext]_sentenceVars => SentencesInv'
<1> SUFFICES ASSUME SentencesInv, [SentencesNext]_sentenceVars PROVE SentencesInv'
  OBVIOUS
<1>0. TableInv'
  BY SentencesTable, TableInvNext DEF SentencesInv
<1>1. ASSUME NEW v \in Verbs, Begin(v) PROVE SentencesInv'
  BY <1>0, <1>1, BeginKeeps
<1>2. ASSUME NEW w \in Words, WriteWaypoint(w) PROVE SentencesInv'
  BY <1>0, <1>2, WriteWaypointKeeps
<1>3. ASSUME NEW w \in Words, WriteTarget(w) PROVE SentencesInv'
  BY <1>0, <1>3, WriteTargetKeeps
<1>4. CASE WriteFrom
  BY <1>0, <1>4, OtherWordsKeep DEF WriteFrom, SetOnFrom, SentencesInv
<1>5. CASE WriteExcept
  <2>1. list' = list /\ excluding' \in BOOLEAN /\ onFrom' = onFrom
    BY <1>5 DEF WriteExcept, SwitchExcept
  <2>2. list' = "to" => onExcept' = excluding'
    BY <1>5 DEF WriteExcept, SwitchExcept, SentencesInv
  <2>3. QED
    BY <1>0, <1>5, <2>1, <2>2, OtherWordsKeep DEF WriteExcept, SwitchExcept, SentencesInv
<1>6. ASSUME NEW f \in Flavours, WriteFlavour(f) PROVE SentencesInv'
  BY <1>0, <1>6, WriteFlavourKeeps
<1>7. ASSUME NEW e \in Encryptions, WriteEncryption(e) PROVE SentencesInv'
  BY <1>0, <1>7, WriteEncryptionKeeps
<1>8. CASE Elsewhere
  BY <1>0, <1>8, OtherWordsKeep
     DEF Elsewhere, BadWaypoint, Switch, OtherCommand, EndOfFile, SentencesInv
<1>9. CASE UNCHANGED sentenceVars
  BY <1>0, <1>9, OtherWordsKeep DEF sentenceVars, tableVars, SentencesInv
<1>10. QED
  BY <1>1, <1>2, <1>3, <1>4, <1>5, <1>6, <1>7, <1>8, <1>9 DEF SentencesNext

\* However the sentences of a file are abandoned, interrupted and worded, the
\* table has their verbs, waypoints and to lists in the order they were written.
THEOREM TableAsWritten == SentencesSpec => []SentencesAsWritten
<1>1. SentencesInv => SentencesAsWritten
  BY DEF SentencesInv
<1>2. QED
  BY <1>1, SentencesInvInit, SentencesInvNext, PTL DEF SentencesSpec
=============================================================================
