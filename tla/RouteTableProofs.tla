--------------------------- MODULE RouteTableProofs ---------------------------
(***************************************************************************)
(* Theorems about RouteTable, for every vocabulary and every size of the   *)
(* file.                                                                   *)
(***************************************************************************)
EXTENDS RouteTable, SequenceTheorems, TLAPS

\* A word of a file becomes an entry of a list.
LEMMA EntryType ==
  ASSUME onExcept \in BOOLEAN, NEW w \in Words
  PROVE  EntryOf(w) \in Entry
BY VocabularyAssumption DEF EntryOf, Entry, Word

\* Adding an entry keeps a via a via.
LEMMA AddEntryType ==
  ASSUME TypeOK, NEW via \in Via, NEW w \in Words
  PROVE  /\ AddNewRoutedAddress(via, w) \in Via
         /\ AddNewRoutedAddress(via, w).inited = via.inited
         /\ AddNewRoutedAddress(via, w).direct = via.direct
         /\ AddNewRoutedAddress(via, w).system = via.system
<1>1. EntryOf(w) \in Entry
  BY EntryType DEF TypeOK
<1>2. Append(via.from, EntryOf(w)) \in Seq(Entry) /\ Append(via.to, EntryOf(w)) \in Seq(Entry)
  BY <1>1 DEF Via
<1>3. QED
  BY <1>2 DEF AddNewRoutedAddress, Via

\* What a verb starts with is a via.
LEMMA NewViaType ==
  ASSUME NEW v \in Verb PROVE NewVia(v) \in Via
<1>1. << >> \in Seq(Entry)
  BY EmptySeq
<1>2. QED
  BY <1>1 DEF NewVia, Verb, Via, Attrib

LEMMA SetStatusType ==
  ASSUME NEW via \in Via, NEW v \in Verb PROVE SetStatus(via, v) \in Via
BY DEF SetStatus, Via, Verb

\* The last via, and the table with another via in its place.
LEMMA Replacing ==
  ASSUME vias \in Seq(Via), vias # << >>, NEW via \in Via, ReplaceInUse(via)
  PROVE  /\ InUse \in Via
         /\ vias' \in Seq(Via)
         /\ Len(vias') = Len(vias)
         /\ Len(vias) \in Nat \ {0}
         /\ vias'[Len(vias)] = via
         /\ \A i \in 1 .. Len(vias) - 1 : vias'[i] = vias[i]
<1>1. Len(vias) \in Nat \ {0}
  BY EmptySeq
<1>2. Len(vias) \in 1 .. Len(vias)
  BY <1>1
<1>3. QED
  BY <1>1, <1>2, ExceptSeq, ElementOfSeq DEF ReplaceInUse, InUse

-----------------------------------------------------------------------------
\* What TableInv says of one via.
ViaOK(via) ==
  /\ via \in Via
  /\ via.encrypted \/ via.plain
  /\ ~via.inited => via.direct = "Routed" /\ via.to = << >>
  /\ via.inited /\ via.direct = "Routed" => via.system \in Address

\* Rewriting the last via keeps the invariant if the new one is in order.
LEMMA ReplacingKeeps ==
  ASSUME TableInv, vias # << >>, NEW via, ViaOK(via), ReplaceInUse(via),
         onFrom' \in BOOLEAN, onExcept' \in BOOLEAN,
         switches' \subseteq {"TOPDOWN", "ASSUMEPOINTS", "ASSUMEWAYPOINTS"},
         reader' \in {"outside", "sentence", "ready", "fatal"}
  PROVE  TableInv'
<1>1. vias \in Seq(Via) /\ via \in Via
  BY DEF TableInv, TypeOK, ViaOK
<1>2. /\ vias' \in Seq(Via)
      /\ Len(vias') = Len(vias)
      /\ Len(vias) \in Nat \ {0}
      /\ vias'[Len(vias)] = via
      /\ \A i \in 1 .. Len(vias) - 1 : vias'[i] = vias[i]
  BY <1>1, Replacing
<1>3. DOMAIN vias = 1 .. Len(vias) /\ DOMAIN vias' = 1 .. Len(vias)
  BY <1>1, <1>2, LenProperties
<1>4. ASSUME NEW i \in DOMAIN vias'
      PROVE  vias'[i] = via \/ (i \in 1 .. Len(vias) - 1 /\ vias'[i] = vias[i])
  BY <1>2, <1>3
<1>5. TypeOK'
  BY <1>2 DEF TypeOK
<1>6. OnlyLastIncomplete'
  BY <1>2 DEF OnlyLastIncomplete, TableInv
<1>7. SomeKindRouted'
  BY <1>3, <1>4 DEF SomeKindRouted, ViaOK, TableInv
<1>8. vias' # << >>
  BY <1>2, EmptySeq
<1>9. QED
  BY <1>3, <1>4, <1>5, <1>6, <1>7, <1>8 DEF TableInv, ViaOK

\* The via of the sentence being read.
LEMMA InUseOK ==
  ASSUME TableInv, vias # << >>
  PROVE  ViaOK(InUse)
<1>1. vias \in Seq(Via)
  BY DEF TableInv, TypeOK
<1>2. Len(vias) \in 1 .. Len(vias) /\ DOMAIN vias = 1 .. Len(vias)
  BY <1>1, EmptySeq, LenProperties
<1>3. QED
  BY <1>1, <1>2, ElementOfSeq DEF InUse, ViaOK, TableInv, SomeKindRouted

LEMMA SetupNewViaKeeps ==
  ASSUME TableInv, NEW v \in Verbs, SetupNewVia(v)
  PROVE  TableInv'
<1>1. v \in Verb
  BY VocabularyAssumption
<1>2. CASE vias # << >> /\ ~InUse.inited
  <2>1. ViaOK(InUse)
    BY <1>2, InUseOK
  <2>2. ViaOK(SetStatus(InUse, v))
    BY <1>1, <1>2, <2>1, SetStatusType DEF ViaOK, SetStatus, Via, Verb, Direction
  <2>3. QED
    BY <1>2, <2>2, ReplacingKeeps DEF SetupNewVia, TableInv, TypeOK
<1>3. CASE ~(vias # << >> /\ ~InUse.inited)
  <2>1. vias \in Seq(Via) /\ NewVia(v) \in Via /\ vias' = Append(vias, NewVia(v))
    BY <1>1, <1>3, NewViaType DEF SetupNewVia, TableInv, TypeOK
  <2>2. ViaOK(NewVia(v))
    BY <1>1, NewViaType DEF ViaOK, NewVia, Verb, Direction
  <2>3. /\ Len(vias) \in Nat
        /\ vias' \in Seq(Via) /\ Len(vias') = Len(vias) + 1
        /\ \A i \in 1 .. Len(vias) : vias'[i] = vias[i]
        /\ vias'[Len(vias) + 1] = NewVia(v)
        /\ DOMAIN vias = 1 .. Len(vias) /\ DOMAIN vias' = 1 .. Len(vias) + 1
    BY <2>1, LenProperties
  <2>4. \A i \in 1 .. Len(vias) : vias[i].inited
    BY <1>3, <2>3, EmptySeq DEF TableInv, OnlyLastIncomplete, InUse
  <2>5. \A i \in DOMAIN vias' : i \in DOMAIN vias \/ vias'[i] = NewVia(v)
    BY <2>3
  <2>6. TypeOK'
    BY <2>3 DEF TypeOK, TableInv, SetupNewVia
  <2>7. OnlyLastIncomplete'
    BY <2>3, <2>4 DEF OnlyLastIncomplete
  <2>8. SomeKindRouted'
    BY <2>2, <2>3, <2>5 DEF SomeKindRouted, ViaOK, TableInv
  <2>9. vias' # << >>
    BY <2>3, EmptySeq
  <2>10. QED
    BY <2>2, <2>3, <2>5, <2>6, <2>7, <2>8, <2>9 DEF TableInv, ViaOK
<1>4. QED
  BY <1>2, <1>3

\* The words that rewrite the via in use and change nothing else.
LEMMA WordKeeps ==
  ASSUME TableInv, reader = "sentence", reader' = "sentence",
         NEW via, ViaOK(via), ReplaceInUse(via),
         UNCHANGED << onFrom, onExcept, switches >>
  PROVE  TableInv'
BY ReplacingKeeps DEF TableInv, TypeOK

LEMMA SetWaypointKeeps ==
  ASSUME TableInv, NEW w \in Words, SetWaypoint(w)
  PROVE  TableInv'
<1> DEFINE here == Qualified(w)
           via == [InUse EXCEPT !.inited = TRUE, !.system = here]
<1>1. ViaOK(InUse)
  BY InUseOK DEF TableInv, SetWaypoint, InSentence
<1>2. here \in Address
  BY VocabularyAssumption, NamesAssumption
     DEF SetWaypoint, FullyQualified, Qualified, Word, Address
<1>3. via \in Via /\ ViaOK(via) /\ via.inited
  BY <1>1, <1>2 DEF ViaOK, Via
<1>4. ViaOK(AddNewRoutedAddress(via, w))
  <2>1. AddNewRoutedAddress(via, w).encrypted \/ AddNewRoutedAddress(via, w).plain
    BY <1>3 DEF AddNewRoutedAddress, ViaOK, Via
  <2>2. QED
    BY <1>3, <2>1, AddEntryType DEF ViaOK, TableInv
<1>5. ReplaceInUse(via) \/ ReplaceInUse(AddNewRoutedAddress(via, w))
  BY DEF SetWaypoint
<1>6. QED
  BY <1>3, <1>4, <1>5, WordKeeps DEF SetWaypoint, InSentence

LEMMA AddTargetKeeps ==
  ASSUME TableInv, NEW w \in Words, AddTarget(w)
  PROVE  TableInv'
<1>1. ViaOK(InUse) /\ InUse.inited
  BY InUseOK DEF TableInv, AddTarget, InSentence
<1>2. ViaOK(AddNewRoutedAddress(InUse, w))
  <2>1. \/ AddNewRoutedAddress(InUse, w).encrypted
        \/ AddNewRoutedAddress(InUse, w).plain
    BY <1>1 DEF AddNewRoutedAddress, ViaOK, Via
  <2>2. QED
    BY <1>1, <2>1, AddEntryType DEF ViaOK, TableInv
<1>3. QED
  BY <1>2, WordKeeps DEF AddTarget, InSentence

LEMMA SetAttribKeeps ==
  ASSUME TableInv, NEW f \in Flavours, SetAttrib(f)
  PROVE  TableInv'
<1>1. ViaOK(InUse)
  BY InUseOK DEF TableInv, SetAttrib, InSentence
<1>2. ViaOK([InUse EXCEPT !.attrib = f])
  BY <1>1, VocabularyAssumption DEF ViaOK, Via
<1>3. QED
  BY <1>2, WordKeeps DEF SetAttrib, InSentence

LEMMA SetEncryptionKeeps ==
  ASSUME TableInv, NEW e \in Encryptions, SetEncryption(e)
  PROVE  TableInv'
<1>1. ViaOK(InUse)
  BY InUseOK DEF TableInv, SetEncryption, InSentence
<1>2. CASE InUse.encrypted /\ ReplaceInUse([InUse EXCEPT !.plain = FALSE])
  <2>1. ViaOK([InUse EXCEPT !.plain = FALSE])
    BY <1>1, <1>2 DEF ViaOK, Via
  <2>2. QED
    BY <1>2, <2>1, WordKeeps DEF SetEncryption, InSentence
<1>3. CASE InUse.plain /\ ReplaceInUse([InUse EXCEPT !.encrypted = FALSE])
  <2>1. ViaOK([InUse EXCEPT !.encrypted = FALSE])
    BY <1>1, <1>3 DEF ViaOK, Via
  <2>2. QED
    BY <1>3, <2>1, WordKeeps DEF SetEncryption, InSentence
<1>4. QED
  BY <1>2, <1>3 DEF SetEncryption

\* The steps that leave the vias alone.
LEMMA OthersKeep ==
  ASSUME TableInv, UNCHANGED vias,
         reader' = "sentence" => reader = "sentence",
         reader' \in {"outside", "sentence", "ready", "fatal"},
         onFrom' \in BOOLEAN, onExcept' \in BOOLEAN,
         switches' \subseteq {"TOPDOWN", "ASSUMEPOINTS", "ASSUMEWAYPOINTS"}
  PROVE  TableInv'
BY DEF TableInv, TypeOK, OnlyLastIncomplete, SomeKindRouted

LEMMA TableInvInit == TableInit => TableInv
<1>1. SUFFICES ASSUME TableInit PROVE TableInv
  OBVIOUS
<1>2. vias \in Seq(Via) /\ Len(vias) = 0 /\ DOMAIN vias = {}
  BY <1>1, EmptySeq, LenProperties DEF TableInit
<1>3. TypeOK
  BY <1>1, <1>2 DEF TableInit, TypeOK
<1>4. OnlyLastIncomplete
  <2>1. 1 .. Len(vias) - 1 = {}
    BY <1>2
  <2>2. QED
    BY <2>1 DEF OnlyLastIncomplete
<1>5. SomeKindRouted
  BY <1>2 DEF SomeKindRouted
<1>6. QED
  BY <1>1, <1>2, <1>3, <1>4, <1>5 DEF TableInit, TableInv

LEMMA TableInvNext == TableInv /\ [TableNext]_tableVars => TableInv'
<1> SUFFICES ASSUME TableInv, [TableNext]_tableVars PROVE TableInv'
  OBVIOUS
<1>1. ASSUME NEW v \in Verbs, SetupNewVia(v) PROVE TableInv'
  BY <1>1, SetupNewViaKeeps
<1>2. ASSUME NEW w \in Words, SetWaypoint(w) PROVE TableInv'
  BY <1>2, SetWaypointKeeps
<1>3. ASSUME NEW w \in Words, BadWaypoint(w) PROVE TableInv'
  BY <1>3, OthersKeep DEF BadWaypoint, TableInv, TypeOK
<1>4. ASSUME NEW w \in Words, AddTarget(w) PROVE TableInv'
  BY <1>4, AddTargetKeeps
<1>5. CASE SetOnFrom
  BY <1>5, OthersKeep DEF SetOnFrom, InSentence, TableInv, TypeOK
<1>6. CASE SwitchExcept
  BY <1>6, OthersKeep DEF SwitchExcept, InSentence, TableInv, TypeOK
<1>7. ASSUME NEW f \in Flavours, SetAttrib(f) PROVE TableInv'
  BY <1>7, SetAttribKeeps
<1>8. ASSUME NEW e \in Encryptions, SetEncryption(e) PROVE TableInv'
  BY <1>8, SetEncryptionKeeps
<1>9. ASSUME NEW s \in Switches, Switch(s) PROVE TableInv'
  BY <1>9, OthersKeep, VocabularyAssumption DEF Switch, TableInv, TypeOK
<1>10. CASE OtherCommand
  BY <1>10, OthersKeep DEF OtherCommand, TableInv, TypeOK
<1>11. CASE EndOfFile
  BY <1>11, OthersKeep DEF EndOfFile, TableInv, TypeOK
<1>12. CASE UNCHANGED tableVars
  BY <1>12, OthersKeep DEF tableVars, TableInv, TypeOK
<1>13. QED
  BY <1>1, <1>2, <1>3, <1>4, <1>5, <1>6, <1>7, <1>8, <1>9, <1>10, <1>11, <1>12
     DEF TableNext

\* The resolvers look at complete vias only.
LEMMA TableInvComplete == TableInv => TableComplete
<1> SUFFICES ASSUME TableInv, NEW i \in 1 .. GetViaCount, vias[i].direct = "Routed"
             PROVE  vias[i].system \in Address
  BY DEF TableComplete
<1>1. vias \in Seq(Via) /\ Len(vias) \in Nat /\ DOMAIN vias = 1 .. Len(vias)
  BY LenProperties DEF TableInv, TypeOK
<1>2. i \in DOMAIN vias /\ vias[i].inited
  BY <1>1 DEF GetViaCount, TableInv, OnlyLastIncomplete, InUse
<1>3. QED
  BY <1>2 DEF TableInv

\* The table is well formed whatever words the file has: its types are right,
\* only the via of the sentence being read may lack its waypoint, the resolvers
\* see none without one, and no via refuses both encrypted and plain mail.
THEOREM TableWellFormed ==
  TableSpec => [](TypeOK /\ OnlyLastIncomplete /\ TableComplete /\ SomeKindRouted)
<1>1. TableInv => TypeOK /\ OnlyLastIncomplete /\ TableComplete /\ SomeKindRouted
  BY TableInvComplete DEF TableInv
<1>2. QED
  BY <1>1, TableInvInit, TableInvNext, PTL DEF TableSpec

\* The type invariant of the table: the reader takes each word for what it is.
THEOREM TableTyped == TableSpec => []TypeOK
<1>1. QED
  BY TableWellFormed, PTL

-----------------------------------------------------------------------------
(***************************************************************************)
(* The table implements the list of rules (module RuleList)                *)
(***************************************************************************)
\* A prefix of a table.
LEMMA PrefixIs ==
  ASSUME NEW s \in Seq(Via), NEW n \in 0 .. Len(s)
  PROVE  /\ SubSeq(s, 1, n) \in Seq(Via)
         /\ Len(SubSeq(s, 1, n)) = n
         /\ \A i \in 1 .. n : SubSeq(s, 1, n)[i] = s[i]
<1>1. Len(s) \in Nat /\ \A i \in 1 .. n : s[i] \in Via
  BY ElementOfSeq, LenProperties
<1>2. n \in Nat
  BY <1>1
<1>3. QED
  BY <1>1, <1>2, SubSeqProperties

\* What GetViaCount leaves out.
LEMMA CountIs ==
  ASSUME TableInv
  PROVE  /\ vias \in Seq(Via) /\ Len(vias) \in Nat
         /\ GetViaCount \in 0 .. Len(vias)
         /\ vias # << >> =>
              /\ Len(vias) # 0
              /\ InUse.inited => GetViaCount = Len(vias)
              /\ ~InUse.inited => GetViaCount = Len(vias) - 1
         /\ vias = << >> => GetViaCount = 0
<1>1. vias \in Seq(Via) /\ Len(vias) \in Nat
  BY LenProperties DEF TableInv, TypeOK
<1>2. vias # << >> => Len(vias) # 0
  BY <1>1, EmptySeq
<1>3. QED
  BY <1>1, <1>2, EmptySeq DEF GetViaCount

\* A rule at the end.
LEMMA Adding ==
  ASSUME NEW s \in Seq(Via), NEW t \in Seq(Via), NEW n \in 0 .. Len(s),
         n + 1 = Len(t), \A i \in 1 .. n : t[i] = s[i],
         t[n + 1].direct = "Routed" => t[n + 1].system # NoAddress
  PROVE  LET u == SubSeq(s, 1, n)
             v == SubSeq(t, 1, n + 1)
         IN /\ Len(v) = Len(u) + 1
            /\ \A i \in 1 .. Len(u) : v[i] = u[i]
            /\ v[Len(v)].direct = "Routed" => v[Len(v)].system # NoAddress
<1>1. n \in Nat /\ n + 1 \in 0 .. Len(t)
  BY LenProperties
<1>2. QED
  BY <1>1, PrefixIs

\* Prefixes that agree are the same rules.
LEMMA Same ==
  ASSUME NEW s \in Seq(Via), NEW t \in Seq(Via), NEW n \in 0 .. Len(s),
         n <= Len(t), \A i \in 1 .. n : t[i] = s[i]
  PROVE  SubSeq(t, 1, n) = SubSeq(s, 1, n)
<1>1. n \in 0 .. Len(t)
  BY LenProperties
<1>2. QED
  BY <1>1, PrefixIs, SeqEqual

\* Appending an entry extends a list and keeps what it had.
LEMMA AppendExtends ==
  ASSUME NEW s \in Seq(Entry), NEW e \in Entry
  PROVE  Rules!IsExtension(s, Append(s, e)) /\ Rules!IsExtension(s, s)
<1>1. Len(s) \in Nat
  BY LenProperties
<1>2. QED
  BY <1>1, AppendProperties DEF Rules!IsExtension

\* Rewriting the last via is one more rule if that gives it its waypoint, an
\* amendment of the last rule if it had one, and nothing if it has none yet.
LEMMA ReplacingRefines ==
  ASSUME TableInv, vias # << >>, NEW via, ViaOK(via), ReplaceInUse(via),
         InUse.inited => via.inited /\ Rules!Grows(InUse, via)
  PROVE  [Rules!Next]_Table
<1> DEFINE n == Len(vias)
<1>1. vias \in Seq(Via) /\ via \in Via
  BY DEF TableInv, TypeOK, ViaOK
<1>2. /\ vias' \in Seq(Via) /\ Len(vias') = n /\ n \in Nat \ {0}
      /\ vias'[n] = via /\ \A i \in 1 .. n - 1 : vias'[i] = vias[i]
  BY <1>1, Replacing
<1>3. vias' # << >>
  BY <1>2, EmptySeq
<1>4. InUse' = via
  BY <1>2 DEF InUse
<1>5. CASE ~InUse.inited /\ ~via.inited
  <2>1. GetViaCount = n - 1 /\ GetViaCount' = n - 1
    BY <1>2, <1>3, <1>4, <1>5 DEF GetViaCount
  <2>2. n - 1 \in 0 .. Len(vias) /\ n - 1 <= Len(vias')
    BY <1>2
  <2>3. SubSeq(vias', 1, n - 1) = SubSeq(vias, 1, n - 1)
    BY <1>1, <1>2, <2>2, Same
  <2>4. QED
    BY <2>1, <2>3 DEF Table
<1>6. CASE ~InUse.inited /\ via.inited
  <2>1. GetViaCount = n - 1 /\ GetViaCount' = (n - 1) + 1
    BY <1>2, <1>3, <1>4, <1>6 DEF GetViaCount
  <2>2. n - 1 \in 0 .. Len(vias) /\ (n - 1) + 1 = Len(vias') /\ (n - 1) + 1 = n
    BY <1>2
  <2>3. via.direct = "Routed" => via.system # NoAddress
    BY <1>6, NamesAssumption DEF ViaOK, Address
  <2>4. LET u == SubSeq(vias, 1, n - 1)
            v == SubSeq(vias', 1, (n - 1) + 1)
        IN /\ Len(v) = Len(u) + 1
           /\ \A i \in 1 .. Len(u) : v[i] = u[i]
           /\ v[Len(v)].direct = "Routed" => v[Len(v)].system # NoAddress
    BY <1>1, <1>2, <2>2, <2>3, Adding
  <2>5. Rules!AddRule
    BY <2>1, <2>4 DEF Table, Rules!AddRule, Rules!EarlierStay, Rules!Complete
  <2>6. QED
    BY <2>5 DEF Rules!Next
<1>7. CASE InUse.inited
  <2>1. GetViaCount = n /\ GetViaCount' = n
    BY <1>2, <1>3, <1>4, <1>7 DEF GetViaCount
  <2>2. /\ Len(Table) = n /\ Len(Table') = n
        /\ \A i \in 1 .. n : Table[i] = vias[i] /\ Table'[i] = vias'[i]
        /\ Table \in Seq(Via)
    BY <1>1, <1>2, <2>1, PrefixIs DEF Table
  <2>3. Table # << >>
    BY <1>2, <2>2, EmptySeq
  <2>4. Table[n] = InUse /\ Table'[n] = via /\ \A i \in 1 .. n - 1 : Table'[i] = Table[i]
    BY <1>2, <2>2 DEF InUse
  <2>5. Rules!AmendLast
    BY <1>7, <2>2, <2>3, <2>4 DEF Rules!AmendLast, Rules!EarlierStay
  <2>6. QED
    BY <2>5 DEF Rules!Next
<1>8. QED
  BY <1>5, <1>6, <1>7

LEMMA UnchangedRefines ==
  ASSUME UNCHANGED vias
  PROVE  [Rules!Next]_Table
BY DEF Table, GetViaCount, InUse

\* A verb starts a rule at once when it needs no waypoint.
LEMMA SetupNewViaRefines ==
  ASSUME TableInv, NEW v \in Verbs, SetupNewVia(v)
  PROVE  [Rules!Next]_Table
<1>1. v \in Verb
  BY VocabularyAssumption
<1>2. CASE vias # << >> /\ ~InUse.inited
  <2>1. ViaOK(InUse)
    BY <1>2, InUseOK
  <2>2. ViaOK(SetStatus(InUse, v))
    BY <1>1, <1>2, <2>1, SetStatusType DEF ViaOK, SetStatus, Via, Verb, Direction
  <2>3. QED
    BY <1>2, <2>2, ReplacingRefines DEF SetupNewVia
<1>3. CASE ~(vias # << >> /\ ~InUse.inited)
  <2> DEFINE n == Len(vias)
  <2>1. vias \in Seq(Via) /\ NewVia(v) \in Via /\ vias' = Append(vias, NewVia(v))
    BY <1>1, <1>3, NewViaType DEF SetupNewVia, TableInv, TypeOK
  <2>2. /\ n \in Nat /\ vias' \in Seq(Via) /\ Len(vias') = n + 1 /\ vias' # << >>
        /\ \A i \in 1 .. n : vias'[i] = vias[i]
        /\ vias'[n + 1] = NewVia(v)
    BY <2>1, AppendProperties, LenProperties
  <2>3. GetViaCount = n
    BY <1>3, <2>1, EmptySeq DEF GetViaCount
  <2>4. InUse' = NewVia(v)
    BY <2>2 DEF InUse
  <2>5. CASE v.direct = "Routed"
    <3>1. GetViaCount' = n
      <4>1. ~NewVia(v).inited
        BY <2>5 DEF NewVia
      <4>2. QED
        BY <2>2, <2>4, <4>1 DEF GetViaCount
    <3>2. SubSeq(vias', 1, n) = SubSeq(vias, 1, n)
      BY <2>1, <2>2, Same
    <3>3. QED
      BY <2>3, <3>1, <3>2 DEF Table
  <2>6. CASE v.direct # "Routed"
    <3>1. GetViaCount' = n + 1
      BY <2>2, <2>4, <2>6 DEF GetViaCount, NewVia
    <3>2. NewVia(v).direct # "Routed"
      BY <2>6 DEF NewVia
    <3>3. LET u == SubSeq(vias, 1, n)
              w == SubSeq(vias', 1, n + 1)
          IN /\ Len(w) = Len(u) + 1
             /\ \A i \in 1 .. Len(u) : w[i] = u[i]
             /\ w[Len(w)].direct = "Routed" => w[Len(w)].system # NoAddress
      BY <2>1, <2>2, <3>2, Adding
    <3>4. Rules!AddRule
      BY <2>3, <3>1, <3>3 DEF Table, Rules!AddRule, Rules!EarlierStay, Rules!Complete
    <3>5. QED
      BY <3>4 DEF Rules!Next
  <2>7. QED
    BY <2>5, <2>6
<1>4. QED
  BY <1>2, <1>3

LEMMA SetWaypointRefines ==
  ASSUME TableInv, NEW w \in Words, SetWaypoint(w)
  PROVE  [Rules!Next]_Table
<1> DEFINE here == Qualified(w)
           via == [InUse EXCEPT !.inited = TRUE, !.system = here]
<1>1. vias # << >> /\ ~InUse.inited /\ ViaOK(InUse)
  BY InUseOK DEF TableInv, SetWaypoint, InSentence
<1>2. here \in Address
  BY VocabularyAssumption, NamesAssumption
     DEF SetWaypoint, FullyQualified, Qualified, Word, Address
<1>3. via \in Via /\ ViaOK(via) /\ via.inited
  BY <1>1, <1>2 DEF ViaOK, Via
<1>4. ViaOK(AddNewRoutedAddress(via, w))
  <2>1. AddNewRoutedAddress(via, w).encrypted \/ AddNewRoutedAddress(via, w).plain
    BY <1>3 DEF AddNewRoutedAddress, ViaOK, Via
  <2>2. QED
    BY <1>3, <2>1, AddEntryType DEF ViaOK, TableInv
<1>5. ReplaceInUse(via) \/ ReplaceInUse(AddNewRoutedAddress(via, w))
  BY DEF SetWaypoint
<1>6. QED
  BY <1>1, <1>3, <1>4, <1>5, ReplacingRefines

LEMMA AddTargetRefines ==
  ASSUME TableInv, NEW w \in Words, AddTarget(w)
  PROVE  [Rules!Next]_Table
<1> DEFINE via == AddNewRoutedAddress(InUse, w)
<1>1. vias # << >> /\ ViaOK(InUse) /\ InUse.inited
  BY InUseOK DEF TableInv, AddTarget, InSentence
<1>2. ViaOK(via) /\ via.inited
  <2>1. via.encrypted \/ via.plain
    BY <1>1 DEF AddNewRoutedAddress, ViaOK, Via
  <2>2. QED
    BY <1>1, <2>1, AddEntryType DEF ViaOK, TableInv
<1>3. EntryOf(w) \in Entry /\ InUse.to \in Seq(Entry) /\ InUse.from \in Seq(Entry)
  BY <1>1, EntryType DEF TableInv, TypeOK, ViaOK, Via
<1>4. Rules!Grows(InUse, via)
  <2>1. /\ Rules!IsExtension(InUse.to, Append(InUse.to, EntryOf(w)))
        /\ Rules!IsExtension(InUse.to, InUse.to)
        /\ Rules!IsExtension(InUse.from, Append(InUse.from, EntryOf(w)))
        /\ Rules!IsExtension(InUse.from, InUse.from)
    BY <1>3, AppendExtends
  <2>2. QED
    BY <1>1, <2>1 DEF AddNewRoutedAddress, Rules!Grows, ViaOK, Via
<1>5. QED
  BY <1>1, <1>2, <1>4, ReplacingRefines DEF AddTarget

\* A flavour or a kind of mail: the lists stay as they are.
LEMMA QualifierRefines ==
  ASSUME TableInv, vias # << >>, NEW via, ViaOK(via), ReplaceInUse(via),
         via.inited = InUse.inited, via.direct = InUse.direct,
         via.mail = InUse.mail, via.files = InUse.files,
         via.system = InUse.system, via.to = InUse.to, via.from = InUse.from,
         via.encrypted => InUse.encrypted, via.plain => InUse.plain
  PROVE  [Rules!Next]_Table
<1>1. InUse.to \in Seq(Entry) /\ InUse.from \in Seq(Entry)
  BY InUseOK DEF ViaOK, Via
<1>2. Len(InUse.to) \in Nat /\ Len(InUse.from) \in Nat
  BY <1>1, LenProperties
<1>3. Rules!Grows(InUse, via)
  BY <1>2 DEF Rules!Grows, Rules!IsExtension
<1>4. QED
  BY <1>3, ReplacingRefines

LEMMA SetAttribRefines ==
  ASSUME TableInv, NEW f \in Flavours, SetAttrib(f)
  PROVE  [Rules!Next]_Table
<1>1. vias # << >> /\ ViaOK(InUse)
  BY InUseOK DEF TableInv, SetAttrib, InSentence
<1>2. ViaOK([InUse EXCEPT !.attrib = f])
  BY <1>1, VocabularyAssumption DEF ViaOK, Via
<1>3. QED
  BY <1>1, <1>2, QualifierRefines DEF SetAttrib, ViaOK, Via

LEMMA SetEncryptionRefines ==
  ASSUME TableInv, NEW e \in Encryptions, SetEncryption(e)
  PROVE  [Rules!Next]_Table
<1>1. vias # << >> /\ ViaOK(InUse)
  BY InUseOK DEF TableInv, SetEncryption, InSentence
<1>2. CASE InUse.encrypted /\ ReplaceInUse([InUse EXCEPT !.plain = FALSE])
  <2>1. ViaOK([InUse EXCEPT !.plain = FALSE])
    BY <1>1, <1>2 DEF ViaOK, Via
  <2>2. QED
    BY <1>1, <1>2, <2>1, QualifierRefines DEF ViaOK, Via
<1>3. CASE InUse.plain /\ ReplaceInUse([InUse EXCEPT !.encrypted = FALSE])
  <2>1. ViaOK([InUse EXCEPT !.encrypted = FALSE])
    BY <1>1, <1>3 DEF ViaOK, Via
  <2>2. QED
    BY <1>1, <1>3, <2>1, QualifierRefines DEF ViaOK, Via
<1>4. QED
  BY <1>2, <1>3 DEF SetEncryption

LEMMA TableRefinesInit == TableInit => Rules!Init
<1>1. SUFFICES ASSUME TableInit PROVE Table = << >>
  BY DEF Rules!Init
<1>2. vias = << >> /\ Len(vias) = 0
  BY <1>1, EmptySeq DEF TableInit
<1>3. GetViaCount = 0
  BY <1>2 DEF GetViaCount
<1>4. QED
  BY <1>3, SubSeqEmpty DEF Table

LEMMA TableRefinesNext == TableInv /\ [TableNext]_tableVars => [Rules!Next]_Table
<1> SUFFICES ASSUME TableInv, [TableNext]_tableVars PROVE [Rules!Next]_Table
  OBVIOUS
<1>1. ASSUME NEW v \in Verbs, SetupNewVia(v) PROVE [Rules!Next]_Table
  BY <1>1, SetupNewViaRefines
<1>2. ASSUME NEW w \in Words, SetWaypoint(w) PROVE [Rules!Next]_Table
  BY <1>2, SetWaypointRefines
<1>3. ASSUME NEW w \in Words, AddTarget(w) PROVE [Rules!Next]_Table
  BY <1>3, AddTargetRefines
<1>4. ASSUME NEW f \in Flavours, SetAttrib(f) PROVE [Rules!Next]_Table
  BY <1>4, SetAttribRefines
<1>5. ASSUME NEW e \in Encryptions, SetEncryption(e) PROVE [Rules!Next]_Table
  BY <1>5, SetEncryptionRefines
<1>6. CASE UNCHANGED vias
  BY <1>6, UnchangedRefines
<1>7. UNCHANGED vias \/ \/ \E v \in Verbs : SetupNewVia(v)
                        \/ \E w \in Words : SetWaypoint(w) \/ AddTarget(w)
                        \/ \E f \in Flavours : SetAttrib(f)
                        \/ \E e \in Encryptions : SetEncryption(e)
  BY DEF TableNext, BadWaypoint, SetOnFrom, SwitchExcept, Switch, OtherCommand,
         EndOfFile, tableVars
<1>8. QED
  BY <1>1, <1>2, <1>3, <1>4, <1>5, <1>6, <1>7

\* The table implements the list of rules a reader of the manual has in mind:
\* every word of every file adds a rule at the end, adds to the last rule, or
\* leaves the rules as they are.
THEOREM TableIsRuleList == TableSpec => RulesSpec
<1>1. TableSpec => []TableInv
  BY TableInvInit, TableInvNext, PTL DEF TableSpec
<1>2. QED
  BY <1>1, TableRefinesInit, TableRefinesNext, PTL DEF TableSpec, RulesSpec, Rules!Spec
=============================================================================
