---------------------------- MODULE AnalysisProofs ----------------------------
(***************************************************************************)
(* Theorems about Analysis, for texts of any length and any addresses.     *)
(***************************************************************************)
EXTENDS Analysis, WellFoundedInduction, TLAPS

-----------------------------------------------------------------------------
(* The address in the packet *)

LEMMA Smallest ==
  ASSUME NEW T \in SUBSET Nat, T # {}
  PROVE  \E x \in T : \A y \in T : x <= y
<1>1. IsWellFoundedOn(OpToRel(<, Nat), Nat)
  BY NatLessThanWellFounded
<1>2. PICK x \in T : \A y \in T : << y, x >> \notin OpToRel(<, Nat)
  BY <1>1, WFMin
<1>3. \A y \in T : ~(y < x)
  BY <1>2 DEF OpToRel
<1> QED
  BY <1>3

LEMMA Agreements ==
  ASSUME NEW a \in Address, NEW b \in Address
  PROVE  /\ Agreement(a, b) \in 0..4
         /\ Agreement(a, b) >= 1 <=> a.zone = b.zone
         /\ Agreement(a, b) >= 2 <=> a.zone = b.zone /\ a.net = b.net
<1>1. CASE a.zone # b.zone
  BY <1>1 DEF Agreement, SameNode
<1>2. CASE a.zone = b.zone /\ a.net # b.net
  BY <1>2 DEF Agreement, SameNode
<1>3. CASE a.zone = b.zone /\ a.net = b.net
  <2>1. Agreement(a, b) \in {2, 3, 4}
    BY <1>3 DEF Agreement, SameNode
  <2> QED
    BY <1>3, <2>1
<1> QED
  BY <1>1, <1>2, <1>3

LEMMA Levels ==
  ASSUME NEW a \in Address, NEW b \in Address
  PROVE  MatchLevel(a, b) \in 0..5
<1>1. Agreement(a, b) \in 0..4
  BY Agreements
<1>2. \/ MatchLevel(a, b) = 0
      \/ MatchLevel(a, b) = Agreement(a, b) + 0
      \/ MatchLevel(a, b) = Agreement(a, b) + 1
  BY DEF MatchLevel
<1> QED
  BY <1>1, <1>2

\* What a level says of the domains.
LEMMA LevelByDomain ==
  ASSUME NEW a \in Address, NEW b \in Address
  PROVE  /\ a.domain = b.domain /\ b.domain # "" => MatchLevel(a, b) = Agreement(a, b) + 1
         /\ a.domain = "" \/ b.domain = "" => MatchLevel(a, b) = Agreement(a, b)
         /\ a.domain # "" /\ b.domain # "" /\ a.domain # b.domain => MatchLevel(a, b) = 0
<1>1. Agreement(a, b) + 0 = Agreement(a, b)
  BY Agreements
<1> QED
  BY <1>1 DEF MatchLevel

LEMMA OurList ==
  /\ DOMAIN AKAs = 1..Len(AKAs) /\ Len(AKAs) \in Nat /\ 1 \in DOMAIN AKAs
  /\ \A i \in DOMAIN AKAs : AKAs[i] \in Address
<1>1. AKAs \in Seq(Address) /\ AKAs # << >>
  BY DataAssumption
<1> QED
  BY <1>1

\* AKAMatch finds one of our addresses, and none agrees more with the system.
LEMMA AKAMatchBest ==
  ASSUME NEW a \in Address
  PROVE  \E i \in DOMAIN AKAs :
           /\ AKAMatch(a) = AKAs[i]
           /\ \A j \in DOMAIN AKAs : MatchLevel(AKAs[j], a) <= MatchLevel(AKAs[i], a)
<1> DEFINE level(i) == MatchLevel(AKAs[i], a)
           Top(i) == \A j \in DOMAIN AKAs : level(j) <= level(i)
           First(i) == Top(i) /\ \A j \in 1..(i - 1) : level(j) < level(i)
<1>1. DOMAIN AKAs = 1..Len(AKAs) /\ Len(AKAs) \in Nat /\ 1 \in DOMAIN AKAs
  BY OurList
<1>2. \A i \in DOMAIN AKAs : level(i) \in 0..5
  <2>1. \A i \in DOMAIN AKAs : AKAs[i] \in Address
    BY OurList
  <2> QED
    BY <2>1, Levels
<1> HIDE DEF level
<1>3. \E i \in DOMAIN AKAs : Top(i)
  <2> DEFINE Gap == {5 - level(i) : i \in DOMAIN AKAs}
  <2>1. Gap \in SUBSET Nat /\ Gap # {}
    BY <1>1, <1>2
  <2>2. PICK g \in Gap : \A h \in Gap : g <= h
    BY <2>1, Smallest
  <2>3. PICK i \in DOMAIN AKAs : g = 5 - level(i)
    BY <2>2
  <2>4. \A j \in DOMAIN AKAs : 5 - level(i) <= 5 - level(j)
    BY <2>2, <2>3
  <2> QED
    BY <1>2, <2>4
<1>4. \E i \in DOMAIN AKAs : First(i)
  <2> DEFINE Tops == {i \in DOMAIN AKAs : Top(i)}
  <2>1. Tops \in SUBSET Nat /\ Tops # {}
    BY <1>1, <1>3
  <2>2. PICK i \in Tops : \A j \in Tops : i <= j
    BY <2>1, Smallest
  <2>3. ASSUME NEW j \in 1..(i - 1)
        PROVE  level(j) < level(i)
    <3>1. j \in DOMAIN AKAs /\ ~Top(j)
      BY <1>1, <2>2, <2>3
    <3>2. PICK k \in DOMAIN AKAs : ~(level(k) <= level(j))
      BY <3>1
    <3> QED
      BY <1>2, <2>2, <3>1, <3>2
  <2> QED
    BY <2>2, <2>3
<1>5. AKAMatch(a) = AKAs[CHOOSE i \in DOMAIN AKAs : First(i)]
  BY DEF AKAMatch, level
<1> HIDE DEF First
<1>6. PICK i \in DOMAIN AKAs : AKAMatch(a) = AKAs[i] /\ First(i)
  BY <1>4, <1>5
<1> QED
  BY <1>6 DEF First, level

LEMMA AKAMatchTyped ==
  ASSUME NEW a \in Address
  PROVE  AKAMatch(a) \in Address
BY AKAMatchBest, OurList

-----------------------------------------------------------------------------
(* One more line of the text *)

LEMMA MoreText ==
  ASSUME NEW s \in Seq(Kludges), NEW l \in Kludges
  PROVE  /\ Legible(Append(s, l)) <=> Legible(s) /\ (IsVia(l) => ~l.long)
         /\ Visited(Append(s, l)) <=> Visited(s) \/ Home(l)
         /\ Looped(Append(s, l)) <=> Looped(s) \/ (Visited(s) /\ Away(l))
<1> DEFINE t == Append(s, l)
           n == Len(s)
<1>1. /\ DOMAIN s = 1..n /\ DOMAIN t = 1..(n + 1) /\ n \in Nat
      /\ \A i \in 1..n : t[i] = s[i]
      /\ t[n + 1] = l
  OBVIOUS
<1> HIDE DEF t, n
<1>2. Legible(t) <=> Legible(s) /\ (IsVia(l) => ~l.long)
  <2>1. DOMAIN t = DOMAIN s \union {n + 1}
    BY <1>1
  <2> QED
    BY <1>1, <2>1 DEF Legible
<1>3. Visited(t) <=> Visited(s) \/ Home(l)
  <2>1. DOMAIN t = DOMAIN s \union {n + 1}
    BY <1>1
  <2> QED
    BY <1>1, <2>1 DEF Visited
<1>4. ~(Home(l) /\ Away(l))
  BY DEF Home, Away
<1>5. Looped(t) <=> Looped(s) \/ (Visited(s) /\ Away(l))
  <2>1. Looped(s) => Looped(t)
    BY <1>1 DEF Looped
  <2>2. ASSUME Visited(s), Away(l)
        PROVE  Looped(t)
    <3>1. PICK i \in DOMAIN s : Home(s[i])
      BY <2>2 DEF Visited
    <3>2. i \in DOMAIN t /\ n + 1 \in DOMAIN t /\ i < n + 1 /\ Home(t[i]) /\ Away(t[n + 1])
      BY <1>1, <2>2, <3>1
    <3> QED
      BY <3>2 DEF Looped
  <2>3. ASSUME Looped(t)
        PROVE  Looped(s) \/ (Visited(s) /\ Away(l))
    <3>1. PICK i \in DOMAIN t, j \in DOMAIN t : i < j /\ Home(t[i]) /\ Away(t[j])
      BY <2>3 DEF Looped
    <3>2. i \in DOMAIN s /\ t[i] = s[i]
      BY <1>1, <3>1
    <3>3. CASE j = n + 1
      BY <1>1, <3>1, <3>2, <3>3 DEF Visited
    <3>4. CASE j # n + 1
      <4>1. j \in DOMAIN s /\ t[j] = s[j]
        BY <1>1, <3>1, <3>4
      <4> QED
        BY <3>1, <3>2, <4>1 DEF Looped
    <3> QED
      BY <3>3, <3>4
  <2> QED
    BY <2>1, <2>2, <2>3
<1> QED
  BY <1>2, <1>3, <1>5 DEF t

LEMMA MoreFlags ==
  ASSUME NEW s \in Seq(Kludges), NEW l \in Kludges
  PROVE  UNION {FlagsOf(Append(s, l)[i]) : i \in DOMAIN Append(s, l)}
           = (UNION {FlagsOf(s[i]) : i \in DOMAIN s}) \union FlagsOf(l)
<1> DEFINE t == Append(s, l)
           n == Len(s)
<1>1. /\ DOMAIN s = 1..n /\ DOMAIN t = 1..(n + 1) /\ n \in Nat
      /\ \A i \in 1..n : t[i] = s[i]
      /\ t[n + 1] = l
  OBVIOUS
<1> HIDE DEF t, n
<1>2. DOMAIN t = DOMAIN s \union {n + 1}
  BY <1>1
<1>3. {FlagsOf(t[i]) : i \in DOMAIN t} = {FlagsOf(s[i]) : i \in DOMAIN s} \union {FlagsOf(l)}
  BY <1>1, <1>2
<1> QED
  BY <1>3 DEF t

-----------------------------------------------------------------------------
(* Types *)

LEMMA Inputs ==
  /\ Headers # {} /\ \A h \in Headers : h \in Header
  /\ \A l \in Kludges : l \in Kludge
  /\ Routes \subseteq [system : Address, attrib : Flavour]
  /\ Leftovers \subseteq Address /\ "" \in Domain /\ NoAddress \notin Address
BY DataAssumption

LEMMA ParsedAddress ==
  ASSUME NEW l \in Kludges, l.kind = "Via", l.address # NoAddress, NEW a \in Parsed(l)
  PROVE  a \in Address
<1>1. l \in [kind : {"Via"}, address : Address \union {NoAddress}, long : BOOLEAN]
  BY Inputs DEF Kludge
<1> QED
  BY <1>1, Inputs DEF Parsed

LEMMA FlavourTyped ==
  ASSUME NEW f \in Flavour, NEW flags
  PROVE  FinalFlavour(f, flags) \in Flavour
BY DEF FinalFlavour, Flavour

LEMMA InfoStep ==
  ASSUME info \in Visu, NEW l \in Kludges,
         \/ ReadIntl(l) \/ ReadPoint(l) \/ ReadMsgid(l) \/ ReadFlags(l) \/ ReadEnc(l)
  PROVE  /\ info' \in Visu
         /\ info'.flags = info.flags \union FlagsOf(l)
         /\ info'.processedHere = info.processedHere
         /\ info'.detectedLoop = info.detectedLoop
         /\ ~IsVia(l)
         /\ vias' = vias /\ path' = path
<1>1. l \in Kludge
  BY Inputs
<1>2. CASE ReadIntl(l)
  <2>1. l.dest \in Address \union {NoAddress} /\ l.orig \in Address \union {NoAddress}
    BY <1>1, <1>2 DEF Kludge, ReadIntl
  <2> QED
    BY <1>2, <2>1 DEF ReadIntl, Visu, Address, FlagsOf, IsVia
<1>3. CASE ReadPoint(l)
  <2>1. l.point \in Nat
    BY <1>1, <1>3 DEF Kludge, ReadPoint
  <2> QED
    BY <1>3, <2>1 DEF ReadPoint, Visu, Address, FlagsOf, IsVia
<1>4. CASE ReadMsgid(l)
  <2>1. l.zone \in Nat
    BY <1>1, <1>4 DEF Kludge, ReadMsgid
  <2> QED
    BY <1>4, <2>1 DEF ReadMsgid, Visu, FlagsOf, IsVia
<1>5. CASE ReadFlags(l)
  <2>1. l.flags \in SUBSET Attribute
    BY <1>1, <1>5 DEF Kludge, ReadFlags
  <2> QED
    BY <1>5, <2>1 DEF ReadFlags, Visu, FlagsOf, IsVia
<1>6. CASE ReadEnc(l)
  BY <1>6 DEF ReadEnc, Visu, FlagsOf, IsVia
<1> QED
  BY <1>2, <1>3, <1>4, <1>5, <1>6

LEMMA ViaStep ==
  ASSUME info \in Visu, vias \in Seq(Kludges), path \in Seq(Address), NEW l \in Kludges,
         ReadViaOfNone(l) \/ (l.kind = "Via" /\ \E a \in Parsed(l) : ReadVia(l, a))
  PROVE  /\ info' \in Visu /\ vias' \in Seq(Kludges) /\ path' \in Seq(Address)
         /\ info'.flags = info.flags /\ FlagsOf(l) = {} /\ IsVia(l)
         /\ ~l.long => info'.processedHere = (info.processedHere \/ Home(l))
         /\ ~l.long => info'.detectedLoop = (info.detectedLoop \/ (info.processedHere /\ Away(l)))
<1>1. ASSUME NEW home \in BOOLEAN
      PROVE  AddVia(l, home) \in Seq(Kludges)
  BY DEF AddVia
<1>2. FlagsOf(l) = {} /\ IsVia(l)
  BY DEF FlagsOf, IsVia, ReadViaOfNone
<1>3. CASE ReadViaOfNone(l)
  <2>1. ~Home(l) /\ ~Away(l)
    BY <1>3 DEF ReadViaOfNone, Home, Away
  <2>2. /\ info.processedHere = (info.processedHere \/ Home(l))
        /\ info.detectedLoop = (info.detectedLoop \/ (info.processedHere /\ Away(l)))
    BY <2>1 DEF Visu
  <2> QED
    BY <1>1, <1>2, <1>3, <2>2 DEF ReadViaOfNone
<1>4. ASSUME NEW a \in Parsed(l), ReadVia(l, a)
      PROVE  /\ info' \in Visu /\ vias' \in Seq(Kludges) /\ path' \in Seq(Address)
             /\ info'.flags = info.flags
             /\ ~l.long => info'.processedHere = (info.processedHere \/ Home(l))
             /\ ~l.long => info'.detectedLoop = (info.detectedLoop \/ (info.processedHere /\ Away(l)))
  <2>1. a \in Address
    BY <1>4, ParsedAddress DEF ReadVia
  <2>2. Hop(a) \in Address
    BY <2>1, Inputs DEF Hop, Address
  <2>3. AddHop(path, a) \in Seq(Address)
    BY <2>2 DEF AddHop
  <2>4. vias' \in Seq(Kludges) /\ path' \in Seq(Address)
    BY <1>1, <1>4, <2>3 DEF ReadVia, IsLocalAKA
  <2>5. info' \in Visu /\ info'.flags = info.flags
    <3>1. (info.detectedLoop \/ info.processedHere) \in BOOLEAN
      OBVIOUS
    <3> QED
      BY <1>4, <3>1 DEF ReadVia, Visu
  <2>6. ~l.long => (IsLocalAKA(a) <=> Home(l)) /\ (~IsLocalAKA(a) <=> Away(l))
    BY <1>2, <1>4 DEF Parsed, ReadVia, Home, Away
  <2>7. CASE IsLocalAKA(a)
    <3>1. info' = [info EXCEPT !.processedHere = TRUE]
      BY <1>4, <2>7 DEF ReadVia
    <3>2. info'.processedHere = TRUE /\ info'.detectedLoop = info.detectedLoop
      BY <3>1 DEF Visu
    <3>3. ~l.long => Home(l) /\ ~Away(l)
      BY <2>6, <2>7
    <3>4. info.detectedLoop \in BOOLEAN
      BY DEF Visu
    <3> QED
      BY <2>4, <2>5, <3>2, <3>3, <3>4, Zenon
  <2>8. CASE ~IsLocalAKA(a)
    <3>1. info' = [info EXCEPT !.detectedLoop = @ \/ info.processedHere]
      BY <1>4, <2>8 DEF ReadVia
    <3>2. /\ info'.processedHere = info.processedHere
          /\ info'.detectedLoop = (info.detectedLoop \/ info.processedHere)
      BY <3>1 DEF Visu
    <3>3. ~l.long => ~Home(l) /\ Away(l)
      BY <2>6, <2>8
    <3>4. info.detectedLoop \in BOOLEAN /\ info.processedHere \in BOOLEAN
      BY DEF Visu
    <3> QED
      BY <2>4, <2>5, <3>2, <3>3, <3>4, Zenon
  <2> QED
    BY <2>7, <2>8
<1> QED
  BY <1>2, <1>3, <1>4

-----------------------------------------------------------------------------
(* The invariant *)

LEMMA InitAnalysis == Init => AnalysisInv
<1> SUFFICES ASSUME Init
             PROVE  AnalysisInv
  OBVIOUS
<1>1. header \in Headers /\ header \in Header
  BY Inputs DEF Init
<1>2. header.orig \in Address /\ header.dest \in Address
  BY <1>1 DEF Header
<1>3. info \in Visu
  BY <1>2 DEF Init, Visu
<1>4. TypeOK
  <2>1. << >> \in Seq(Kludges) /\ << >> \in Seq(Address)
    OBVIOUS
  <2>2. lines \in Seq(Kludges) /\ vias \in Seq(Kludges) /\ path \in Seq(Address)
    BY <2>1 DEF Init
  <2>3. shouldGo \in Address \union {NoAddress} /\ ourAKA \in Address \union {NoAddress}
    BY DEF Init
  <2>4. qqq \in BOOLEAN /\ config \in Switches
    BY DEF Init
  <2>5. /\ step \in Steps /\ step # "packed" /\ attribPack \in Flavour
        /\ sendType \in {"none", "notouch", "route", "direct", "boss"}
    BY DEF Init, Steps, Flavour
  <2> QED
    BY <1>1, <1>3, <2>2, <2>3, <2>4, <2>5 DEF TypeOK
<1> QED
  BY <1>4 DEF Init, AnalysisInv, TextInv, KindInv, WaypointInv

LEMMA OpenStep ==
  ASSUME AnalysisInv, NEW h \in Headers, OpenMessage(h)
  PROVE  AnalysisInv'
<1>1. h \in Header /\ h.orig \in Address /\ h.dest \in Address /\ h.flags \in SUBSET Attribute
  BY Inputs DEF Header
<1>2. FromHeader(h, h.orig) \in Address /\ FromHeader(h, h.dest) \in Address
  BY <1>1 DEF FromHeader, Address
<1>3. info' \in Visu
  BY <1>1, <1>2 DEF OpenMessage, Visu
<1>4. TypeOK'
  <2>1. << >> \in Seq(Kludges) /\ << >> \in Seq(Address)
    OBVIOUS
  <2>2. lines' \in Seq(Kludges) /\ vias' \in Seq(Kludges) /\ path' \in Seq(Address)
    BY <2>1 DEF OpenMessage
  <2>3. /\ shouldGo' \in Address \union {NoAddress} /\ ourAKA' \in Address \union {NoAddress}
        /\ header' \in Headers
    BY DEF OpenMessage
  <2>4. qqq' \in BOOLEAN /\ config' \in Switches
    BY DEF OpenMessage, AnalysisInv, TypeOK
  <2>5. /\ step' \in Steps /\ step' # "packed" /\ attribPack' \in Flavour
        /\ sendType' \in {"none", "notouch", "route", "direct", "boss"}
    BY DEF OpenMessage, Steps, Flavour
  <2> QED
    BY <1>3, <2>2, <2>3, <2>4, <2>5 DEF TypeOK
<1>5. lines' = << >> /\ header' = h /\ info'.flags = h.flags
      /\ info'.processedHere = FALSE /\ info'.detectedLoop = FALSE
  BY DEF OpenMessage
<1>6. ~Visited(lines') /\ ~Looped(lines')
  BY <1>5 DEF Visited, Looped
<1>7. AllFlags' = h.flags
  BY <1>5 DEF AllFlags
<1>8. TextInv'
  BY <1>5, <1>6, <1>7 DEF TextInv
<1> QED
  BY <1>4, <1>8 DEF AnalysisInv, KindInv, WaypointInv, OpenMessage

LEMMA ReadStep ==
  ASSUME AnalysisInv, NEW l \in Kludges, ReadLine(l)
  PROVE  AnalysisInv'
<1> USE DEF AnalysisInv
<1>1. /\ step = "text" /\ step' = "text" /\ lines' = Append(lines, l) /\ lines \in Seq(Kludges)
      /\ header' = header /\ config' = config /\ UNCHANGED controlVars
      /\ info \in Visu /\ vias \in Seq(Kludges) /\ path \in Seq(Address)
  BY DEF ReadLine, TypeOK
<1>2. \/ ReadIntl(l) \/ ReadPoint(l) \/ ReadMsgid(l) \/ ReadFlags(l) \/ ReadEnc(l)
      \/ ReadViaOfNone(l) \/ (l.kind = "Via" /\ \E a \in Parsed(l) : ReadVia(l, a))
  BY DEF ReadLine
<1>3. /\ info' \in Visu /\ vias' \in Seq(Kludges) /\ path' \in Seq(Address)
      /\ info'.flags = info.flags \union FlagsOf(l)
      /\ (IsVia(l) => ~l.long) =>
           /\ info'.processedHere <=> info.processedHere \/ Home(l)
           /\ info'.detectedLoop <=> info.detectedLoop \/ (info.processedHere /\ Away(l))
  <2>1. CASE ReadViaOfNone(l) \/ (l.kind = "Via" /\ \E a \in Parsed(l) : ReadVia(l, a))
    BY <1>1, <2>1, ViaStep
  <2>2. CASE ReadIntl(l) \/ ReadPoint(l) \/ ReadMsgid(l) \/ ReadFlags(l) \/ ReadEnc(l)
    <3>1. ~Home(l) /\ ~Away(l)
      BY <1>1, <2>2, InfoStep DEF Home, Away
    <3> QED
      BY <1>1, <2>2, <3>1, InfoStep
  <2> QED
    BY <1>2, <2>1, <2>2
<1>4. TypeOK'
  BY <1>1, <1>3 DEF TypeOK, controlVars
<1>5. info'.flags = AllFlags'
  <2>1. info.flags = header.flags \union (UNION {FlagsOf(lines[i]) : i \in DOMAIN lines})
    BY <1>1 DEF TextInv, AllFlags
  <2>2. UNION {FlagsOf(lines'[i]) : i \in DOMAIN lines'}
          = (UNION {FlagsOf(lines[i]) : i \in DOMAIN lines}) \union FlagsOf(l)
    <3>1. UNION {FlagsOf(Append(lines, l)[i]) : i \in DOMAIN Append(lines, l)}
            = (UNION {FlagsOf(lines[i]) : i \in DOMAIN lines}) \union FlagsOf(l)
      BY <1>1, MoreFlags
    <3> QED
      BY <1>1, <3>1, Zenon
  <2> QED
    BY <1>1, <1>3, <2>1, <2>2 DEF AllFlags
<1>6. Legible(lines') => /\ info'.processedHere <=> Visited(lines')
                         /\ info'.detectedLoop <=> Looped(lines')
  <2>1. /\ Legible(lines') <=> Legible(lines) /\ (IsVia(l) => ~l.long)
        /\ Visited(lines') <=> Visited(lines) \/ Home(l)
        /\ Looped(lines') <=> Looped(lines) \/ (Visited(lines) /\ Away(l))
    BY <1>1, MoreText
  <2>2. Legible(lines) => /\ info.processedHere <=> Visited(lines)
                          /\ info.detectedLoop <=> Looped(lines)
    BY <1>1 DEF TextInv
  <2> QED
    BY <1>3, <2>1, <2>2
<1>7. TextInv'
  BY <1>5, <1>6 DEF TextInv
<1> QED
  BY <1>1, <1>4, <1>7 DEF KindInv, WaypointInv

LEMMA SameText ==
  ASSUME TextInv, step # "idle", header' = header, lines' = lines,
         info'.flags = info.flags, info'.processedHere = info.processedHere,
         info'.detectedLoop = info.detectedLoop
  PROVE  TextInv'
<1>1. /\ AllFlags' = AllFlags /\ (Legible(lines))' = Legible(lines)
      /\ (Visited(lines))' = Visited(lines) /\ (Looped(lines))' = Looped(lines)
  BY DEF AllFlags, Legible, Visited, Looped
<1> QED
  BY <1>1 DEF TextInv

LEMMA EndStep ==
  ASSUME AnalysisInv, EndOfText
  PROVE  AnalysisInv'
<1> DEFINE Zoned(a) == [a EXCEPT !.zone = IF @ # 0 THEN @
                                          ELSE IF info.msgidZone # 0 THEN info.msgidZone
                                          ELSE Main.zone]
           dest == Zoned(info.dest)
           orig == Zoned(info.orig)
<1>1. /\ step = "text" /\ step' = "nopack" /\ info \in Visu /\ path \in Seq(Address)
      /\ UNCHANGED << config, header, lines, vias, controlVars >>
      /\ info' = [info EXCEPT !.dest = dest, !.orig = orig,
                              !.transit = Gated(dest, orig, info.flags)]
      /\ path' = IF header.format = "squish" THEN path ELSE AddOrigin(path, orig)
  BY DEF AnalysisInv, TypeOK, EndOfText, Goto
<1>2. dest \in Address /\ orig \in Address
  <2>1. Main.zone \in Nat
    BY OurList DEF Main, Address
  <2> QED
    BY <1>1, <2>1 DEF Visu, Address
<1> HIDE DEF dest, orig
<1>3. Gated(dest, orig, info.flags) \in Address
  BY <1>2 DEF Gated, Address
<1>4. /\ info' \in Visu /\ info'.flags = info.flags
      /\ info'.processedHere = info.processedHere /\ info'.detectedLoop = info.detectedLoop
  BY <1>1, <1>2, <1>3 DEF Visu
<1>5. path' \in Seq(Address)
  <2>1. Hop(orig) \in Address
    BY <1>2, Inputs DEF Hop, Address
  <2> QED
    BY <1>1, <2>1 DEF AddOrigin
<1>6. TypeOK'
  BY <1>1, <1>4, <1>5 DEF AnalysisInv, TypeOK, controlVars, Steps
<1>7. TextInv'
  BY <1>1, <1>4, SameText DEF AnalysisInv
<1> QED
  BY <1>1, <1>6, <1>7 DEF AnalysisInv, KindInv, WaypointInv

LEMMA CheckStep ==
  ASSUME AnalysisInv, AnswerNoPack \/ CheckAttributes
  PROVE  AnalysisInv'
<1>1. /\ step \in {"nopack", "attributes"} /\ step' \in {"attributes", "left", "sendtype"}
      /\ UNCHANGED << config, messageVars, controlVars >>
  BY DEF AnswerNoPack, CheckAttributes, Goto
<1>2. TypeOK'
  BY <1>1 DEF AnalysisInv, TypeOK, messageVars, controlVars, Steps
<1>3. TextInv'
  BY <1>1, SameText DEF AnalysisInv, messageVars
<1> QED
  BY <1>1, <1>2, <1>3 DEF AnalysisInv, KindInv, WaypointInv

LEMMA SendTypeStep ==
  ASSUME AnalysisInv, GetSendType
  PROVE  AnalysisInv'
<1>1. /\ step = "sendtype" /\ step' = (IF sendType' = "notouch" THEN "left" ELSE "route")
      /\ UNCHANGED << config, messageVars, shouldGo, attribPack, ourAKA, qqq >>
  BY DEF GetSendType, Goto
<1>2. \/ /\ IsLocalAKA(info.dest) /\ sendType' = "notouch"
      \/ /\ ~IsLocalAKA(info.dest) /\ sendType' = "route"
         /\ info.flags \intersect DirectFlags = {}
      \/ ~IsLocalAKA(info.dest) /\ sendType' = "boss" /\ ViaBoss(info.dest, info.flags)
      \/ ~IsLocalAKA(info.dest) /\ sendType' = "direct"
  BY DEF GetSendType
<1>3. TypeOK'
  BY <1>1, <1>2 DEF AnalysisInv, TypeOK, messageVars, Steps
<1>4. TextInv'
  BY <1>1, SameText DEF AnalysisInv, messageVars
<1>5. /\ (IsLocalAKA(info.dest))' = IsLocalAKA(info.dest)
      /\ (ViaBoss(info.dest, info.flags))' = ViaBoss(info.dest, info.flags)
  BY <1>1 DEF messageVars, IsLocalAKA, ViaBoss
<1>6. KindInv'
  BY <1>1, <1>2, <1>5 DEF KindInv, messageVars
<1> QED
  BY <1>1, <1>3, <1>4, <1>6 DEF AnalysisInv, WaypointInv

LEMMA GoToStep ==
  ASSUME AnalysisInv, NEW system \in Address, NEW flavour \in Flavour, GoTo(system, flavour),
         sendType = "direct" => system = info.dest,
         sendType = "boss" => system = Boss(info.dest)
  PROVE  AnalysisInv'
<1>1. /\ step = "route" /\ step' = "loop" /\ shouldGo' = system
      /\ attribPack' = FinalFlavour(flavour, info.flags)
      /\ UNCHANGED << config, messageVars, sendType, ourAKA, qqq >>
  BY DEF GoTo, Goto
<1>2. attribPack' \in Flavour
  BY <1>1, FlavourTyped
<1>3. TypeOK'
  BY <1>1, <1>2 DEF AnalysisInv, TypeOK, messageVars, Steps
<1>4. TextInv'
  BY <1>1, SameText DEF AnalysisInv, messageVars
<1>5. KindInv'
  <2>1. (ViaBoss(info.dest, info.flags))' = ViaBoss(info.dest, info.flags)
    BY <1>1 DEF messageVars, ViaBoss
  <2> QED
    BY <1>1, <2>1 DEF AnalysisInv, KindInv, messageVars
<1>6. WaypointInv'
  BY <1>1 DEF WaypointInv, messageVars
<1> QED
  BY <1>3, <1>4, <1>5, <1>6 DEF AnalysisInv

LEMMA RouteStep ==
  ASSUME AnalysisInv, DetermineDirect \/ DetermineBoss \/ DetermineRoute
  PROVE  AnalysisInv'
<1>1. info.dest \in Address /\ Boss(info.dest) \in Address
  BY DEF AnalysisInv, TypeOK, Visu, Boss, Address
<1>2. "NORMAL" \in Flavour
  BY DEF Flavour
<1>3. CASE DetermineDirect
  BY <1>1, <1>2, <1>3, GoToStep DEF DetermineDirect
<1>4. CASE DetermineBoss
  BY <1>1, <1>2, <1>4, GoToStep DEF DetermineBoss
<1>5. CASE DetermineRoute
  <2>1. CASE \E r \in Routes : GoTo(r.system, r.attrib)
    <3>1. PICK r \in Routes : GoTo(r.system, r.attrib)
      BY <2>1
    <3>2. r.system \in Address /\ r.attrib \in Flavour
      BY Inputs
    <3> QED
      BY <1>5, <3>1, <3>2, GoToStep DEF DetermineRoute
  <2>2. CASE Goto("route", "left") /\ UNCHANGED << config, messageVars, controlVars >>
    <3>1. TypeOK'
      BY <2>2 DEF AnalysisInv, TypeOK, messageVars, controlVars, Steps, Goto
    <3>2. TextInv'
      BY <2>2, SameText DEF AnalysisInv, messageVars, Goto
    <3> QED
      BY <2>2, <3>1, <3>2 DEF AnalysisInv, KindInv, WaypointInv, Goto
  <2> QED
    BY <1>5, <2>1, <2>2 DEF DetermineRoute
<1> QED
  BY <1>3, <1>4, <1>5

LEMMA FinishStep ==
  ASSUME AnalysisInv, Finish
  PROVE  AnalysisInv'
<1>1. /\ step = "loop" /\ step' = (IF LoopStops THEN "left" ELSE "packed")
      /\ UNCHANGED << config, messageVars, sendType, shouldGo, attribPack >>
  BY DEF Finish, Goto
<1>2. shouldGo \in Address /\ TypeOK
  BY <1>1 DEF AnalysisInv, WaypointInv
<1>3. TypeOK'
  <2>1. AKAMatch(shouldGo) \in Address /\ AKAMatch(shouldGo) # NoAddress
    BY <1>2, AKAMatchTyped, Inputs
  <2>2. DoQQQPack(shouldGo, attribPack) \in BOOLEAN
    BY DEF DoQQQPack
  <2>3. ourAKA' \in Address \union {NoAddress} /\ qqq' \in BOOLEAN
    BY <1>2, <2>1, <2>2 DEF Finish, TypeOK
  <2>4. step' = "packed" => shouldGo # NoAddress /\ ourAKA' # NoAddress
    BY <1>1, <1>2, <2>1, Inputs DEF Finish
  <2> QED
    BY <1>1, <1>2, <2>3, <2>4 DEF TypeOK, messageVars, Steps
<1>4. TextInv'
  BY <1>1, SameText DEF AnalysisInv, messageVars
<1>5. /\ (ViaBoss(info.dest, info.flags))' = ViaBoss(info.dest, info.flags)
      /\ LoopStops' = LoopStops
      /\ (DoQQQPack(shouldGo, attribPack))' = DoQQQPack(shouldGo, attribPack)
  BY <1>1 DEF messageVars, ViaBoss, LoopStops, DoQQQPack
<1>6. KindInv'
  BY <1>1, <1>5 DEF AnalysisInv, KindInv, messageVars
<1>7. WaypointInv'
  <2>1. /\ shouldGo' \in Address
        /\ sendType' = "direct" => shouldGo' = info'.dest
        /\ sendType' = "boss" => shouldGo' = Boss(info'.dest)
        /\ \E f \in Flavour : attribPack' = FinalFlavour(f, info'.flags)
    BY <1>1 DEF AnalysisInv, WaypointInv, messageVars
  <2>2. ASSUME step' = "packed"
        PROVE  /\ ~LoopStops'
               /\ ourAKA' = AKAMatch(shouldGo')
               /\ qqq' => (DoQQQPack(shouldGo, attribPack))'
    BY <1>1, <1>5, <2>2 DEF Finish
  <2> QED
    BY <2>1, <2>2 DEF WaypointInv
<1> QED
  BY <1>3, <1>4, <1>6, <1>7 DEF AnalysisInv

LEMMA StutterStep ==
  ASSUME AnalysisInv, UNCHANGED vars
  PROVE  AnalysisInv'
<1>1. UNCHANGED << config, step, messageVars, controlVars >>
  BY DEF vars
<1>2. /\ (ViaBoss(info.dest, info.flags))' = ViaBoss(info.dest, info.flags)
      /\ LoopStops' = LoopStops /\ AllFlags' = AllFlags
      /\ (DoQQQPack(shouldGo, attribPack))' = DoQQQPack(shouldGo, attribPack)
  BY <1>1 DEF messageVars, controlVars, ViaBoss, LoopStops, DoQQQPack, AllFlags
<1> QED
  BY <1>1, <1>2 DEF AnalysisInv, TypeOK, TextInv, KindInv, WaypointInv, messageVars, controlVars

LEMMA AnalysisInductive == Spec => []AnalysisInv
<1>1. AnalysisInv /\ [Next]_vars => AnalysisInv'
  <2> SUFFICES ASSUME AnalysisInv, [Next]_vars
               PROVE  AnalysisInv'
    OBVIOUS
  <2>1. ASSUME NEW h \in Headers, OpenMessage(h)
        PROVE  AnalysisInv'
    BY <2>1, OpenStep
  <2>2. ASSUME NEW l \in Kludges, ReadLine(l)
        PROVE  AnalysisInv'
    BY <2>2, ReadStep
  <2>3. CASE EndOfText
    BY <2>3, EndStep
  <2>4. CASE AnswerNoPack \/ CheckAttributes
    BY <2>4, CheckStep
  <2>5. CASE GetSendType
    BY <2>5, SendTypeStep
  <2>6. CASE DetermineDirect \/ DetermineBoss \/ DetermineRoute
    BY <2>6, RouteStep
  <2>7. CASE Finish
    BY <2>7, FinishStep
  <2>8. CASE UNCHANGED vars
    BY <2>8, StutterStep
  <2> QED
    BY <2>1, <2>2, <2>3, <2>4, <2>5, <2>6, <2>7, <2>8 DEF Next
<1> QED
  BY <1>1, InitAnalysis, PTL DEF Spec

-----------------------------------------------------------------------------
(* Extracts of sequences and functions *)

LEMMA ExtractNone ==
  ASSUME NEW t
  PROVE  Extract(<< >>, t, {})
<1>1. << >> \in [DOMAIN << >> -> {}]
  OBVIOUS
<1> QED
  BY <1>1 DEF Extract

\* An extract does not depend on what else the function has.
LEMMA ExtractSame ==
  ASSUME NEW s, NEW t, NEW u, NEW places, \A p \in places : u[p] = t[p],
         Extract(s, t, places)
  PROVE  Extract(s, u, places)
<1>1. PICK at \in [DOMAIN s -> places] :
        /\ \A i \in DOMAIN s : s[i] = t[at[i]]
        /\ \A i, j \in DOMAIN s : i < j => at[i] < at[j]
        /\ \A p \in places : \E i \in DOMAIN s : at[i] = p
  BY DEF Extract
<1>2. \A i \in DOMAIN s : s[i] = u[at[i]]
  BY <1>1
<1> QED
  BY <1>1, <1>2 DEF Extract

\* One more place behind the others.
LEMMA ExtractMore ==
  ASSUME NEW E, NEW s \in Seq(E), NEW e \in E, NEW t, NEW places \in SUBSET Nat,
         NEW q \in Nat, \A p \in places : p < q, t[q] = e, Extract(s, t, places)
  PROVE  Extract(Append(s, e), t, places \union {q})
<1> DEFINE n == Len(s)
           r == Append(s, e)
<1>1. PICK at \in [DOMAIN s -> places] :
        /\ \A i \in DOMAIN s : s[i] = t[at[i]]
        /\ \A i, j \in DOMAIN s : i < j => at[i] < at[j]
        /\ \A p \in places : \E i \in DOMAIN s : at[i] = p
  BY DEF Extract
<1>a. \A i \in DOMAIN s : at[i] \in places /\ at[i] \in Nat
  BY <1>1
<1>2. /\ n \in Nat /\ DOMAIN s = 1..n /\ DOMAIN r = 1..(n + 1)
      /\ \A i \in 1..n : r[i] = s[i]
      /\ r[n + 1] = e
  OBVIOUS
<1> HIDE DEF n, r
<1> DEFINE more == [i \in 1..(n + 1) |-> IF i = n + 1 THEN q ELSE at[i]]
<1>3. more \in [DOMAIN r -> places \union {q}]
  BY <1>1, <1>2
<1>4. \A i \in DOMAIN r : r[i] = t[more[i]]
  BY <1>1, <1>2
<1>5. \A i, j \in DOMAIN r : i < j => more[i] < more[j]
  BY <1>1, <1>a, <1>2
<1>6. \A p \in places \union {q} : \E i \in DOMAIN r : more[i] = p
  <2>1. \A p \in places : \E i \in 1..n : more[i] = p
    BY <1>1, <1>2
  <2>2. more[n + 1] = q /\ n + 1 \in DOMAIN r /\ 1..n \subseteq DOMAIN r
    BY <1>2
  <2> QED
    BY <2>1, <2>2
<1> HIDE DEF more
<1>7. Extract(r, t, places \union {q})
  BY <1>3, <1>4, <1>5, <1>6 DEF Extract
<1> QED
  BY <1>7 DEF r

\* One more place before the others.
LEMMA ExtractBefore ==
  ASSUME NEW E, NEW s \in Seq(E), NEW e \in E, NEW t, NEW places \in SUBSET Nat,
         NEW q \in Nat, \A p \in places : q < p, t[q] = e, Extract(s, t, places)
  PROVE  Extract(<< e >> \o s, t, {q} \union places)
<1> DEFINE n == Len(s)
           r == << e >> \o s
<1>1. PICK at \in [DOMAIN s -> places] :
        /\ \A i \in DOMAIN s : s[i] = t[at[i]]
        /\ \A i, j \in DOMAIN s : i < j => at[i] < at[j]
        /\ \A p \in places : \E i \in DOMAIN s : at[i] = p
  BY DEF Extract
<1>a. \A i \in DOMAIN s : at[i] \in places /\ at[i] \in Nat
  BY <1>1
<1>2. /\ n \in Nat /\ DOMAIN s = 1..n /\ DOMAIN r = 1..(n + 1)
      /\ \A i \in 2..(n + 1) : r[i] = s[i - 1]
      /\ r[1] = e
  OBVIOUS
<1> HIDE DEF n, r
<1> DEFINE more == [i \in 1..(n + 1) |-> IF i = 1 THEN q ELSE at[i - 1]]
<1>3. more \in [DOMAIN r -> {q} \union places]
  BY <1>1, <1>2
<1>4. \A i \in DOMAIN r : r[i] = t[more[i]]
  BY <1>1, <1>2
<1>5. \A i, j \in DOMAIN r : i < j => more[i] < more[j]
  BY <1>1, <1>a, <1>2
<1>6. \A p \in {q} \union places : \E i \in DOMAIN r : more[i] = p
  <2>1. \A i \in 1..n : i + 1 \in 1..(n + 1) /\ more[i + 1] = at[i]
    BY <1>2
  <2>2. ASSUME NEW p \in places
        PROVE  \E i \in DOMAIN r : more[i] = p
    <3>1. PICK i \in 1..n : at[i] = p
      BY <1>1, <1>2
    <3>2. i + 1 \in DOMAIN r /\ more[i + 1] = p
      BY <1>2, <2>1, <3>1
    <3> QED
      BY <3>2
  <2>3. more[1] = q /\ 1 \in DOMAIN r
    BY <1>2
  <2> QED
    BY <2>2, <2>3
<1> HIDE DEF more
<1>7. Extract(r, t, {q} \union places)
  BY <1>3, <1>4, <1>5, <1>6 DEF Extract
<1> QED
  BY <1>7 DEF r

\* The first element is that at the first place.
LEMMA ExtractFirst ==
  ASSUME NEW E, NEW s \in Seq(E), NEW t, NEW places \in SUBSET Nat, NEW m \in places,
         \A p \in places : m <= p, Extract(s, t, places)
  PROVE  s # << >> /\ s[1] = t[m]
<1>1. PICK at \in [DOMAIN s -> places] :
        /\ \A i \in DOMAIN s : s[i] = t[at[i]]
        /\ \A i, j \in DOMAIN s : i < j => at[i] < at[j]
        /\ \A p \in places : \E i \in DOMAIN s : at[i] = p
  BY DEF Extract
<1>2. DOMAIN s = 1..Len(s) /\ Len(s) \in Nat
  OBVIOUS
<1>3. PICK i \in DOMAIN s : at[i] = m
  BY <1>1
<1>4. 1 \in DOMAIN s /\ at[1] \in places
  BY <1>1, <1>2, <1>3
<1>5. ASSUME 1 < i
      PROVE  FALSE
  <2>1. at[1] < at[i]
    BY <1>1, <1>3, <1>4, <1>5
  <2>2. m <= at[1] /\ at[1] \in Nat /\ m \in Nat
    BY <1>4
  <2> QED
    BY <1>3, <2>1, <2>2
<1>6. i = 1
  BY <1>2, <1>3, <1>5
<1> QED
  BY <1>1, <1>3, <1>4, <1>6

\* The first place is exchanged for one before it where the same is found.
LEMMA ExtractMoved ==
  ASSUME NEW E, NEW s \in Seq(E), NEW t, NEW places \in SUBSET Nat, NEW m \in places,
         \A p \in places : m <= p, NEW q \in Nat, q < m, t[q] = t[m],
         Extract(s, t, places)
  PROVE  Extract(s, t, {q} \union (places \ {m}))
<1>1. PICK at \in [DOMAIN s -> places] :
        /\ \A i \in DOMAIN s : s[i] = t[at[i]]
        /\ \A i, j \in DOMAIN s : i < j => at[i] < at[j]
        /\ \A p \in places : \E i \in DOMAIN s : at[i] = p
  BY DEF Extract
<1>2. DOMAIN s = 1..Len(s) /\ Len(s) \in Nat
  OBVIOUS
<1>3. 1 \in DOMAIN s /\ at[1] = m
  <2>1. PICK i \in DOMAIN s : at[i] = m
    BY <1>1
  <2>2. 1 \in DOMAIN s /\ at[1] \in places
    BY <1>1, <1>2, <2>1
  <2>3. ASSUME 1 < i
        PROVE  FALSE
    <3>1. at[1] < at[i]
      BY <1>1, <2>1, <2>2, <2>3
    <3>2. m <= at[1] /\ at[1] \in Nat /\ m \in Nat
      BY <2>2
    <3> QED
      BY <2>1, <3>1, <3>2
  <2> QED
    BY <1>2, <2>1, <2>2, <2>3
<1> DEFINE moved == [i \in DOMAIN s |-> IF i = 1 THEN q ELSE at[i]]
<1>4. \A i \in DOMAIN s : i # 1 => 1 < i /\ m < at[i] /\ at[i] \in places
  BY <1>1, <1>2, <1>3
<1>5. moved \in [DOMAIN s -> {q} \union (places \ {m})]
  BY <1>4
<1>6. \A i \in DOMAIN s : s[i] = t[moved[i]]
  BY <1>1, <1>3
<1>7a. m \in Nat /\ \A p \in places : p \in Nat
  OBVIOUS
<1>7. \A i, j \in DOMAIN s : i < j => moved[i] < moved[j]
  <2> SUFFICES ASSUME NEW i \in DOMAIN s, NEW j \in DOMAIN s, i < j
               PROVE  moved[i] < moved[j]
    OBVIOUS
  <2>1. j # 1 /\ m < at[j] /\ at[j] \in places
    BY <1>2, <1>4
  <2>2. at[i] < at[j]
    BY <1>1
  <2>3. q < at[j]
    <3>1. at[j] \in Nat /\ m \in Nat /\ m < at[j]
      BY <1>7a, <2>1
    <3> HIDE DEF moved
    <3> QED
      BY <3>1
  <2> QED
    BY <2>1, <2>2, <2>3
<1>8. \A p \in {q} \union (places \ {m}) : \E i \in DOMAIN s : moved[i] = p
  <2>1. moved[1] = q
    BY <1>3
  <2>2. ASSUME NEW p \in places \ {m}
        PROVE  \E i \in DOMAIN s : moved[i] = p
    BY <1>1, <1>3
  <2> QED
    BY <1>3, <2>1, <2>2
<1> HIDE DEF moved
<1> QED
  BY <1>5, <1>6, <1>7, <1>8 DEF Extract

-----------------------------------------------------------------------------
(* The last line of a kind *)

LEMMA Largest ==
  ASSUME NEW n \in Nat, NEW T \in SUBSET (0..n), T # {}
  PROVE  \E x \in T : \A y \in T : y <= x
<1> DEFINE Gap == {n - x : x \in T}
<1>1. Gap \in SUBSET Nat /\ Gap # {}
  <2>1. \A x \in T : x \in 0..n /\ n - x \in Nat
    OBVIOUS
  <2>2. PICK x \in T : TRUE
    OBVIOUS
  <2>3. n - x \in Gap
    BY <2>2
  <2> QED
    BY <2>1, <2>3
<1>2. PICK g \in Gap : \A h \in Gap : g <= h
  BY <1>1, Smallest
<1>3. PICK x \in T : g = n - x
  BY <1>2
<1>4. \A y \in T : n - x <= n - y
  BY <1>2, <1>3
<1>5. \A y \in T : y <= x
  BY <1>4
<1> QED
  BY <1>5

LEMMA LastPlace ==
  ASSUME NEW n \in Nat, NEW D \in SUBSET (1..n)
  PROVE  /\ Max({0} \union D) \in {0} \union D
         /\ Max({0} \union (D \union {n + 1})) = n + 1
<1>1. \E x \in {0} \union D : \A y \in {0} \union D : y <= x
  <2>1. {0} \union D \in SUBSET (0..n) /\ {0} \union D # {}
    OBVIOUS
  <2> QED
    BY <2>1, Largest
<1>2. Max({0} \union D) \in {0} \union D
  BY <1>1 DEF Max
<1> DEFINE T == {0} \union (D \union {n + 1})
<1>3. n + 1 \in T /\ \A y \in T : n + 1 >= y
  OBVIOUS
<1>4. \A x \in T : (\A y \in T : x >= y) => x = n + 1
  BY <1>3
<1>5. Max(T) = n + 1
  BY <1>3, <1>4 DEF Max
<1> QED
  BY <1>2, <1>5

\* The last lines are lines of their kinds.
LEMMA LastLines ==
  ASSUME lines \in Seq(Kludges)
  PROVE  /\ LastMsgid # 0 => LastMsgid \in DOMAIN lines /\ lines[LastMsgid].kind = "MSGID"
         /\ LastTopt # 0 => LastTopt \in DOMAIN lines /\ lines[LastTopt].kind = "TOPT"
         /\ LastFmpt # 0 => LastFmpt \in DOMAIN lines /\ lines[LastFmpt].kind = "FMPT"
         /\ LastIntl # 0 => LastIntl \in DOMAIN lines /\ lines[LastIntl].kind = "INTL"
         /\ LastFull # 0 => LastFull \in DOMAIN lines /\ lines[LastFull].kind = "INTL"
<1> DEFINE n == Len(lines)
           M == {i \in DOMAIN lines : lines[i].kind = "MSGID"}
           T == {i \in DOMAIN lines : lines[i].kind = "TOPT"}
           F == {i \in DOMAIN lines : lines[i].kind = "FMPT"}
           I == {i \in DOMAIN lines : lines[i].kind = "INTL" /\ lines[i].dest # NoAddress}
           B == {i \in DOMAIN lines : /\ lines[i].kind = "INTL" /\ lines[i].dest # NoAddress
                                      /\ lines[i].orig # NoAddress}
<1>1. n \in Nat /\ DOMAIN lines = 1..n
  OBVIOUS
<1>2. /\ M \subseteq 1..n /\ T \subseteq 1..n /\ F \subseteq 1..n /\ I \subseteq 1..n
      /\ B \subseteq 1..n
  BY <1>1
<1>3. /\ LastMsgid \in {0} \union M /\ LastTopt \in {0} \union T /\ LastFmpt \in {0} \union F
      /\ LastIntl \in {0} \union I /\ LastFull \in {0} \union B
  <2>1. /\ LastMsgid = Max({0} \union M) /\ LastTopt = Max({0} \union T)
        /\ LastFmpt = Max({0} \union F) /\ LastIntl = Max({0} \union I)
        /\ LastFull = Max({0} \union B)
    BY DEF LastMsgid, LastTopt, LastFmpt, LastIntl, LastFull, LastLine
  <2> HIDE DEF M, T, F, I, B, n
  <2> QED
    BY <1>1, <1>2, <2>1, LastPlace
<1> QED
  BY <1>3

\* One more line: the last of its kind; of the other kinds the last is as before.
LEMMA LastLineStep ==
  ASSUME lines \in Seq(Kludges), NEW l \in Kludges, lines' = Append(lines, l)
  PROVE  /\ LastMsgid' = IF l.kind = "MSGID" THEN Len(lines) + 1 ELSE LastMsgid
         /\ LastTopt' = IF l.kind = "TOPT" THEN Len(lines) + 1 ELSE LastTopt
         /\ LastFmpt' = IF l.kind = "FMPT" THEN Len(lines) + 1 ELSE LastFmpt
         /\ LastIntl' = IF l.kind = "INTL" /\ l.dest # NoAddress THEN Len(lines) + 1 ELSE LastIntl
         /\ LastFull' = IF l.kind = "INTL" /\ l.dest # NoAddress /\ l.orig # NoAddress
                        THEN Len(lines) + 1 ELSE LastFull
<1> DEFINE n == Len(lines)
           M(s) == {i \in DOMAIN s : s[i].kind = "MSGID"}
           T(s) == {i \in DOMAIN s : s[i].kind = "TOPT"}
           F(s) == {i \in DOMAIN s : s[i].kind = "FMPT"}
           I(s) == {i \in DOMAIN s : s[i].kind = "INTL" /\ s[i].dest # NoAddress}
           B(s) == {i \in DOMAIN s : /\ s[i].kind = "INTL" /\ s[i].dest # NoAddress
                                     /\ s[i].orig # NoAddress}
           t == Append(lines, l)
<1>1. /\ n \in Nat /\ DOMAIN lines = 1..n /\ DOMAIN t = 1..n \union {n + 1}
      /\ \A i \in 1..n : t[i] = lines[i]
      /\ t[n + 1] = l
  OBVIOUS
<1>2. /\ LastMsgid = Max({0} \union M(lines)) /\ LastMsgid' = Max({0} \union M(t))
      /\ LastTopt = Max({0} \union T(lines)) /\ LastTopt' = Max({0} \union T(t))
      /\ LastFmpt = Max({0} \union F(lines)) /\ LastFmpt' = Max({0} \union F(t))
      /\ LastIntl = Max({0} \union I(lines)) /\ LastIntl' = Max({0} \union I(t))
      /\ LastFull = Max({0} \union B(lines)) /\ LastFull' = Max({0} \union B(t))
  BY DEF LastMsgid, LastTopt, LastFmpt, LastIntl, LastFull, LastLine
<1> HIDE DEF n, t
<1>3. /\ M(lines) \subseteq 1..n /\ T(lines) \subseteq 1..n /\ F(lines) \subseteq 1..n
      /\ I(lines) \subseteq 1..n /\ B(lines) \subseteq 1..n
  BY <1>1
<1>4. /\ M(t) = IF l.kind = "MSGID" THEN M(lines) \union {n + 1} ELSE M(lines)
      /\ T(t) = IF l.kind = "TOPT" THEN T(lines) \union {n + 1} ELSE T(lines)
      /\ F(t) = IF l.kind = "FMPT" THEN F(lines) \union {n + 1} ELSE F(lines)
      /\ I(t) = IF l.kind = "INTL" /\ l.dest # NoAddress THEN I(lines) \union {n + 1}
                ELSE I(lines)
      /\ B(t) = IF l.kind = "INTL" /\ l.dest # NoAddress /\ l.orig # NoAddress
                THEN B(lines) \union {n + 1} ELSE B(lines)
  BY <1>1
<1> HIDE DEF M, T, F, I, B
<1>5. /\ Max({0} \union (M(lines) \union {n + 1})) = n + 1
      /\ Max({0} \union (T(lines) \union {n + 1})) = n + 1
      /\ Max({0} \union (F(lines) \union {n + 1})) = n + 1
      /\ Max({0} \union (I(lines) \union {n + 1})) = n + 1
      /\ Max({0} \union (B(lines) \union {n + 1})) = n + 1
  BY <1>1, <1>3, LastPlace
<1> QED
  BY <1>2, <1>4, <1>5, Zenon DEF n

LEMMA NoLines ==
  ASSUME lines' = << >>
  PROVE  LastMsgid' = 0 /\ LastTopt' = 0 /\ LastFmpt' = 0 /\ LastIntl' = 0 /\ LastFull' = 0
<1>1. DOMAIN << >> = {}
  OBVIOUS
<1>2. Max({0} \union {}) = 0
  <2>1. Max({0} \union {}) \in {0} \union {}
    BY LastPlace
  <2> QED
    BY <2>1
<1> QED
  BY <1>1, <1>2 DEF LastMsgid, LastTopt, LastFmpt, LastIntl, LastFull, LastLine

-----------------------------------------------------------------------------
(* What the text tells of the addresses *)

LEMMA OpenTold ==
  ASSUME NEW h \in Headers, OpenMessage(h)
  PROVE  AddressInv'
<1>1. h \in Header /\ h.orig \in Address /\ h.dest \in Address
  BY Inputs DEF Header
<1>2. h.orig.domain = "" /\ h.dest.domain = ""
  BY DataAssumption
<1>3. FromHeader(h, h.orig) \in Address /\ FromHeader(h, h.dest) \in Address
  BY <1>1 DEF FromHeader, Address
<1>4. FromHeader(h, h.orig).domain = "" /\ FromHeader(h, h.dest).domain = ""
  BY <1>1, <1>2 DEF FromHeader, Address
<1>5. /\ lines' = << >> /\ header' = h
      /\ info'.dest = FromHeader(h, h.dest) /\ info'.orig = FromHeader(h, h.orig)
      /\ info'.msgidZone = 0
  BY DEF OpenMessage
<1>6. LastMsgid' = 0 /\ LastTopt' = 0 /\ LastFmpt' = 0 /\ LastIntl' = 0 /\ LastFull' = 0
  BY <1>5, NoLines
<1>7. ZoneTold' = 0
  BY <1>6 DEF ZoneTold
<1>8. ASSUME NEW a \in Address, a.domain = ""
      PROVE  [zone |-> a.zone, net |-> a.net, node |-> a.node, point |-> a.point, domain |-> ""] = a
  BY <1>8 DEF Address
<1>9. /\ DestTold' = FromHeader(h, h.dest)
      /\ OrigTold' = FromHeader(h, h.orig)
  BY <1>3, <1>4, <1>5, <1>6, <1>8 DEF DestTold, OrigTold, Told
<1> QED
  BY <1>5, <1>7, <1>9 DEF AddressInv

LEMMA ReadTold ==
  ASSUME AnalysisInv, AddressInv, NEW l \in Kludges, ReadLine(l)
  PROVE  AddressInv'
<1> DEFINE n == Len(lines)
<1>1. /\ step = "text" /\ lines' = Append(lines, l) /\ lines \in Seq(Kludges)
      /\ header' = header /\ info \in Visu
  BY DEF ReadLine, AnalysisInv, TypeOK
<1>2. /\ info.dest = DestTold /\ info.orig = OrigTold /\ info.msgidZone = ZoneTold
  BY <1>1 DEF AddressInv
<1>3. /\ n \in Nat /\ DOMAIN lines = 1..n /\ n + 1 # 0
      /\ \A i \in DOMAIN lines : lines'[i] = lines[i]
      /\ lines'[n + 1] = l
  BY <1>1
<1>4. /\ LastMsgid' = IF l.kind = "MSGID" THEN n + 1 ELSE LastMsgid
      /\ LastTopt' = IF l.kind = "TOPT" THEN n + 1 ELSE LastTopt
      /\ LastFmpt' = IF l.kind = "FMPT" THEN n + 1 ELSE LastFmpt
      /\ LastIntl' = IF l.kind = "INTL" /\ l.dest # NoAddress THEN n + 1 ELSE LastIntl
      /\ LastFull' = IF l.kind = "INTL" /\ l.dest # NoAddress /\ l.orig # NoAddress
                     THEN n + 1 ELSE LastFull
  BY <1>1, LastLineStep
<1>5. /\ LastMsgid # 0 => lines'[LastMsgid] = lines[LastMsgid]
      /\ LastTopt # 0 => lines'[LastTopt] = lines[LastTopt]
      /\ LastFmpt # 0 => lines'[LastFmpt] = lines[LastFmpt]
      /\ LastIntl # 0 => lines'[LastIntl] = lines[LastIntl]
      /\ LastFull # 0 => lines'[LastFull] = lines[LastFull]
  BY <1>1, <1>3, LastLines
<1> HIDE DEF n
<1>6. ZoneTold' = IF l.kind = "MSGID" THEN l.zone ELSE ZoneTold
  BY <1>3, <1>4, <1>5 DEF ZoneTold
<1> DEFINE known(a, b) == [a EXCEPT !.zone = b.zone, !.net = b.net, !.node = b.node]
<1>7. DestTold' = CASE l.kind = "INTL" /\ l.dest # NoAddress -> known(DestTold, l.dest)
                    [] l.kind = "TOPT" -> [DestTold EXCEPT !.point = l.point]
                    [] OTHER -> DestTold
  <2>1. CASE l.kind = "INTL" /\ l.dest # NoAddress
    BY <1>1, <1>3, <1>4, <1>5, <2>1 DEF DestTold, Told
  <2>2. CASE l.kind = "TOPT"
    BY <1>1, <1>3, <1>4, <1>5, <2>2 DEF DestTold, Told
  <2>3. CASE ~(l.kind = "INTL" /\ l.dest # NoAddress) /\ l.kind # "TOPT"
    BY <1>1, <1>3, <1>4, <1>5, <2>3 DEF DestTold, Told
  <2> QED
    BY <2>1, <2>2, <2>3
<1>8. OrigTold' = CASE l.kind = "INTL" /\ l.dest # NoAddress /\ l.orig # NoAddress
                         -> known(OrigTold, l.orig)
                    [] l.kind = "FMPT" -> [OrigTold EXCEPT !.point = l.point]
                    [] OTHER -> OrigTold
  <2>1. CASE l.kind = "INTL" /\ l.dest # NoAddress /\ l.orig # NoAddress
    BY <1>1, <1>3, <1>4, <1>5, <2>1 DEF OrigTold, Told
  <2>2. CASE l.kind = "FMPT"
    BY <1>1, <1>3, <1>4, <1>5, <2>2 DEF OrigTold, Told
  <2>3. CASE ~(l.kind = "INTL" /\ l.dest # NoAddress /\ l.orig # NoAddress) /\ l.kind # "FMPT"
    BY <1>1, <1>3, <1>4, <1>5, <2>3 DEF OrigTold, Told
  <2> QED
    BY <2>1, <2>2, <2>3
<1>9. /\ info'.msgidZone = ZoneTold'
      /\ info'.dest = DestTold'
      /\ info'.orig = OrigTold'
  <2>1. CASE ReadIntl(l)
    BY <1>1, <1>2, <1>6, <1>7, <1>8, <2>1 DEF ReadIntl, Visu
  <2>2. CASE ReadPoint(l)
    BY <1>1, <1>2, <1>6, <1>7, <1>8, <2>2 DEF ReadPoint, Visu
  <2>3. CASE ReadMsgid(l)
    BY <1>1, <1>2, <1>6, <1>7, <1>8, <2>3 DEF ReadMsgid, Visu
  <2>4. CASE ReadFlags(l) \/ ReadEnc(l)
    BY <1>1, <1>2, <1>6, <1>7, <1>8, <2>4 DEF ReadFlags, ReadEnc, Visu
  <2>5. CASE ReadViaOfNone(l)
    BY <1>1, <1>2, <1>6, <1>7, <1>8, <2>5 DEF ReadViaOfNone
  <2>6. ASSUME NEW a \in Parsed(l), ReadVia(l, a)
        PROVE  /\ info'.msgidZone = ZoneTold'
               /\ info'.dest = DestTold'
               /\ info'.orig = OrigTold'
    BY <1>1, <1>2, <1>6, <1>7, <1>8, <2>6 DEF ReadVia, Visu
  <2> QED
    BY <2>1, <2>2, <2>3, <2>4, <2>5, <2>6 DEF ReadLine
<1> QED
  BY <1>9 DEF AddressInv

LEMMA SameTold ==
  ASSUME UNCHANGED << header, lines >>
  PROVE  UNCHANGED << DestTold, OrigTold, ZoneTold >>
<1>1. UNCHANGED << LastMsgid, LastTopt, LastFmpt, LastIntl, LastFull >>
  BY DEF LastMsgid, LastTopt, LastFmpt, LastIntl, LastFull, LastLine
<1> QED
  BY <1>1 DEF DestTold, OrigTold, ZoneTold, Told

LEMMA EndTold ==
  ASSUME AnalysisInv, AddressInv, EndOfText
  PROVE  AddressesAsWritten' /\ info'.orig.domain = ""
<1>1. /\ step = "text" /\ info \in Visu /\ UNCHANGED << header, lines >>
  BY DEF AnalysisInv, TypeOK, EndOfText, Goto
<1>2. /\ info.dest = DestTold /\ info.orig = OrigTold /\ info.msgidZone = ZoneTold
  BY <1>1 DEF AddressInv
<1>3. UNCHANGED << DestTold, OrigTold, ZoneTold >>
  BY <1>1, SameTold
<1> DEFINE zone(z) == IF z # 0 THEN z ELSE IF ZoneTold # 0 THEN ZoneTold ELSE Main.zone
<1>4. /\ info'.dest = [DestTold EXCEPT !.zone = zone(@)]
      /\ info'.orig = [OrigTold EXCEPT !.zone = zone(@)]
  BY <1>1, <1>2 DEF EndOfText, Visu
<1>5. OrigTold.domain = "" /\ DOMAIN OrigTold = {"zone", "net", "node", "point", "domain"}
  BY DEF OrigTold, Told
<1> QED
  BY <1>3, <1>4, <1>5 DEF AddressesAsWritten

-----------------------------------------------------------------------------
(* The way of the message *)

LEMMA WayPlaces ==
  ASSUME NEW s \in Seq(Kludges)
  PROVE  DOMAIN Way(s) \subseteq 1..Len(s) /\ DOMAIN Way(s) \subseteq Nat
BY DEF Way

\* A last stop more is a move unless the stop before was the same system.
LEMMA MovesMore ==
  ASSUME NEW n \in Nat, NEW way, NEW more, NEW v,
         DOMAIN way \subseteq 1..n, DOMAIN more = DOMAIN way \union {n + 1},
         \A i \in DOMAIN way : more[i] = way[i], more[n + 1] = v
  PROVE  /\ DOMAIN way = {} => Moves(way) = {} /\ Moves(more) = {n + 1}
         /\ \A m \in DOMAIN way :
              (\A j \in DOMAIN way : j <= m) =>
                Moves(more) = IF way[m] = v THEN Moves(way) ELSE Moves(way) \union {n + 1}
<1>1. \A i \in DOMAIN way : i \in 1..n /\ i \in DOMAIN more
  OBVIOUS
<1>2. \A i \in DOMAIN way : i \in Moves(more) <=> i \in Moves(way)
  BY <1>1 DEF Moves
<1>3. DOMAIN way = {} => Moves(way) = {} /\ Moves(more) = {n + 1}
  BY DEF Moves
<1>4. Moves(more) \subseteq DOMAIN way \union {n + 1} /\ Moves(way) \subseteq DOMAIN way
  BY DEF Moves
<1>5. ASSUME NEW m \in DOMAIN way, \A j \in DOMAIN way : j <= m
      PROVE  n + 1 \in Moves(more) <=> way[m] # v
  <2>1. \A k \in DOMAIN more : k <= m \/ k >= n + 1
    BY <1>1, <1>5
  <2>2. m < n + 1 /\ m \in DOMAIN more /\ more[m] = way[m]
    BY <1>1
  <2>3. n + 1 \in Moves(more) => way[m] # v
    BY <2>1, <2>2 DEF Moves
  <2>4. ASSUME way[m] # v
        PROVE  n + 1 \in Moves(more)
    <3>1. ASSUME NEW j \in DOMAIN more, j < n + 1,
                 \A k \in DOMAIN more : k <= j \/ k >= n + 1
          PROVE  more[j] # more[n + 1]
      <4>1. j \in DOMAIN way /\ j \in 1..n /\ m \in 1..n
        BY <1>1, <3>1
      <4>2. j <= m /\ m <= j
        BY <1>5, <2>2, <3>1, <4>1
      <4>3. j = m
        BY <4>1, <4>2
      <4> QED
        BY <2>2, <2>4, <4>3
    <3> QED
      BY <3>1 DEF Moves
  <2> QED
    BY <2>3, <2>4
<1>6. n + 1 \notin DOMAIN way
  BY <1>1
<1>7. ASSUME NEW m \in DOMAIN way, \A j \in DOMAIN way : j <= m
      PROVE  Moves(more) = IF way[m] = v THEN Moves(way) ELSE Moves(way) \union {n + 1}
  <2>1. n + 1 \in Moves(more) <=> way[m] # v
    BY <1>5, <1>7
  <2> QED
    BY <1>2, <1>4, <1>6, <2>1
<1> QED
  BY <1>3, <1>7

\* With the sender before them the first stop is no move if it is the sender's.
LEMMA MovesFrom ==
  ASSUME NEW way, DOMAIN way \subseteq Nat \ {0}, NEW from, NEW a,
         DOMAIN from = {0} \union DOMAIN way,
         \A i \in DOMAIN way : from[i] = way[i], from[0] = a
  PROVE  /\ DOMAIN way = {} => Moves(way) = {} /\ Moves(from) = {0}
         /\ \A m \in DOMAIN way :
              (\A j \in DOMAIN way : m <= j) =>
                /\ m \in Moves(way)
                /\ Moves(from) = {0} \union
                                 (IF way[m] = a THEN Moves(way) \ {m} ELSE Moves(way))
<1>1. \A i \in DOMAIN way : i \in Nat /\ 0 < i /\ i \in DOMAIN from
  OBVIOUS
<1>2. DOMAIN way = {} => Moves(way) = {} /\ Moves(from) = {0}
  BY DEF Moves
<1>3. 0 \in Moves(from)
  BY <1>1 DEF Moves
<1>4. Moves(from) \subseteq {0} \union DOMAIN way /\ Moves(way) \subseteq DOMAIN way
  BY DEF Moves
<1>5. ASSUME NEW m \in DOMAIN way, \A j \in DOMAIN way : m <= j
      PROVE  /\ m \in Moves(way)
             /\ Moves(from) = {0} \union
                              (IF way[m] = a THEN Moves(way) \ {m} ELSE Moves(way))
  <2>1. m \in Moves(way)
    BY <1>1, <1>5 DEF Moves
  <2>2. m \in Moves(from) <=> way[m] # a
    <3>1. 0 < m /\ 0 \in DOMAIN from /\ m \in DOMAIN from
      BY <1>1
    <3>2. \A k \in DOMAIN from : k <= 0 \/ k >= m
      BY <1>1, <1>5
    <3>3. m \in Moves(from) => way[m] # a
      BY <3>1, <3>2 DEF Moves
    <3>4. \A j \in DOMAIN from : j < m => j = 0
      BY <1>1, <1>5
    <3>5. way[m] # a => m \in Moves(from)
      BY <3>1, <3>4 DEF Moves
    <3> QED
      BY <3>3, <3>5
  <2>3. ASSUME NEW i \in DOMAIN way, i # m
        PROVE  i \in Moves(from) <=> i \in Moves(way)
    <3>1. /\ m < i /\ ~(m <= 0) /\ ~(m >= i) /\ m \in DOMAIN from
          /\ \A j \in DOMAIN way : ~(0 >= i) /\ 0 <= j
      BY <1>1, <1>5, <2>3
    <3>2. i \in Moves(from) => i \in Moves(way)
      BY <1>1, <3>1 DEF Moves
    <3>3. i \in Moves(way) => i \in Moves(from)
      <4> SUFFICES ASSUME i \in Moves(way),
                          NEW j \in DOMAIN from, j < i,
                          \A k \in DOMAIN from : k <= j \/ k >= i
                   PROVE  from[j] # from[i]
        BY <1>1 DEF Moves
      <4>1. j # 0
        BY <3>1
      <4>2. j \in DOMAIN way
        BY <4>1
      <4>3. \A k \in DOMAIN way : k <= j \/ k >= i
        BY <1>1
      <4> QED
        BY <4>2, <4>3 DEF Moves
    <3> QED
      BY <3>2, <3>3
  <2> QED
    BY <1>3, <1>4, <1>5, <2>1, <2>2, <2>3, <1>1
<1> QED
  BY <1>2, <1>5

LEMMA WayMore ==
  ASSUME NEW s \in Seq(Kludges), NEW l \in Kludges
  PROVE  LET more == Way(Append(s, l))
         IN IF IsVia(l) /\ l.address # NoAddress
            THEN /\ DOMAIN more = DOMAIN Way(s) \union {Len(s) + 1}
                 /\ \A i \in DOMAIN Way(s) : more[i] = Way(s)[i]
                 /\ more[Len(s) + 1] = Hop(l.address)
            ELSE more = Way(s)
<1> DEFINE n == Len(s)
           t == Append(s, l)
<1>1. /\ n \in Nat /\ DOMAIN s = 1..n /\ DOMAIN t = 1..n \union {n + 1}
      /\ \A i \in 1..n : t[i] = s[i]
      /\ t[n + 1] = l
  OBVIOUS
<1> HIDE DEF n, t
<1>2. CASE IsVia(l) /\ l.address # NoAddress
  BY <1>1, <1>2 DEF Way, n, t
<1>3. CASE ~(IsVia(l) /\ l.address # NoAddress)
  <2>1. {j \in DOMAIN t : IsVia(t[j]) /\ t[j].address # NoAddress}
          = {j \in DOMAIN s : IsVia(s[j]) /\ s[j].address # NoAddress}
    BY <1>1, <1>3
  <2>2. Way(t) = Way(s)
    BY <1>1, <2>1 DEF Way
  <2> QED
    BY <1>3, <2>2 DEF t
<1> QED
  BY <1>2, <1>3

\* The path, without the sender, after one more line.
LEMMA PathStep ==
  ASSUME AnalysisInv, PathInv, NEW l \in Kludges, ReadLine(l)
  PROVE  PathInv'
<1> DEFINE n == Len(lines)
           way == Way(lines)
           more == Way(Append(lines, l))
<1>1. /\ step = "text" /\ step' = "text" /\ lines' = Append(lines, l) /\ lines \in Seq(Kludges)
      /\ header' = header /\ path \in Seq(Address) /\ n \in Nat
  BY DEF ReadLine, AnalysisInv, TypeOK
<1> SUFFICES ASSUME Legible(lines'), header.format = "msg"
             PROVE  /\ Extract(path', more, Moves(more))
                    /\ \A i \in DOMAIN more : (\A j \in DOMAIN more : j <= i) =>
                         path' # << >> /\ path'[Len(path')] = more[i]
  BY <1>1 DEF PathInv
<1>2. Legible(lines) /\ (IsVia(l) => ~l.long)
  BY <1>1, MoreText
<1>3. /\ Extract(path, way, Moves(way))
      /\ \A i \in DOMAIN way : (\A j \in DOMAIN way : j <= i) =>
           path # << >> /\ path[Len(path)] = way[i]
  BY <1>1, <1>2 DEF PathInv
<1>4. DOMAIN way \subseteq 1..n /\ DOMAIN way \subseteq Nat
  BY <1>1, WayPlaces
<1>5. CASE IsVia(l) /\ l.address # NoAddress
  <2> DEFINE v == Hop(l.address)
  <2>1. /\ DOMAIN more = DOMAIN way \union {n + 1}
        /\ \A i \in DOMAIN way : more[i] = way[i]
        /\ more[n + 1] = v
    BY <1>1, <1>5, WayMore
  <2>2. path' = AddHop(path, l.address) /\ l.address \in Address /\ v \in Address
    <3>1. PICK a \in Parsed(l) : ReadVia(l, a)
      BY <1>5 DEF ReadLine, ReadIntl, ReadPoint, ReadMsgid, ReadFlags, ReadEnc, ReadViaOfNone, IsVia
    <3>2. a = l.address /\ l.kind = "Via"
      BY <1>2, <1>5 DEF Parsed, IsVia
    <3>3. a \in Address
      BY <1>5, <3>2, ParsedAddress
    <3> QED
      BY <3>1, <3>2, <3>3, Inputs DEF ReadVia, Hop, Address
  <2> HIDE DEF v, more, way, n
  <2>3. \A i \in DOMAIN more : (\A j \in DOMAIN more : j <= i) => i = n + 1
    BY <1>1, <1>4, <2>1
  <2>4. Moves(way) \in SUBSET Nat /\ \A p \in Moves(way) : p < n + 1 /\ more[p] = way[p]
    BY <1>1, <1>4, <2>1 DEF Moves
  <2>5. Extract(path, more, Moves(way))
    BY <1>3, <2>4, ExtractSame
  <2>6. Extract(Append(path, v), more, Moves(way) \union {n + 1})
    BY <1>1, <2>1, <2>2, <2>4, <2>5, ExtractMore
  <2>7. Append(path, v) # << >> /\ Append(path, v)[Len(Append(path, v))] = v
    BY <1>1, <2>2
  <2>8. CASE DOMAIN way = {}
    <3>1. Moves(way) = {} /\ Moves(more) = {n + 1}
      BY <1>1, <1>4, <2>1, <2>8, MovesMore
    <3>2. path = << >>
      <4>1. PICK at \in [DOMAIN path -> {}] : TRUE
        BY <1>3, <3>1 DEF Extract
      <4>2. DOMAIN path = {}
        BY <4>1
      <4> QED
        BY <1>1, <4>2
    <3>3. path' = Append(path, v)
      BY <2>2, <3>2 DEF AddHop, v
    <3> QED
      BY <2>1, <2>3, <2>6, <2>7, <3>1, <3>3
  <2>9. CASE DOMAIN way # {}
    <3>1. PICK m \in DOMAIN way : \A j \in DOMAIN way : j <= m
      <4>1. DOMAIN way \in SUBSET (0..n)
        BY <1>1, <1>4
      <4> QED
        BY <1>1, <2>9, <4>1, Largest
    <3>2. path # << >> /\ path[Len(path)] = way[m]
      BY <1>3, <3>1
    <3>3. Moves(more) = IF way[m] = v THEN Moves(way) ELSE Moves(way) \union {n + 1}
      BY <1>1, <1>4, <2>1, <3>1, MovesMore
    <3>4. CASE way[m] = v
      <4>1. path' = path
        BY <2>2, <3>2, <3>4 DEF AddHop, v
      <4> QED
        BY <2>1, <2>3, <2>5, <3>2, <3>3, <3>4, <4>1
    <3>5. CASE way[m] # v
      <4>1. path' = Append(path, v)
        BY <2>2, <3>2, <3>5 DEF AddHop, v
      <4> QED
        BY <2>1, <2>3, <2>6, <2>7, <3>3, <3>5, <4>1
    <3> QED
      BY <3>4, <3>5
  <2> QED
    BY <2>8, <2>9
<1>6. CASE ~(IsVia(l) /\ l.address # NoAddress)
  <2>1. more = way
    BY <1>1, <1>6, WayMore
  <2>2. path' = path
    BY <1>6 DEF ReadLine, ReadIntl, ReadPoint, ReadMsgid, ReadFlags, ReadEnc, ReadViaOfNone,
                ReadVia, IsVia
  <2> QED
    BY <1>3, <2>1, <2>2
<1> QED
  BY <1>5, <1>6

\* The sender comes before it at the end.
LEMMA PathEnd ==
  ASSUME AnalysisInv, AddressInv, PathInv, EndOfText
  PROVE  PathFollowed'
<1> DEFINE way == Way(lines)
           orig == info'.orig
           from == WayFrom(orig, lines)
<1>1. /\ step = "text" /\ lines \in Seq(Kludges) /\ UNCHANGED << header, lines >>
      /\ info \in Visu /\ path \in Seq(Address)
  BY DEF AnalysisInv, TypeOK, EndOfText, Goto
<1> SUFFICES ASSUME Legible(lines), header.format = "msg"
             PROVE  Extract(path', from, Moves(from))
  BY <1>1 DEF PathFollowed
<1>2. Extract(path, way, Moves(way))
  BY <1>1 DEF PathInv
<1>3. DOMAIN way \subseteq Nat \ {0}
  <2>1. DOMAIN way \subseteq 1..Len(lines) /\ Len(lines) \in Nat
    BY <1>1, WayPlaces
  <2> QED
    BY <2>1
<1>4. /\ DOMAIN from = {0} \union DOMAIN way
      /\ \A i \in DOMAIN way : from[i] = way[i]
      /\ from[0] = orig
  BY <1>3 DEF WayFrom
<1>5. orig \in Address /\ Hop(orig) = orig /\ path' = AddOrigin(path, orig)
  <2>1. AnalysisInv'
    BY EndStep
  <2>2. orig \in Address
    BY <2>1 DEF AnalysisInv, TypeOK, Visu
  <2>3. Hop(orig) = orig
    BY <2>2, EndTold DEF Hop, Address
  <2>4. path' = AddOrigin(path, orig)
    BY <1>1 DEF EndOfText, Visu
  <2> QED
    BY <2>2, <2>3, <2>4
<1> HIDE DEF way, from, orig
<1>6. Moves(way) \in SUBSET Nat /\ \A p \in Moves(way) : 0 < p /\ from[p] = way[p]
  <2>1. \A p \in DOMAIN way : p \in Nat /\ 0 < p
    BY <1>3
  <2>2. \A p \in Moves(way) : p \in DOMAIN way
    BY DEF Moves
  <2> QED
    BY <1>4, <2>1, <2>2
<1>7. Extract(path, from, Moves(way))
  BY <1>2, <1>6, ExtractSame
<1>8. Extract(<< orig >> \o path, from, {0} \union Moves(way))
  BY <1>1, <1>4, <1>5, <1>6, <1>7, ExtractBefore
<1>9. CASE DOMAIN way = {}
  <2>1. Moves(way) = {} /\ Moves(from) = {0}
    BY <1>3, <1>4, <1>9, MovesFrom
  <2>2. path = << >>
    <3>1. PICK at \in [DOMAIN path -> {}] : TRUE
      BY <1>2, <2>1 DEF Extract
    <3>2. DOMAIN path = {}
      BY <3>1
    <3> QED
      BY <1>1, <3>2
  <2>3. path' = << orig >> \o path
    BY <1>5, <2>2 DEF AddOrigin
  <2> QED
    BY <1>8, <2>1, <2>3
<1>10. CASE DOMAIN way # {}
  <2>1. PICK m \in DOMAIN way : \A j \in DOMAIN way : m <= j
    <3>1. DOMAIN way \in SUBSET Nat
      BY <1>3
    <3> QED
      BY <1>10, <3>1, Smallest
  <2>2. /\ m \in Moves(way)
        /\ Moves(from) = {0} \union
                         (IF way[m] = orig THEN Moves(way) \ {m} ELSE Moves(way))
    BY <1>3, <1>4, <2>1, MovesFrom
  <2>3. \A p \in Moves(way) : m <= p
    BY <2>1 DEF Moves
  <2>4. path # << >> /\ path[1] = way[m]
    BY <1>1, <1>2, <1>6, <2>2, <2>3, ExtractFirst
  <2>5. CASE way[m] = orig
    <3>1. path' = path
      BY <1>5, <2>4, <2>5 DEF AddOrigin
    <3>2. from[0] = from[m] /\ 0 < m
      BY <1>4, <1>6, <2>2, <2>5
    <3>3. Extract(path, from, {0} \union (Moves(way) \ {m}))
      BY <1>1, <1>6, <1>7, <2>2, <2>3, <3>2, ExtractMoved
    <3> QED
      BY <2>2, <2>5, <3>1, <3>3
  <2>6. CASE way[m] # orig
    <3>1. path' = << orig >> \o path
      BY <1>5, <2>4, <2>6 DEF AddOrigin
    <3> QED
      BY <1>8, <2>2, <2>6, <3>1
  <2> QED
    BY <2>5, <2>6
<1> QED
  BY <1>9, <1>10

-----------------------------------------------------------------------------
(* The via lines *)

LEMMA LoggedMore ==
  ASSUME NEW s \in Seq(Kludges), NEW l \in Kludges
  PROVE  Logged(Append(s, l)) =
           CASE ~IsVia(l) -> Logged(s)
             [] Home(l) /\ "-V" \notin config -> {Len(s) + 1}
             [] OTHER -> Logged(s) \union {Len(s) + 1}
<1> DEFINE n == Len(s)
           t == Append(s, l)
<1>1. /\ n \in Nat /\ DOMAIN s = 1..n /\ DOMAIN t = 1..n \union {n + 1}
      /\ \A i \in 1..n : t[i] = s[i] /\ n + 1 > i /\ ~(i > n + 1)
      /\ t[n + 1] = l /\ ~(n + 1 > n + 1)
  OBVIOUS
<1> HIDE DEF n, t
<1>2. Home(l) => IsVia(l)
  BY DEF Home
<1>3. Logged(t) \subseteq 1..n \union {n + 1} /\ Logged(s) \subseteq 1..n
  BY <1>1 DEF Logged
<1>4. n + 1 \in Logged(t) <=> IsVia(l)
  BY <1>1 DEF Logged
<1>5. \A i \in 1..n : i \in Logged(t) <=> /\ i \in Logged(s)
                                          /\ "-V" \in config \/ ~Home(l)
  BY <1>1 DEF Logged
<1>6. n + 1 \notin 1..n
  BY <1>1
<1>7. Logged(t) = CASE ~IsVia(l) -> Logged(s)
                    [] Home(l) /\ "-V" \notin config -> {n + 1}
                    [] OTHER -> Logged(s) \union {n + 1}
  <2>1. CASE ~IsVia(l)
    <3>1. Logged(t) = Logged(s)
      BY <1>2, <1>3, <1>4, <1>5, <1>6, <2>1
    <3> QED
      BY <1>2, <2>1, <3>1
  <2>2. CASE Home(l) /\ "-V" \notin config
    <3>1. Logged(t) = {n + 1}
      BY <1>2, <1>3, <1>4, <1>5, <1>6, <2>2
    <3> QED
      BY <1>2, <2>2, <3>1
  <2>3. CASE IsVia(l) /\ ~(Home(l) /\ "-V" \notin config)
    <3>1. Logged(t) = Logged(s) \union {n + 1}
      BY <1>3, <1>4, <1>5, <1>6, <2>3
    <3> QED
      BY <2>3, <3>1
  <2> QED
    BY <2>1, <2>2, <2>3
<1> QED
  BY <1>7 DEF n, t

LEMMA ViasStep ==
  ASSUME AnalysisInv, ViasLogged, NEW l \in Kludges, ReadLine(l)
  PROVE  ViasLogged'
<1> DEFINE n == Len(lines)
           t == Append(lines, l)
<1>1. /\ step = "text" /\ step' = "text" /\ lines' = t /\ lines \in Seq(Kludges)
      /\ header' = header /\ config' = config /\ vias \in Seq(Kludges)
  BY DEF ReadLine, AnalysisInv, TypeOK
<1>2. n \in Nat /\ \A i \in 1..n : t[i] = lines[i]
  BY <1>1
<1>3. t[n + 1] = l
  BY <1>1
<1>4. (Logged(lines))' = Logged(t)
  BY <1>1 DEF Logged
<1> HIDE DEF n, t
<1> SUFFICES ASSUME Legible(t), header.format = "msg"
             PROVE  Extract(vias', t, Logged(t))
  BY <1>1, <1>4 DEF ViasLogged
<1>5. Legible(lines) /\ (IsVia(l) => ~l.long)
  BY <1>1, MoreText DEF t
<1>6. Extract(vias, lines, Logged(lines))
  BY <1>1, <1>5 DEF ViasLogged
<1>7. Logged(lines) \in SUBSET Nat /\ \A p \in Logged(lines) : p \in 1..n /\ p < n + 1
  BY <1>1, <1>2 DEF Logged, n
<1>8. Extract(vias, t, Logged(lines))
  BY <1>2, <1>6, <1>7, ExtractSame
<1>9. Logged(t) = CASE ~IsVia(l) -> Logged(lines)
                    [] Home(l) /\ "-V" \notin config -> {n + 1}
                    [] OTHER -> Logged(lines) \union {n + 1}
  BY <1>1, LoggedMore DEF n, t
<1>10. Home(l) => IsVia(l)
  BY DEF Home
<1>11. CASE ~IsVia(l)
  <2>1. vias' = vias
    BY <1>11 DEF ReadLine, ReadIntl, ReadPoint, ReadMsgid, ReadFlags, ReadEnc, ReadViaOfNone,
                 ReadVia, IsVia
  <2> QED
    BY <1>8, <1>9, <1>10, <1>11, <2>1
<1>12. CASE IsVia(l)
  <2>1. vias' = IF Home(l) /\ "-V" \notin config THEN << l >> ELSE Append(vias, l)
    <3>1. CASE ReadViaOfNone(l)
      BY <1>1, <3>1 DEF ReadViaOfNone, AddVia, Home
    <3>2. ASSUME NEW a \in Parsed(l), ReadVia(l, a)
          PROVE  vias' = IF Home(l) /\ "-V" \notin config THEN << l >> ELSE Append(vias, l)
      <4>1. IsLocalAKA(a) <=> Home(l)
        BY <1>5, <1>12, <3>2 DEF Parsed, ReadVia, Home
      <4> QED
        BY <1>1, <3>2, <4>1 DEF ReadVia, AddVia
    <3> QED
      BY <1>12, <3>1, <3>2 DEF ReadLine, ReadIntl, ReadPoint, ReadMsgid, ReadFlags, ReadEnc, IsVia
  <2>2. CASE Home(l) /\ "-V" \notin config
    <3>1. << >> \in Seq(Kludges) /\ Append(<< >>, l) = << l >> /\ {} \in SUBSET Nat
          /\ n + 1 \in Nat
      BY <1>2
    <3>2. Extract(Append(<< >>, l), t, {} \union {n + 1})
      BY <1>3, <3>1, ExtractNone, ExtractMore
    <3>3. {} \union {n + 1} = {n + 1}
      OBVIOUS
    <3>4. Logged(t) = {n + 1}
      BY <1>9, <1>12, <2>2
    <3> QED
      BY <2>1, <2>2, <3>1, <3>2, <3>3, <3>4
  <2>3. CASE ~(Home(l) /\ "-V" \notin config)
    <3>1. Extract(Append(vias, l), t, Logged(lines) \union {n + 1})
      BY <1>1, <1>2, <1>3, <1>7, <1>8, ExtractMore
    <3>2. Logged(t) = Logged(lines) \union {n + 1}
      BY <1>9, <1>12, <2>3
    <3> QED
      BY <2>1, <2>3, <3>1, <3>2
  <2> QED
    BY <2>2, <2>3
<1> QED
  BY <1>11, <1>12

-----------------------------------------------------------------------------
(* What is read: the invariant *)

\* Outside of the text nothing is read.
LEMMA SameRead ==
  ASSUME ReadInv, UNCHANGED << config, messageVars >>,
         step' = step \/ (TextEnded /\ TextEnded')
  PROVE  ReadInv'
<1>1. UNCHANGED << header, lines, info, vias, path >>
  BY DEF messageVars
<1>2. UNCHANGED << DestTold, OrigTold, ZoneTold >>
  BY <1>1, SameTold
<1>3. TextEnded' => TextEnded \/ step' = step
  BY DEF TextEnded
<1>4. AddressInv' /\ AddressesAsWritten'
  BY <1>1, <1>2 DEF ReadInv, AddressInv, AddressesAsWritten, TextEnded
<1>5. PathInv'
  BY <1>1 DEF ReadInv, PathInv, TextEnded
<1>6. PathFollowed'
  BY <1>1 DEF ReadInv, PathFollowed, TextEnded
<1>7. ViasLogged'
  <2>1. (Logged(lines))' = Logged(lines)
    BY <1>1 DEF Logged
  <2> QED
    BY <1>1, <2>1 DEF ReadInv, ViasLogged, TextEnded
<1> QED
  BY <1>4, <1>5, <1>6, <1>7 DEF ReadInv

LEMMA OpenRead ==
  ASSUME AnalysisInv, NEW h \in Headers, OpenMessage(h)
  PROVE  ReadInv'
<1>1. /\ lines' = << >> /\ vias' = << >> /\ path' = << >> /\ step' = "text"
  BY DEF OpenMessage
<1>2. DOMAIN << >> = {}
  OBVIOUS
<1>3. ~TextEnded'
  BY <1>1 DEF TextEnded
<1>4. (Logged(lines))' = {}
  BY <1>1, <1>2 DEF Logged
<1>5. ViasLogged'
  BY <1>1, <1>4, ExtractNone DEF ViasLogged
<1>6. DOMAIN Way(<< >>) = {} /\ Moves(Way(<< >>)) = {}
  BY <1>2 DEF Way, Moves
<1>7. PathInv'
  BY <1>1, <1>6, ExtractNone DEF PathInv
<1> QED
  BY <1>3, <1>5, <1>7, OpenTold DEF ReadInv, AddressesAsWritten, PathFollowed

LEMMA ReadInductive == Spec => []ReadInv
<1>1. Init => ReadInv
  BY DEF Init, ReadInv, AddressInv, PathInv, AddressesAsWritten, PathFollowed, ViasLogged,
         TextEnded
<1>2. AnalysisInv /\ ReadInv /\ [Next]_vars => ReadInv'
  <2> SUFFICES ASSUME AnalysisInv, ReadInv, [Next]_vars
               PROVE  ReadInv'
    OBVIOUS
  <2>1. ASSUME NEW h \in Headers, OpenMessage(h)
        PROVE  ReadInv'
    BY <2>1, OpenRead
  <2>2. ASSUME NEW l \in Kludges, ReadLine(l)
        PROVE  ReadInv'
    <3>1. AddressInv' /\ PathInv' /\ ViasLogged'
      BY <2>2, ReadTold, PathStep, ViasStep DEF ReadInv
    <3>2. ~TextEnded'
      BY <2>2 DEF ReadLine, TextEnded
    <3> QED
      BY <3>1, <3>2 DEF ReadInv, AddressesAsWritten, PathFollowed
  <2>3. CASE EndOfText
    <3>1. AddressesAsWritten' /\ PathFollowed'
      BY <2>3, EndTold, PathEnd DEF ReadInv
    <3>2. /\ step = "text" /\ step' = "nopack"
          /\ UNCHANGED << config, header, lines, vias >>
      BY <2>3 DEF EndOfText, Goto
    <3>3. (Logged(lines))' = Logged(lines)
      BY <3>2 DEF Logged
    <3>4. ViasLogged'
      BY <3>2, <3>3 DEF ReadInv, ViasLogged
    <3> QED
      BY <3>1, <3>2, <3>4 DEF ReadInv, AddressInv, PathInv
  <2>4. CASE AnswerNoPack \/ CheckAttributes \/ GetSendType
    BY <2>4, SameRead DEF AnswerNoPack, CheckAttributes, GetSendType, Goto, TextEnded
  <2>5. CASE DetermineDirect \/ DetermineBoss \/ DetermineRoute
    <3>1. UNCHANGED << config, messageVars >> /\ step = "route" /\ step' \in {"loop", "left"}
      BY <2>5 DEF DetermineDirect, DetermineBoss, DetermineRoute, GoTo, Goto
    <3> QED
      BY <3>1, SameRead DEF TextEnded
  <2>6. CASE Finish
    BY <2>6, SameRead DEF Finish, Goto, TextEnded
  <2>7. CASE UNCHANGED vars
    BY <2>7, SameRead DEF vars
  <2> QED
    BY <2>1, <2>2, <2>3, <2>4, <2>5, <2>6, <2>7 DEF Next
<1> QED
  BY <1>1, <1>2, AnalysisInductive, PTL DEF Spec

-----------------------------------------------------------------------------
(* Theorems *)

\* S_Visu, the lists and the answers have their types, and AKAMatch always has an
\* address of ours for a packet.
THEOREM AnalysisTyped == Spec => []TypeOK
<1>1. AnalysisInv => TypeOK
  BY DEF AnalysisInv
<1> QED
  BY <1>1, AnalysisInductive, PTL

\* Loops are found, and nothing else is taken for one, in texts of any length.
THEOREM LoopsDetected == Spec => []LoopDetected
<1>1. AnalysisInv => LoopDetected
  BY DEF AnalysisInv, TextInv, LoopDetected
<1> QED
  BY <1>1, AnalysisInductive, PTL

\* With NOLOOPROUTE a looping message is never packed.
THEOREM LoopsNotPacked == Spec => []LoopNotPacked
<1>1. AnalysisInv => LoopNotPacked
  BY DEF AnalysisInv, TextInv, WaypointInv, LoopStops, LoopNotPacked
<1> QED
  BY <1>1, AnalysisInductive, PTL

\* No mail that is not routed is packed for ourselves.
THEOREM NothingToOurselves == Spec => []NotToOurselves
<1>1. AnalysisInv => NotToOurselves
  BY DEF AnalysisInv, KindInv, WaypointInv, ViaBoss, NotToOurselves
<1> QED
  BY <1>1, AnalysisInductive, PTL

\* The attributes of a message, in its header or its text, go before its route.
THEOREM AttributesGoFirst == Spec => []AttributesFirst
<1>1. AnalysisInv => AttributesFirst
  <2> SUFFICES ASSUME AnalysisInv, step = "packed"
               PROVE  AttributesFirst
    BY DEF AttributesFirst
  <2>1. info.flags = AllFlags /\ KindInv /\ WaypointInv
    BY DEF AnalysisInv, TextInv
  <2>2. PICK f \in Flavour : attribPack = FinalFlavour(f, info.flags)
    BY <2>1 DEF WaypointInv
  <2>3. /\ "Hold" \in AllFlags /\ "Crash" \notin AllFlags => attribPack = "HOLD"
        /\ "Crash" \in AllFlags /\ "Hold" \notin AllFlags => attribPack = "CRASH"
    BY <2>1, <2>2 DEF FinalFlavour
  <2>4. ASSUME AllFlags \intersect DirectFlags # {}
        PROVE  \/ shouldGo = info.dest
               \/ /\ shouldGo = Boss(info.dest)
                  /\ config \intersect {"VIABOSSDIRECT", "VIABOSSHOLD"} # {}
    BY <2>1, <2>4 DEF KindInv, WaypointInv, ViaBoss
  <2> QED
    BY <2>3, <2>4 DEF AttributesFirst, DirectFlags
<1> QED
  BY <1>1, AnalysisInductive, PTL

\* The address of ours in a packet is of the zone and the net of its system
\* whenever we have one there, for any list of addresses.
THEOREM OurAkaFitting == Spec => []OurAkaFits
<1>1. AnalysisInv => OurAkaFits
  <2> SUFFICES ASSUME AnalysisInv, step = "packed"
               PROVE  OurAkaFits
    BY DEF OurAkaFits
  <2>1. shouldGo \in Address /\ ourAKA = AKAMatch(shouldGo)
    BY DEF AnalysisInv, WaypointInv
  <2>2. PICK b \in DOMAIN AKAs :
          /\ ourAKA = AKAs[b]
          /\ \A j \in DOMAIN AKAs : MatchLevel(AKAs[j], shouldGo) <= MatchLevel(AKAs[b], shouldGo)
    BY <2>1, AKAMatchBest
  <2>3. \A i \in DOMAIN AKAs : AKAs[i] \in Address
    BY OurList
  <2>4. ASSUME NEW i \in DOMAIN AKAs, AKAs[i].zone = shouldGo.zone,
               AKAs[i].domain = shouldGo.domain
        PROVE  /\ ourAKA.zone = shouldGo.zone
               /\ ourAKA.domain = "" \/ shouldGo.domain = "" \/ ourAKA.domain = shouldGo.domain
               /\ AKAs[i].net = shouldGo.net => ourAKA.net = shouldGo.net
    <3> DEFINE x == Agreement(AKAs[i], shouldGo)
               y == Agreement(AKAs[b], shouldGo)
    <3>1. /\ MatchLevel(AKAs[i], shouldGo) <= MatchLevel(AKAs[b], shouldGo)
          /\ AKAs[i] \in Address /\ AKAs[b] \in Address
      BY <2>2, <2>3
    <3>2. /\ x \in 0..4 /\ y \in 0..4
          /\ MatchLevel(AKAs[i], shouldGo) \in 0..5 /\ MatchLevel(AKAs[b], shouldGo) \in 0..5
      BY <2>1, <3>1, Agreements, Levels
    <3>3. x >= 1 /\ (AKAs[i].net = shouldGo.net => x >= 2)
      BY <2>1, <2>4, <3>1, Agreements
    <3>4. /\ y >= 1 => AKAs[b].zone = shouldGo.zone
          /\ y >= 2 => AKAs[b].net = shouldGo.net
      BY <2>1, <3>1, Agreements
    <3> HIDE DEF x, y
    <3>5. CASE shouldGo.domain = ""
      <4>1. MatchLevel(AKAs[i], shouldGo) = x /\ MatchLevel(AKAs[b], shouldGo) = y
        BY <2>1, <3>1, <3>5, LevelByDomain DEF x, y
      <4>2. x <= y
        BY <3>1, <4>1
      <4>3. y >= 1 /\ (x >= 2 => y >= 2)
        BY <3>2, <3>3, <4>2
      <4> QED
        BY <2>2, <3>3, <3>4, <3>5, <4>3
    <3>6. CASE shouldGo.domain # ""
      <4>1. MatchLevel(AKAs[i], shouldGo) = x + 1
        BY <2>1, <2>4, <3>1, <3>6, LevelByDomain DEF x
      <4>2. \/ /\ AKAs[b].domain = "" \/ AKAs[b].domain = shouldGo.domain
               /\ MatchLevel(AKAs[b], shouldGo) \in {y, y + 1}
            \/ MatchLevel(AKAs[b], shouldGo) = 0
        BY <2>1, <3>1, <3>6, LevelByDomain DEF y
      <4>3. MatchLevel(AKAs[b], shouldGo) >= x + 1
        BY <3>1, <4>1
      <4>4. MatchLevel(AKAs[b], shouldGo) # 0
        BY <3>2, <4>3
      <4>5. /\ AKAs[b].domain = "" \/ AKAs[b].domain = shouldGo.domain
            /\ \/ MatchLevel(AKAs[b], shouldGo) = y
               \/ MatchLevel(AKAs[b], shouldGo) = y + 1
        BY <4>2, <4>4
      <4>6. CASE MatchLevel(AKAs[b], shouldGo) = y
        <5>1. y >= x + 1
          BY <4>3, <4>6
        <5>2. y >= 1 /\ (x >= 2 => y >= 2)
          BY <3>2, <3>3, <5>1
        <5> QED
          BY <2>2, <3>3, <3>4, <4>5, <5>2
      <4>7. CASE MatchLevel(AKAs[b], shouldGo) = y + 1
        <5>1. y + 1 >= x + 1
          BY <4>3, <4>7
        <5>2. y >= 1 /\ (x >= 2 => y >= 2)
          BY <3>2, <3>3, <5>1
        <5> QED
          BY <2>2, <3>3, <3>4, <4>5, <5>2
      <4> QED
        BY <4>5, <4>6, <4>7
    <3> QED
      BY <3>5, <3>6
  <2> QED
    BY <2>4 DEF OurAkaFits
<1> QED
  BY <1>1, AnalysisInductive, PTL

\* FASTECHOPACK without ALL: bulk mail for links only.
THEOREM QqqForBulk == Spec => []QqqBulkOnly
<1>1. AnalysisInv => QqqBulkOnly
  <2> SUFFICES ASSUME AnalysisInv, step = "packed", qqq, "FASTECHOPACK ALL" \notin config
               PROVE  shouldGo \in Links /\ AllFlags \intersect {"Crash", "IMM", "DIR", "Hold"} = {}
    BY DEF QqqBulkOnly
  <2>1. info.flags = AllFlags
    BY DEF AnalysisInv, TextInv
  <2>2. shouldGo \in Links /\ attribPack = "NORMAL"
    BY DEF AnalysisInv, WaypointInv, DoQQQPack
  <2>3. PICK f \in Flavour : attribPack = FinalFlavour(f, info.flags)
    BY DEF AnalysisInv, WaypointInv
  <2>4. ~("Crash" \in AllFlags) /\ ~("Hold" \in AllFlags)
        /\ ~("DIR" \in AllFlags) /\ ~("IMM" \in AllFlags)
    BY <2>1, <2>2, <2>3 DEF FinalFlavour
  <2> QED
    BY <2>2, <2>4
<1> QED
  BY <1>1, AnalysisInductive, PTL

\* What a message says of its addresses is found in its lines in whatever order they
\* come: the last INTL, the last points, and the zone of the last MSGID.
THEOREM AddressesRead == Spec => []AddressesAsWritten
<1>1. ReadInv => AddressesAsWritten
  BY DEF ReadInv
<1> QED
  BY <1>1, ReadInductive, PTL

\* The path logged is the way of the message, however many via lines it has.
THEOREM PathRead == Spec => []PathFollowed
<1>1. ReadInv => PathFollowed
  BY DEF ReadInv
<1> QED
  BY <1>1, ReadInductive, PTL

\* The via lines logged are those since the message was last at home.
THEOREM ViasRead == Spec => []ViasLogged
<1>1. ReadInv => ViasLogged
  BY DEF ReadInv
<1> QED
  BY <1>1, ReadInductive, PTL
=============================================================================
