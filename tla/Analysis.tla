------------------------------- MODULE Analysis -------------------------------
(***************************************************************************)
(* From the text of a message to the system it is packed for:              *)
(* GetVisibleInfo (or GetVisibleInfoSquish) with ProcessLine, then         *)
(* PostAnalysis with GetSendType and DetermineRouteToSystem (netmail.cpp,  *)
(* squish.cpp), over the addresses of the node (akas.cpp).  What NoPack    *)
(* and FindPackSystem answer is left open here: RouteDecision has them.    *)
(***************************************************************************)
EXTENDS Naturals, Sequences, FiniteSets, FiniteSetsExt

CONSTANTS
  Domain,     \* names of networks; "" for none
  NoAddress,  \* no address, or text that is none
  AKAs,       \* our addresses, the main one first
  Switches,   \* configurations: each the set of keywords it has
  Links,      \* the systems PasswordHandler has a password of
  Headers,    \* headers of messages
  Kludges,    \* lines of control information
  MaxLines,   \* bound: such lines in one message
  Leftovers,  \* what a local that nobody has set may hold (see ReadVia)
  Routes      \* what FindPackSystem may answer

Address == [zone : Nat, net : Nat, node : Nat, point : Nat, domain : Domain]

Flavour == {"NORMAL", "HOLD", "CRASH", "DIR", "IMMEDIATE"}

\* The attributes that count here.  LOK is any of those cfroute does not know.
Attribute == {"Crash", "Hold", "Sent", "FRQ", "URQ", "DIR", "IMM", "FPU",
              "HUB", "ZON", "LOK"}

Header == [format : {"msg", "squish"}, orig : Address, dest : Address,
           flags : SUBSET Attribute]

Kludge ==
  [kind : {"INTL"}, dest : Address \union {NoAddress}, orig : Address \union {NoAddress}]
    \union [kind : {"TOPT", "FMPT"}, point : Nat]
    \union [kind : {"MSGID"}, zone : Nat]
    \union [kind : {"FLAGS"}, flags : SUBSET Attribute]
    \union [kind : {"ENC"}]
    \union [kind : {"Via"}, address : Address \union {NoAddress}, long : BOOLEAN]

ASSUME DataAssumption ==
  /\ "" \in Domain /\ NoAddress \notin Address
  /\ AKAs \in Seq(Address) /\ AKAs # << >>
  /\ Links \subseteq Address /\ Leftovers \subseteq Address
  /\ Headers \subseteq Header /\ Headers # {} /\ Kludges \subseteq Kludge
  /\ \A h \in Headers : h.orig.domain = "" /\ h.dest.domain = ""
  /\ MaxLines \in Nat
  /\ Routes \subseteq [system : Address, attrib : Flavour]

VARIABLES
  config,     \* the keywords of the configuration
  step,       \* the place in AnalyzeNet
  header,     \* the header of the message
  lines,      \* the control lines read so far
  info,       \* S_Visu: what is known of the message
  vias,       \* SL_Via, the via lines to be logged
  path,       \* SL_Path, the systems the message has passed
  sendType,   \* S_Control: kind of routing,
  shouldGo,   \*   waypoint,
  attribPack, \*   flavour,
  ourAKA,     \*   the address of ours in the packet's header,
  qqq         \*   and whether the packet is left to FastEcho

messageVars == << header, lines, info, vias, path >>
controlVars == << sendType, shouldGo, attribPack, ourAKA, qqq >>
vars == << config, step, messageVars, controlVars >>

Goto(from, to) == step = from /\ step' = to

-----------------------------------------------------------------------------
(* akas.cpp *)

Main == AKAs[1]

SameNode(a, b) == a.zone = b.zone /\ a.net = b.net /\ a.node = b.node

IsLocalAKA(a) ==
  \E i \in DOMAIN AKAs :
    /\ AKAs[i].domain = "" \/ a.domain = "" \/ AKAs[i].domain = a.domain
    /\ SameNode(AKAs[i], a) /\ AKAs[i].point = a.point

OurZone(zone) == \E i \in DOMAIN AKAs : AKAs[i].zone = zone

OurNet(zone, net) == \E i \in DOMAIN AKAs : AKAs[i].zone = zone /\ AKAs[i].net = net

\* The parts two addresses agree in, from the zone on.
Agreement(a, b) ==
  CASE a.zone # b.zone -> 0
    [] a.zone = b.zone /\ a.net # b.net -> 1
    [] a.zone = b.zone /\ a.net = b.net /\ a.node # b.node -> 2
    [] SameNode(a, b) /\ a.point # b.point -> 3
    [] SameNode(a, b) /\ a.point = b.point -> 4

\* GetMatchLevel: one more if the domains agree, nothing if they differ.
MatchLevel(a, b) ==
  LET known == a.domain # "" /\ b.domain # ""
  IN IF known /\ a.domain # b.domain THEN 0
     ELSE Agreement(a, b) + (IF known THEN 1 ELSE 0)

\* Mutant: the packets of every system bear the main address.
AKAMatchMain(a) == Main

\* Mutant: the search begins below the lowest level without the main address.
AKAMatchNoDefault(a) ==
  LET level(i) == MatchLevel(AKAs[i], a)
      found == {i \in DOMAIN AKAs : level(i) > 0 /\ \A j \in DOMAIN AKAs : level(j) <= level(i)}
  IN IF found = {} THEN NoAddress ELSE AKAs[CHOOSE i \in found : TRUE]

\* The first of the addresses that agree most; the main one if none does.
AKAMatch(a) ==
  LET level(i) == MatchLevel(AKAs[i], a)
  IN AKAs[CHOOSE i \in DOMAIN AKAs :
            /\ \A j \in DOMAIN AKAs : level(j) <= level(i)
            /\ \A j \in 1..(i - 1) : level(j) < level(i)]

-----------------------------------------------------------------------------
(* GetVisibleInfo: the header, then line by line *)

Init ==
  /\ config \in Switches
  /\ step = "idle"
  /\ header = CHOOSE h \in Headers : TRUE
  /\ lines = << >> /\ vias = << >> /\ path = << >>
  /\ info = [orig |-> header.orig, dest |-> header.dest, transit |-> header.dest,
             flags |-> {}, msgidZone |-> 0, encrypted |-> FALSE,
             processedHere |-> FALSE, detectedLoop |-> FALSE]
  /\ sendType = "none" /\ shouldGo = NoAddress
  /\ attribPack = "NORMAL" /\ ourAKA = NoAddress /\ qqq = FALSE

\* A .MSG header has the net and the node of an address, no zone and no point.
FromHeader(h, a) == IF h.format = "msg" THEN [a EXCEPT !.zone = 0, !.point = 0] ELSE a

\* AnalyzeNet or AnalyzeSquishNet comes to a message.
OpenMessage(h) ==
  /\ step \in {"idle", "left", "packed"} /\ step' = "text"
  /\ header' = h
  /\ lines' = << >> /\ vias' = << >> /\ path' = << >>
  /\ info' = [orig |-> FromHeader(h, h.orig), dest |-> FromHeader(h, h.dest),
              transit |-> FromHeader(h, h.dest), flags |-> h.flags,
              msgidZone |-> 0, encrypted |-> FALSE,
              processedHere |-> FALSE, detectedLoop |-> FALSE]
  /\ sendType' = "none" /\ shouldGo' = NoAddress
  /\ attribPack' = "NORMAL" /\ ourAKA' = NoAddress /\ qqq' = FALSE
  /\ UNCHANGED config

\* Mutant: INTL copies the addresses whole.
ReadIntlWhole(l) ==
  /\ l.kind = "INTL"
  /\ info' = CASE l.dest = NoAddress -> info
               [] l.dest # NoAddress /\ l.orig = NoAddress -> [info EXCEPT !.dest = l.dest]
               [] OTHER -> [info EXCEPT !.dest = l.dest, !.orig = l.orig]
  /\ UNCHANGED << vias, path >>

\* Zone, net and node of both; the second only if the first is an address.
ReadIntl(l) ==
  LET Set(a, b) == IF b = NoAddress THEN a
                   ELSE [a EXCEPT !.zone = b.zone, !.net = b.net, !.node = b.node]
  IN /\ l.kind = "INTL"
     /\ info' = IF l.dest = NoAddress THEN info
                ELSE [info EXCEPT !.dest = Set(@, l.dest), !.orig = Set(@, l.orig)]
     /\ UNCHANGED << vias, path >>

ReadPoint(l) ==
  /\ \/ l.kind = "TOPT" /\ info' = [info EXCEPT !.dest.point = l.point]
     \/ l.kind = "FMPT" /\ info' = [info EXCEPT !.orig.point = l.point]
  /\ UNCHANGED << vias, path >>

ReadMsgid(l) ==
  /\ l.kind = "MSGID"
  /\ info' = [info EXCEPT !.msgidZone = l.zone]
  /\ UNCHANGED << vias, path >>

ReadFlags(l) ==
  /\ l.kind = "FLAGS"
  /\ info' = [info EXCEPT !.flags = @ \union l.flags]
  /\ UNCHANGED << vias, path >>

ReadEnc(l) ==
  /\ l.kind = "ENC"
  /\ info' = [info EXCEPT !.encrypted = TRUE]
  /\ UNCHANGED << vias, path >>

\* The domain is left out of the names of the path.
Hop(a) == [a EXCEPT !.domain = ""]

AddHop(p, a) == IF p # << >> /\ p[Len(p)] = Hop(a) THEN p ELSE Append(p, Hop(a))

\* Mutant: the list is emptied after the line is added to it.
AddViaEarly(l, home) ==
  IF header.format = "squish" THEN vias
  ELSE IF home /\ "-V" \notin config THEN << >> ELSE Append(vias, l)

\* The list of via lines begins anew with each of ours.  Squish bases have none.
AddVia(l, home) ==
  IF header.format = "squish" THEN vias
  ELSE IF home /\ "-V" \notin config THEN << l >> ELSE Append(vias, l)

\* Mutant: any via line after one of ours is taken for a loop.
ReadViaAnyLoop(l, a) ==
  /\ l.kind = "Via" /\ l.address # NoAddress
  /\ info' = [info EXCEPT !.processedHere = @ \/ IsLocalAKA(a),
                          !.detectedLoop = @ \/ info.processedHere]
  /\ path' = IF header.format = "squish" THEN path ELSE AddHop(path, a)
  /\ vias' = AddVia(l, IsLocalAKA(a))

\* A via line with the address a: the message has been at a.
ReadVia(l, a) ==
  /\ l.kind = "Via" /\ l.address # NoAddress
  /\ info' = IF IsLocalAKA(a) THEN [info EXCEPT !.processedHere = TRUE]
             ELSE [info EXCEPT !.detectedLoop = @ \/ info.processedHere]
  /\ path' = IF header.format = "squish" THEN path ELSE AddHop(path, a)
  /\ vias' = AddVia(l, IsLocalAKA(a))

ReadViaOfNone(l) ==
  /\ l.kind = "Via" /\ l.address = NoAddress
  /\ vias' = AddVia(l, FALSE)
  /\ UNCHANGED << info, path >>

\* What GetFullQualifiedAddress leaves in FQA.  It is given the rest of the line,
\* refuses more than 79 characters, and nobody looks at its result: after a long
\* line FQA is what the stack held before.
Parsed(l) == IF l.long THEN Leftovers ELSE {l.address}

ReadLine(l) ==
  /\ step = "text" /\ Len(lines) < MaxLines
  /\ lines' = Append(lines, l)
  /\ \/ ReadIntl(l) \/ ReadPoint(l) \/ ReadMsgid(l) \/ ReadFlags(l) \/ ReadEnc(l)
     \/ ReadViaOfNone(l)
     \/ l.kind = "Via" /\ \E a \in Parsed(l) : ReadVia(l, a)
  /\ UNCHANGED << config, step, header, controlVars >>

\* The address a gated message is routed by.
Gated(dest, orig, flags) ==
  CASE "ZON" \in flags /\ ~OurZone(dest.zone) ->
         [dest EXCEPT !.net = dest.zone, !.node = orig.zone, !.point = 0]
    [] ~("ZON" \in flags /\ ~OurZone(dest.zone))
         /\ "HUB" \in flags /\ ~OurNet(dest.zone, dest.net) ->
         [dest EXCEPT !.node = 0, !.point = 0]
    [] OTHER -> dest

\* Mutant: the sender is put before the path although it begins with him.
AddOriginTwice(p, a) == << Hop(a) >> \o p

AddOrigin(p, a) == IF p # << >> /\ p[1] = Hop(a) THEN p ELSE << Hop(a) >> \o p

\* A zone nothing has told is that of the MSGID, or of our main address.
EndOfText ==
  LET Zoned(a) == [a EXCEPT !.zone = IF @ # 0 THEN @
                                     ELSE IF info.msgidZone # 0 THEN info.msgidZone
                                     ELSE Main.zone]
      dest == Zoned(info.dest)
      orig == Zoned(info.orig)
  IN /\ Goto("text", "nopack")
     /\ info' = [info EXCEPT !.dest = dest, !.orig = orig,
                             !.transit = Gated(dest, orig, info.flags)]
     /\ path' = IF header.format = "squish" THEN path ELSE AddOrigin(path, orig)
     /\ UNCHANGED << config, header, lines, vias, controlVars >>

-----------------------------------------------------------------------------
(* PostAnalysis *)

\* CRouteHandler::NoPack is asked about the destination.
AnswerNoPack ==
  /\ \/ Goto("nopack", "attributes")
     \/ Goto("nopack", "left")
  /\ UNCHANGED << config, messageVars, controlVars >>

CheckAttributes ==
  /\ Goto("attributes",
          IF "Sent" \in info.flags \/ ("LOK" \in info.flags /\ "IGNOREUNKNOWNATTRIBS" \notin config)
          THEN "left" ELSE "sendtype")
  /\ UNCHANGED << config, messageVars, controlVars >>

\* Mutant: immediate mail is routed.
DirectFlagsFew == {"Crash", "Hold", "FRQ", "URQ", "DIR", "FPU"}

DirectFlags == {"Crash", "Hold", "FRQ", "URQ", "DIR", "IMM", "FPU"}

Boss(a) == [a EXCEPT !.point = 0]

\* Mutant: points of our own are no exception.
ViaBossOurs(dest, flags) ==
  /\ dest.point # 0
  /\ \/ /\ "VIABOSSDIRECT" \in config
        /\ \/ flags \intersect {"Crash", "IMM"} # {}
           \/ "DIR" \in flags /\ flags \intersect {"FRQ", "URQ"} = {}
     \/ "VIABOSSHOLD" \in config /\ flags \intersect {"Hold", "FPU"} # {}

\* Mail for a point that goes to its boss.
ViaBoss(dest, flags) ==
  /\ dest.point # 0 /\ ~IsLocalAKA(Boss(dest))
  /\ \/ /\ "VIABOSSDIRECT" \in config
        /\ \/ flags \intersect {"Crash", "IMM"} # {}
           \/ "DIR" \in flags /\ flags \intersect {"FRQ", "URQ"} = {}
     \/ "VIABOSSHOLD" \in config /\ flags \intersect {"Hold", "FPU"} # {}

GetSendType ==
  /\ sendType' = CASE IsLocalAKA(info.dest) -> "notouch"
                   [] ~IsLocalAKA(info.dest) /\ info.flags \intersect DirectFlags = {} -> "route"
                   [] OTHER -> IF ViaBoss(info.dest, info.flags) THEN "boss" ELSE "direct"
  /\ Goto("sendtype", IF sendType' = "notouch" THEN "left" ELSE "route")
  /\ UNCHANGED << config, messageVars, shouldGo, attribPack, ourAKA, qqq >>

\* The attributes of the message go before the flavour f of its route.
FinalFlavour(f, flags) ==
  CASE {"Hold", "Crash"} \subseteq flags -> "DIR"
    [] "Hold" \in flags /\ "Crash" \notin flags -> "HOLD"
    [] "Crash" \in flags /\ "Hold" \notin flags -> "CRASH"
    [] flags \intersect {"Hold", "Crash"} = {} /\ "DIR" \in flags -> "DIR"
    [] flags \intersect {"Hold", "Crash", "DIR"} = {} /\ "IMM" \in flags -> "IMMEDIATE"
    [] OTHER -> f

GoTo(system, flavour) ==
  /\ Goto("route", "loop")
  /\ shouldGo' = system
  /\ attribPack' = FinalFlavour(flavour, info.flags)
  /\ UNCHANGED << config, messageVars, sendType, ourAKA, qqq >>

\* DetermineRouteToSystem
DetermineDirect ==
  /\ sendType = "direct" /\ GoTo(info.dest, "NORMAL")

DetermineBoss ==
  /\ sendType = "boss" /\ GoTo(Boss(info.dest), "NORMAL")

\* CRouteHandler::FindPackSystem is asked about the transit address.
DetermineRoute ==
  /\ sendType = "route"
  /\ \/ \E r \in Routes : GoTo(r.system, r.attrib)
     \/ Goto("route", "left") /\ UNCHANGED << config, messageVars, controlVars >>

\* Mutant: a loop is only logged.
LoopsLogged == FALSE

LoopStops == info.detectedLoop /\ "NOLOOPROUTE" \in config

DoQQQPack(system, flavour) ==
  \/ "FASTECHOPACK ALL" \in config
  \/ "FASTECHOPACK" \in config /\ system \in Links /\ flavour = "NORMAL"

\* The rest of PostAnalysis; with a packet to write AnalyzeNet goes on (Outbound).
Finish ==
  /\ Goto("loop", IF LoopStops THEN "left" ELSE "packed")
  /\ IF LoopStops THEN UNCHANGED << qqq, ourAKA >>
     ELSE /\ qqq' = DoQQQPack(shouldGo, attribPack)
          /\ ourAKA' = AKAMatch(shouldGo)
  /\ UNCHANGED << config, messageVars, sendType, shouldGo, attribPack >>

Next ==
  \/ \E h \in Headers : OpenMessage(h)
  \/ \E l \in Kludges : ReadLine(l)
  \/ EndOfText
  \/ AnswerNoPack \/ CheckAttributes \/ GetSendType
  \/ DetermineDirect \/ DetermineBoss \/ DetermineRoute
  \/ Finish

Spec == Init /\ [][Next]_vars

-----------------------------------------------------------------------------
(* Type invariant *)

Visu == [orig : Address, dest : Address, transit : Address,
         flags : SUBSET Attribute, msgidZone : Nat, encrypted : BOOLEAN,
         processedHere : BOOLEAN, detectedLoop : BOOLEAN]

Steps == {"idle", "text", "nopack", "attributes", "sendtype", "route", "loop",
          "left", "packed"}

\* The variables have their types, and a message that is packed has a waypoint
\* and one of our addresses (AKAMatch always finds one).
TypeOK ==
  /\ config \in Switches /\ step \in Steps
  /\ header \in Headers /\ lines \in Seq(Kludges)
  /\ info \in Visu
  /\ vias \in Seq(Kludges) /\ path \in Seq(Address)
  /\ sendType \in {"none", "notouch", "route", "direct", "boss"}
  /\ shouldGo \in Address \union {NoAddress} /\ attribPack \in Flavour
  /\ ourAKA \in Address \union {NoAddress} /\ qqq \in BOOLEAN
  /\ step = "packed" => shouldGo # NoAddress /\ ourAKA # NoAddress

-----------------------------------------------------------------------------
(* What the text of the message says, read as a whole *)

TextEnded == step \notin {"idle", "text"}

IsVia(l) == l.kind = "Via"

\* Lines short enough for their address to be understood.
Legible(text) == \A i \in DOMAIN text : IsVia(text[i]) => ~text[i].long

\* A line that says the message has been here, or elsewhere.
Home(l) == IsVia(l) /\ l.address # NoAddress /\ IsLocalAKA(l.address)

Away(l) == IsVia(l) /\ l.address # NoAddress /\ ~IsLocalAKA(l.address)

Visited(text) == \E i \in DOMAIN text : Home(text[i])

Looped(text) ==
  \E i, j \in DOMAIN text : i < j /\ Home(text[i]) /\ Away(text[j])

FlagsOf(l) == IF l.kind = "FLAGS" THEN l.flags ELSE {}

\* The attributes of the header and those of the text.
AllFlags == header.flags \union UNION {FlagsOf(lines[i]) : i \in DOMAIN lines}

\* Loops are found, and only loops, whatever else the text has between the lines:
\* "a local via line is found followed by a non-local line" (doc/HISTORY, 0.92a).
\* Lines of which nothing certain is read are left out (see Parsed).
LoopDetected == Legible(lines) /\ step # "idle" => (info.detectedLoop <=> Looped(lines))

\* The sequence s has the elements of t at the given places, in their order.
Extract(s, t, places) ==
  \E at \in [DOMAIN s -> places] :
    /\ \A i \in DOMAIN s : s[i] = t[at[i]]
    /\ \A i, j \in DOMAIN s : i < j => at[i] < at[j]
    /\ \A p \in places : \E i \in DOMAIN s : at[i] = p

\* The via lines since the last of ours, that one included; with -V all of them.
Logged(text) ==
  {i \in DOMAIN text :
     /\ IsVia(text[i])
     /\ "-V" \in config \/ ~\E j \in DOMAIN text : j > i /\ Home(text[j])}

\* "All via lines since the last time the message was processed at home" are
\* what is logged of a loop, that time included; with the switch -V all of them.
ViasLogged ==
  Legible(lines) /\ step # "idle" /\ header.format = "msg"
    => Extract(vias, lines, Logged(lines))

\* The systems of the via lines, each at the place of its line.
Way(text) ==
  [i \in {j \in DOMAIN text : IsVia(text[j]) /\ text[j].address # NoAddress} |->
     Hop(text[i].address)]

WayFrom(a, text) ==
  [i \in {0} \union DOMAIN Way(text) |-> IF i = 0 THEN a ELSE Way(text)[i]]

\* The places where a way comes to another system than at the place before.
Moves(way) ==
  {i \in DOMAIN way :
     \A j \in DOMAIN way :
       j < i /\ (\A k \in DOMAIN way : k <= j \/ k >= i) => way[j] # way[i]}

\* The path logged is the way from the sender over the systems of the via lines,
\* each named once for each time the message came there, although the sender is
\* known for certain only at the end (INTL and FMPT may come after the via lines).
PathFollowed ==
  LET way == WayFrom(info.orig, lines)
  IN Legible(lines) /\ TextEnded /\ header.format = "msg" => Extract(path, way, Moves(way))

\* The line of the given kind that counts is the last; 0 if there is none.
LastLine(P(_)) == Max({0} \union {i \in DOMAIN lines : P(lines[i])})

LastMsgid == LastLine(LAMBDA l : l.kind = "MSGID")
LastTopt == LastLine(LAMBDA l : l.kind = "TOPT")
LastFmpt == LastLine(LAMBDA l : l.kind = "FMPT")
LastIntl == LastLine(LAMBDA l : l.kind = "INTL" /\ l.dest # NoAddress)

\* An INTL line that tells both addresses.
LastFull ==
  LastLine(LAMBDA l : l.kind = "INTL" /\ l.dest # NoAddress /\ l.orig # NoAddress)

\* What the lines tell of an address: zone, net and node as known, the point of
\* the line given, else that of the header.
Told(known, point, net) ==
  [zone |-> known.zone, net |-> known.net, node |-> known.node,
   point |-> IF point # 0 THEN lines[point].point ELSE FromHeader(header, net).point,
   domain |-> ""]

DestTold ==
  Told(IF LastIntl # 0 THEN lines[LastIntl].dest ELSE FromHeader(header, header.dest),
       LastTopt, header.dest)

OrigTold ==
  Told(IF LastFull # 0 THEN lines[LastFull].orig ELSE FromHeader(header, header.orig),
       LastFmpt, header.orig)

ZoneTold == IF LastMsgid # 0 THEN lines[LastMsgid].zone ELSE 0

\* In whatever order the kludges come, the destination and the origin are those of
\* INTL, "INTL wins" over the header (doc/manual.eng, section 7), the points are
\* those of TOPT and FMPT, and a missing zone is that of MSGID, then our own.
AddressesAsWritten ==
  LET zone(z) == IF z # 0 THEN z ELSE IF ZoneTold # 0 THEN ZoneTold ELSE Main.zone
  IN TextEnded => /\ info.dest = [DestTold EXCEPT !.zone = zone(@)]
                  /\ info.orig = [OrigTold EXCEPT !.zone = zone(@)]

-----------------------------------------------------------------------------
(* Where the message goes *)

\* With NOLOOPROUTE no mail is packed "that is detected as a loop mail" (doc/
\* manual.eng, section 7), by whatever kind of routing.
LoopNotPacked ==
  step = "packed" /\ "NOLOOPROUTE" \in config /\ Legible(lines) => ~Looped(lines)

\* No mail that is not routed is packed for ourselves: neither what is addressed
\* to us nor what goes by the boss of a point ("Routing mail to ourselves does not
\* make much sense after all", doc/HISTORY, 0.95a).
NotToOurselves ==
  step = "packed" /\ sendType # "route" => ~IsLocalAKA(shouldGo)

\* "Attributes in the messages have priority over routing" (doc/manual.eng, rule
\* E), wherever in the text they are: mail that has one goes to its destination, or
\* to the boss of it if a keyword says so; and held mail is held, crash mail crash.
AttributesFirst ==
  step = "packed" =>
    /\ AllFlags \intersect {"Crash", "Hold", "FRQ", "URQ", "DIR", "IMM", "FPU"} # {} =>
         \/ shouldGo = info.dest
         \/ /\ shouldGo = Boss(info.dest)
            /\ config \intersect {"VIABOSSDIRECT", "VIABOSSHOLD"} # {}
    /\ "Hold" \in AllFlags /\ "Crash" \notin AllFlags => attribPack = "HOLD"
    /\ "Crash" \in AllFlags /\ "Hold" \notin AllFlags => attribPack = "CRASH"

\* The address in the header of a packet is one the other system expects: of its
\* network and zone if we have one there, and of its net if we have one in that.
\* ("CFR was always using the main AKA for the packet header. Fixed", doc/HISTORY.)
OurAkaFits ==
  LET there == {i \in DOMAIN AKAs : /\ AKAs[i].zone = shouldGo.zone
                                    /\ AKAs[i].domain = shouldGo.domain}
  IN step = "packed" /\ there # {} =>
       /\ ourAKA.zone = shouldGo.zone
       /\ ourAKA.domain = "" \/ shouldGo.domain = "" \/ ourAKA.domain = shouldGo.domain
       /\ (\E i \in there : AKAs[i].net = shouldGo.net) => ourAKA.net = shouldGo.net

\* FASTECHOPACK without ALL leaves to FastEcho only mail for links that "does not
\* carry any of the crash, immediate, direct or hold flags" (doc/manual.eng).
QqqBulkOnly ==
  step = "packed" /\ qqq /\ "FASTECHOPACK ALL" \notin config =>
    shouldGo \in Links /\ AllFlags \intersect {"Crash", "IMM", "DIR", "Hold"} = {}

-----------------------------------------------------------------------------
(* The inductive invariant the proofs use *)

\* S_Visu knows of the lines read so far what matters for loops and attributes.
TextInv ==
  step # "idle" =>
    /\ info.flags = AllFlags
    /\ Legible(lines) => /\ info.processedHere <=> Visited(lines)
                         /\ info.detectedLoop <=> Looped(lines)

\* The kind of routing follows from the attributes,
KindInv ==
  step \in {"route", "loop", "packed"} =>
    /\ sendType \in {"route", "direct", "boss"}
    /\ sendType = "route" => info.flags \intersect DirectFlags = {}
    /\ sendType # "route" => ~IsLocalAKA(info.dest)
    /\ sendType = "boss" => ViaBoss(info.dest, info.flags)

\* and the waypoint from the kind of routing.
WaypointInv ==
  /\ step \in {"loop", "packed"} =>
       /\ shouldGo \in Address
       /\ sendType = "direct" => shouldGo = info.dest
       /\ sendType = "boss" => shouldGo = Boss(info.dest)
       /\ \E f \in Flavour : attribPack = FinalFlavour(f, info.flags)
  /\ step = "packed" =>
       /\ ~LoopStops
       /\ ourAKA = AKAMatch(shouldGo)
       /\ qqq => DoQQQPack(shouldGo, attribPack)

AnalysisInv == TypeOK /\ TextInv /\ KindInv /\ WaypointInv

\* While the text is read, S_Visu has of the addresses what the lines so far tell,
AddressInv ==
  step = "text" => info.dest = DestTold /\ info.orig = OrigTold /\ info.msgidZone = ZoneTold

\* and the path, without the sender, goes to the system of the last via line.
PathInv ==
  LET way == Way(lines)
  IN Legible(lines) /\ step = "text" /\ header.format = "msg" =>
       /\ Extract(path, way, Moves(way))
       /\ \A i \in DOMAIN way : (\A j \in DOMAIN way : j <= i) =>
            path # << >> /\ path[Len(path)] = way[i]

ReadInv ==
  AddressInv /\ PathInv /\ AddressesAsWritten /\ PathFollowed /\ ViasLogged

-----------------------------------------------------------------------------
(* What the documents say and the program does not do *)

\* "These commands [VIABOSSHOLD and VIABOSSDIRECT] don't apply to message with
\* file request" (doc/HISTORY, 0.85a): they go to the destination.  The test for a
\* file request only guards the last alternative of a condition, that of DIR.
BossFileRequest ==
  step = "packed" /\ "FRQ" \in AllFlags => shouldGo = info.dest

\* Mail from zone 2 to zone 1 with the zonegate flag "is considered to be sent to
\* 2:2/1" (doc/manual.eng, section 7): the gate is in the zone of the sender and its
\* node number is that of the zone it is for.  The code has them the other way.
ZonegateInOwnZone ==
  TextEnded /\ "ZON" \in AllFlags /\ ~OurZone(info.dest.zone) /\ OurZone(info.orig.zone)
    => info.transit = [zone |-> info.orig.zone, net |-> info.orig.zone,
                       node |-> info.dest.zone, point |-> 0, domain |-> ""]
=============================================================================
