------------------------------- MODULE Addresses -------------------------------
(***************************************************************************)
(* What the address words of a route file become: our own addresses        *)
(* (MAIN, AKA; akas.cpp), the passwords (PASSWORD; password.cpp), the      *)
(* systems of PACKET2, and the waypoint and the list of a route sentence   *)
(* (handlers.cpp, CRouteHandler::Process of routing.cpp).  Each of them    *)
(* completes a short word from the address before it, in its own way.      *)
(***************************************************************************)
EXTENDS AddressWords

CONSTANTS
  Words,     \* the address words of the file
  Secrets,   \* the passwords of the file
  TooLong,   \* those of more than eight characters
  Dotted,    \* domains with a dot in their name: fidonet.org
  Systems,   \* addresses of systems mail goes to
  MaxCommands, \* bound: commands of a file
  MaxWords     \* bound: address words of a file

ASSUME AddressesAssumption ==
  /\ Words \subseteq Word
  /\ \A w \in Words : Len(w.parts) = Cardinality(w.seps) + 1 /\ w.parts # << << >> >>
  /\ Systems \subseteq Address
  /\ MaxCommands \in Nat /\ MaxWords \in Nat

VARIABLES
  command,    \* the command the next word is a parameter of
  inited,     \* AddressHandler: Inited,
  main,       \*   Main (Nobody while there is none),
  akas,       \*   and the AKAs
  via,        \* the last via: IsInited and its waypoint
  previous,   \* the address a short word is completed from: Last of the two
              \* WAHandlers, point of PasswordHandler
  lists,      \* the lists, with the words they were made of
  except,     \* Packet2Except
  assumed,    \* AssumePoints, AssumeWaypoints
  secret,     \* LastPassword; "" while currentinited is 0
  outcome,    \* "reading", "fatal", or "undefined"
  commands,   \* commands read
  count,      \* address words read
  own,        \* history: the words of our own addresses, in the order of the file
  begins      \* history: the next word of that kind has none before it

configVars == << inited, main, akas, via, previous, lists, except, assumed, secret, own, begins >>
vars == << command, configVars, outcome, commands, count >>

Kind == {"route", "packet2", "password"}

\* A word of a list.  parsed: what it was resolved to, NoPattern if it was refused.
\* pattern: the entry it has become, if any.  first, assumed: history.
Item == [word : Word, parsed : Pattern, pattern : Pattern, reverse : BOOLEAN,
         secret : Secrets \cup {""}, first : BOOLEAN, assumed : BOOLEAN]

\* One of our own addresses, and its word.  known: it was ours already.
Own == [word : Words, address : Address, known : BOOLEAN, isMain : BOOLEAN]

Init ==
  /\ command = "none"
  /\ inited = FALSE /\ main = Nobody /\ akas = << >>
  /\ via = [inited |-> TRUE, system |-> Nobody]
  /\ previous = [k \in Kind |-> NoPattern]
  /\ lists = [k \in Kind |-> << >>]
  /\ except = FALSE
  /\ assumed = {}
  /\ secret = ""
  /\ outcome = "reading" /\ commands = 0 /\ count = 0
  /\ own = << >> /\ begins = [k \in Kind |-> TRUE]

Read ==
  outcome = "reading" /\ count < MaxWords /\ count' = count + 1 /\ UNCHANGED commands

\* A command is read; its initiator changes what is not listed.  PASSWORD has a
\* mandatory parameter.
Start(c) ==
  /\ ~(command = "PASSWORD" /\ secret = "")
  /\ outcome = "reading" /\ commands < MaxCommands /\ commands' = commands + 1
  /\ command' = c
  /\ UNCHANGED << inited, main, akas, lists, own, outcome, count >>

-----------------------------------------------------------------------------
(***************************************************************************)
(* Our own addresses                                                       *)
(***************************************************************************)
StartOwn ==
  \E c \in {"MAIN", "AKA"} :
    Start(c) /\ UNCHANGED << via, previous, except, assumed, secret, begins >>

SameSystem(a, b) ==
  SamePlace(a, b) /\ (a.domain = "" \/ b.domain = "" \/ a.domain = b.domain)

Ours == << main >> \o akas

IsLocalAKA(a) == inited /\ \E i \in DOMAIN Ours : SameSystem(Ours[i], a)

\* Mutant: an address we have already is stored once more.
StoreAKAAgain(a) == akas' = Append(akas, a)

StoreAKA(a) == akas' = IF IsLocalAKA(a) THEN akas ELSE Append(akas, a)

\* Mutant: an AKA is completed from the main address.
GetFirstAKA == main

\* What an AKA is completed from; nothing while there is no main address.
GetLastAKA == IF ~inited \/ akas = << >> THEN main ELSE Last(akas)

\* own gets the word, with the address and whether that was ours already.
Noted(w, a) == own' = Append(own, [word |-> w, address |-> a, known |-> IsLocalAKA(a),
                                   isMain |-> command = "MAIN"])

\* ProcParMain: a word that is no address gets a warning, a second address is fatal.
MainWord(w) ==
  /\ Read /\ command = "MAIN"
  /\ IF QualifyUndefined(w, main)
     THEN outcome' = "undefined" /\ UNCHANGED << inited, main, own >>
     ELSE IF ~Qualifies(w, main) THEN UNCHANGED << outcome, inited, main, own >>
     ELSE IF inited THEN outcome' = "fatal" /\ UNCHANGED << inited, main, own >>
     ELSE /\ inited' = TRUE /\ main' = Qualified(w, main)
          /\ Noted(w, main') /\ UNCHANGED outcome
  /\ UNCHANGED << command, akas, via, previous, lists, except, assumed, secret, begins >>

\* ProcParAKA
AKAWord(w) ==
  /\ Read /\ command = "AKA"
  /\ IF QualifyUndefined(w, GetLastAKA)
     THEN outcome' = "undefined" /\ UNCHANGED << akas, own >>
     ELSE IF ~Qualifies(w, GetLastAKA)
     THEN outcome' = "fatal" /\ UNCHANGED << akas, own >>
     ELSE /\ StoreAKA(Qualified(w, GetLastAKA))
          /\ Noted(w, Qualified(w, GetLastAKA))
          /\ UNCHANGED outcome
  /\ UNCHANGED << command, inited, main, via, previous, lists, except, assumed, secret, begins >>

-----------------------------------------------------------------------------
(***************************************************************************)
(* Passwords                                                               *)
(***************************************************************************)
StartPassword ==
  /\ Start("PASSWORD") /\ secret' = ""
  /\ UNCHANGED << via, previous, except, assumed, begins >>

\* Mutant: the list of a password goes on where that of the last one ended.
KeepPoint == UNCHANGED previous

ResetPoint == previous' = [previous EXCEPT !["password"] = NoPattern]

\* The first parameter is the password, whatever it looks like.
Secret(s) ==
  /\ outcome = "reading" /\ command = "PASSWORD" /\ secret = ""
  /\ IF s \in TooLong
     THEN outcome' = "fatal" /\ UNCHANGED << secret, previous, begins >>
     ELSE /\ secret' = s /\ ResetPoint
          /\ begins' = [begins EXCEPT !["password"] = TRUE]
          /\ UNCHANGED outcome
  /\ UNCHANGED << command, inited, main, akas, via, lists, except, assumed, own, commands, count >>

\* A word has been resolved to p, or to NoPattern; entry is what goes on the list.
Listed(kind, w, p, entry, reverse) ==
  /\ previous' = [previous EXCEPT ![kind] = p]
  /\ begins' = [begins EXCEPT ![kind] = FALSE]
  /\ lists' = [lists EXCEPT ![kind] =
       Append(@, [word |-> w, parsed |-> p, pattern |-> entry, reverse |-> reverse,
                  secret |-> IF kind = "password" THEN secret ELSE "",
                  first |-> begins[kind],
                  assumed |-> kind = "route" /\ "points" \in assumed])]

NothingListed == UNCHANGED << previous, begins, lists >>

PasswordWord(w, junk) ==
  LET point == previous["password"]
      p == Split(w, point, junk)
  IN /\ Read /\ command = "PASSWORD" /\ secret # ""
     /\ IF Splits(w, point, junk)
        THEN Listed("password", w, p, p, w.except) /\ UNCHANGED outcome
        ELSE /\ outcome' = IF SplitUndefined(w, point, junk) THEN "undefined" ELSE "fatal"
             /\ NothingListed
     /\ UNCHANGED << command, inited, main, akas, via, except, assumed, secret, own >>

-----------------------------------------------------------------------------
(***************************************************************************)
(* PACKET2 and route sentences: C_WildAddress::ParseAddress                *)
(***************************************************************************)
\* GetTokenInfo: only a word that begins like one is an address.
IsAddress(w) == w.except \/ w.parts[1] # << >> \/ w.seps = {"."}

Parsed(w, kind, junk) ==
  IF Splits(w, previous[kind], junk) THEN Split(w, previous[kind], junk) ELSE NoPattern

StartPacket2 ==
  /\ Start("PACKET2") /\ except' = FALSE
  /\ UNCHANGED << via, previous, assumed, secret, begins >>

Packet2Except ==
  /\ outcome = "reading" /\ command = "PACKET2" /\ except' = ~except
  /\ NothingListed
  /\ UNCHANGED << command, inited, main, akas, via, assumed, secret, outcome, own, commands, count >>

\* ProcParPacket2: a word that is refused gets a warning.
Packet2Word(w, junk) ==
  LET p == Parsed(w, "packet2", junk)
  IN /\ Read /\ command = "PACKET2"
     /\ IF ~IsAddress(w) THEN NothingListed /\ UNCHANGED outcome
        ELSE IF SplitUndefined(w, previous["packet2"], junk)
        THEN outcome' = "undefined" /\ NothingListed
        ELSE Listed("packet2", w, p, p, except) /\ UNCHANGED outcome
     /\ UNCHANGED << command, inited, main, akas, via, except, assumed, secret, own >>

\* A sentence sets a via up: a new one, or one that is still without a waypoint.
StartSentence ==
  /\ Start("route")
  /\ \E direct \in BOOLEAN :
       via' = [inited |-> direct, system |-> Nobody]
  /\ previous' = [previous EXCEPT !["route"] = NoPattern]
  /\ begins' = [begins EXCEPT !["route"] = TRUE]
  /\ UNCHANGED << except, assumed, secret >>

\* ASSUMEPOINTS and ASSUMEWAYPOINTS end the command before them.
Assume ==
  /\ Start("none")
  /\ \E a \in {"points", "waypoints"} : assumed' = assumed \cup {a}
  /\ UNCHANGED << via, previous, except, secret, begins >>

\* ASSUMEPOINTS changes the entry, not the address the next word is completed from.
\* The dot that tells whether a word has a point is looked for in its domain, too.
Assumed(w, p) ==
  IF p # NoPattern /\ "points" \in assumed /\ "." \notin w.seps /\ w.domain \notin Dotted
  THEN [p EXCEPT !.point = Star] ELSE p

\* The first address of a ROUTE sentence.
Waypoint(w, junk) ==
  LET p == Parsed(w, "route", junk)
  IN /\ Read /\ command = "route" /\ ~via.inited /\ IsAddress(w)
     /\ IF Qualifies(w, Nobody)
        THEN /\ via' = [inited |-> TRUE, system |-> Qualified(w, Nobody)]
             /\ Listed("route", w, p,
                       IF "waypoints" \in assumed THEN Assumed(w, p) ELSE NoPattern, FALSE)
             /\ UNCHANGED outcome
        ELSE /\ outcome' = IF QualifyUndefined(w, Nobody) THEN "undefined" ELSE "fatal"
             /\ NothingListed /\ UNCHANGED via
     /\ UNCHANGED << command, inited, main, akas, except, assumed, secret, own >>

\* The next ones.  Reverse is OnExcept of RouteTable.
RouteWord(w, junk) ==
  LET p == Parsed(w, "route", junk)
  IN /\ Read /\ command = "route" /\ via.inited /\ IsAddress(w)
     /\ IF SplitUndefined(w, previous["route"], junk)
        THEN outcome' = "undefined" /\ NothingListed
        ELSE Listed("route", w, p, Assumed(w, p), FALSE) /\ UNCHANGED outcome
     /\ UNCHANGED << command, inited, main, akas, via, except, assumed, secret, own >>

Next ==
  \/ StartOwn \/ StartPassword \/ StartPacket2 \/ StartSentence \/ Assume \/ Packet2Except
  \/ \E w \in Words : MainWord(w) \/ AKAWord(w)
  \/ \E s \in Secrets : Secret(s)
  \/ \E w \in Words, junk \in BOOLEAN :
       PasswordWord(w, junk) \/ Packet2Word(w, junk) \/ Waypoint(w, junk) \/ RouteWord(w, junk)

Spec == Init /\ [][Next]_vars

-----------------------------------------------------------------------------
(***************************************************************************)
(* Properties                                                              *)
(***************************************************************************)
\* The type invariant.  Every pattern is complete: no part of it is empty.
AddressesTypeOK ==
  /\ outcome \in {"reading", "fatal", "undefined"}
  /\ main \in Address /\ \A i \in DOMAIN akas : akas[i] \in Address
  /\ \A k \in Kind : \A i \in DOMAIN lists[k] :
       LET p == lists[k][i].parsed
       IN p # NoPattern => \A part \in DOMAIN p : p[part] # << >> /\ Range(p[part]) \subseteq Range(Digits) \cup Wild

\* "CFR will get the missing parts from the previous AKA or from the main
\* address" (manual.eng, AKA): none of our addresses is there twice, so LOCAL and
\* its kin do not repeat one.  IsLocalAKA knows no address before MAIN, so AKAs
\* in front of it are stored as they come.
OwnOnce ==
  (own # << >> /\ own[1].isMain) =>
    \A i, j \in DOMAIN Ours : i < j => ~SameSystem(Ours[i], Ours[j])

\* A word of numbers as cfroute would print them.
Plain(w) ==
  /\ ~w.except
  /\ \A i \in DOMAIN w.parts :
       /\ w.parts[i] # << >> /\ ~HasWildcards(w.parts[i])
       /\ Decimal[Value(w.parts[i])] = w.parts[i]

Printed(a) == [zone |-> Decimal[a.zone], net |-> Decimal[a.net],
               node |-> Decimal[a.node], point |-> Decimal[a.point]]

\* The address of ours a word is to be completed from: the AKA before it, or else
\* the main address.
PriorOf(i) ==
  LET earlier == {j \in 1 .. i - 1 : ~own[j].isMain}
  IN IF earlier # {} THEN Max(earlier) ELSE Max({0} \cup {j \in 1 .. i - 1 : own[j].isMain})

\* Our own addresses are what they would be on a list, each completed from the one
\* before it.  "2:70" is no such word: as an address of ours it is node 70 of our
\* net, on a list net 70.  And an AKA after one that we had already is completed
\* from another: GetLastAKA is the last one stored.
OwnReadings ==
  \A i \in DOMAIN own :
    LET w == own[i].word
        j == PriorOf(i)
        before == IF j = 0 THEN NoPattern ELSE Printed(own[j].address)
    IN Plain(w) /\ w.seps \notin {{":"}, {":", "."}} /\ (j > 0 => ~own[j].known)
         => /\ Splits(w, before, FALSE)
            /\ Split(w, before, FALSE) = Printed(own[i].address)

\* A waypoint is the system its word means on the list of its own sentence (where
\* ASSUMEWAYPOINTS puts it).
WaypointReadings ==
  \A i \in DOMAIN lists["route"] :
    LET item == lists["route"][i]
        latest == item.first /\ \A j \in DOMAIN lists["route"] :
                                  lists["route"][j].first => j <= i
    IN via.system # Nobody /\ latest /\ Plain(item.word)
         => item.parsed = Printed(via.system)

\* The two parsers of basic.cpp agree on a plain word.
ReadingsAgree == OwnReadings /\ WaypointReadings

-----------------------------------------------------------------------------
BeforeOf(k, i) ==
  IF i = 1 \/ lists[k][i].first THEN NoPattern ELSE lists[k][i - 1].parsed

\* A word with something in every part, and wildcards only where all readings
\* agree: "*.5" is point 5 of the node before, not of every node; "3*4" alone has
\* every point, "341/3*4" only the boss, "341/*4" again every point.  See
\* PointsAssumed for the domain.
Proper(w) ==
  /\ \A i \in DOMAIN w.parts : w.parts[i] # << >>
  /\ w.domain \notin Dotted
  /\ w.seps = {"."} => ~StartsWith("*", NodeOf(w))
  /\ w.seps = {} /\ HasWildcards(NodeOf(w)) =>
       StartsWith("*", NodeOf(w)) \/ EndsWild(NodeOf(w))
  /\ w.seps \in {{"/"}, {":", "/"}} /\ StartsWith("*", NodeOf(w)) => EndsWild(NodeOf(w))

\* What a word means of an address: the parts it has must fit; the first ones it
\* leaves out are those of the word before; without a point it means the boss, or
\* all points of several nodes.
Means(item, before, a) ==
  LET w == item.word
      wholeNet == w.seps = {":"}
      every == w.seps = {} /\ StartsWith("*", NodeOf(w))
      zone == IF ":" \in w.seps THEN w.parts[1] ELSE before.zone
      net == IF wholeNet THEN w.parts[2]
             ELSE IF "/" \in w.seps THEN Before(w, "/") ELSE before.net
  IN \/ every
     \/ /\ CompareBit(a.zone, zone) /\ CompareBit(a.net, net)
        /\ wholeNet \/ CompareBit(a.node, NodeOf(w))
        /\ IF "." \in w.seps THEN CompareBit(a.point, PointOf(w))
           ELSE wholeNet \/ EndsWild(NodeOf(w)) \/ item.assumed \/ a.point = 0

\* "2:341/62 means 2:341/62.0, not 2:341/62.*", ASSUMEPOINTS, and the short words
\* of PASSWORD, PACKET2 and the sentences (manual.eng): an entry that
\* comes onto a list matches the systems its word means, completed from the word before it on the same list.
EntriesAsWritten ==
  \A k \in Kind : lists[k] # << >> =>
    LET i == Len(lists[k])
        item == lists[k][i]
    IN item.pattern # NoPattern /\ Proper(item.word) =>
         \A a \in Systems : CompareAddress(a, item.pattern) <=> Means(item, BeforeOf(k, i), a)

\* The meaning the manual gives a part with wildcards: "*" is zero or more
\* characters, "#" one, "?" zero or one.  from[c] is where what part[c] stands for
\* begins in the number.
Documented(digits, part) ==
  \E from \in [1 .. Len(part) + 1 -> 1 .. Len(digits) + 1] :
    /\ from[1] = 1 /\ from[Len(part) + 1] = Len(digits) + 1
    /\ \A c \in 1 .. Len(part) :
         CASE part[c] = "*" -> from[c + 1] >= from[c]
           [] part[c] = "?" -> from[c + 1] \in {from[c], from[c] + 1}
           [] OTHER -> from[c + 1] = from[c] + 1 /\ part[c] \in {"#", digits[from[c]]}

\* "# -> One character ... * -> Zero or more characters, 2:34* matches 2:34"
\* (manual.eng): CompareBit agrees, while there is no "?" (which it takes for a
\* "#") and "*" comes last (it looks at nothing behind one).
WildcardsAsDocumented ==
  \A k \in Kind : \A i \in DOMAIN lists[k] :
    LET part == lists[k][i].pattern.node
    IN (\A c \in DOMAIN part : part[c] # "?" /\ (part[c] = "*" => c = Len(part))) =>
         \A a \in Systems : CompareBit(a.node, part) <=> Documented(Decimal[a.node], part)

-----------------------------------------------------------------------------
(* The inductive invariant the proofs use *)

Complete(p) == p \in Pattern /\ \A part \in DOMAIN p : p[part] # << >>

\* The last AKA of the file, unless we had it already, is the last one stored.
LastStored ==
  LET others == {i \in DOMAIN own : ~own[i].isMain}
  IN IF others = {} THEN akas = << >>
     ELSE ~own[Max(others)].known =>
            akas # << >> /\ Last(akas) = own[Max(others)].address

OwnInv ==
  /\ inited \in BOOLEAN /\ main \in Address /\ akas \in Seq(Address) /\ own \in Seq(Own)
  /\ inited <=> \E i \in DOMAIN own : own[i].isMain
  /\ ~inited => main = Nobody
  /\ \A i, j \in DOMAIN own : own[i].isMain /\ own[j].isMain => i = j
  /\ \A i \in DOMAIN own : own[i].isMain => own[i].address = main
  /\ LastStored /\ OwnOnce /\ OwnReadings

\* Short words are completed from the last word of their list, or from none.
PreviousInv ==
  /\ \A k \in Kind :
       IF begins[k] THEN previous[k] = NoPattern
       ELSE lists[k] # << >> /\ previous[k] = Last(lists[k]).parsed
  /\ ~via.inited => begins["route"]
  /\ via.inited /\ begins["route"] => via.system = Nobody

ListInv ==
  /\ outcome \in {"reading", "fatal", "undefined"}
  /\ via \in [inited : BOOLEAN, system : Address]
  /\ previous \in [Kind -> Pattern] /\ begins \in [Kind -> BOOLEAN]
  /\ lists \in [Kind -> Seq(Item)]
  /\ \A k \in Kind : \A i \in DOMAIN lists[k] :
       lists[k][i].parsed # NoPattern => Complete(lists[k][i].parsed)
  /\ except \in BOOLEAN /\ secret \in Secrets \cup {""}
  /\ PreviousInv /\ EntriesAsWritten /\ WaypointReadings

-----------------------------------------------------------------------------
\* "ASSUMEPOINTS. If used, addresses without a point specification will be parsed
\* as .*" (manual.eng)
PointsAssumed ==
  \A i \in DOMAIN lists["route"] :
    LET item == lists["route"][i]
    IN item.assumed /\ "." \notin item.word.seps /\ item.pattern # NoPattern =>
         item.pattern.point = Star

\* "? -> Zero or one character. 2:34? matches 2:34" (manual.eng)
QuestionMarkAsDocumented ==
  \A k \in Kind : \A i \in DOMAIN lists[k] :
    LET part == lists[k][i].pattern.node
    IN Len(part) > 0 /\ Range(part) \subseteq Range(Digits) \cup {"?"} =>
         \A a \in Systems : CompareBit(a.node, part) <=> Documented(Decimal[a.node], part)
=============================================================================
