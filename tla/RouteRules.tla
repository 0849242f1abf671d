------------------------------ MODULE RouteRules ------------------------------
(***************************************************************************)
(* The data of cfroute's routing table: addresses, the address words of a  *)
(* route file, the vias a route sentence becomes (class CViaHandler of     *)
(* routing.cpp), and when a via applies to a message.                      *)
(*                                                                         *)
(* A FidoNet address zone:net/node.point is a pair of a node (its first    *)
(* three parts) and a point; a wildcard of a route file is the word Star,  *)
(* for every node or every point.  What the partial wildcards of the code  *)
(* match is a question of its own and plays no part in the table.          *)
(***************************************************************************)
EXTENDS Naturals, Sequences

CONSTANTS
  Node,       \* zone:net/node of every system a configuration speaks of
  Point,      \* the point numbers
  Boss,       \* point 0: the node itself
  Star,       \* the wildcard *
  NoAddress   \* the value of a waypoint that was not given

ASSUME NamesAssumption ==
  /\ Boss \in Point
  /\ Star \notin Node \cup Point
  /\ NoAddress \notin [node : Node, point : Point]

Address == [node : Node, point : Point]

\* An address word of a route file; dotted: the word spells its point out.
Word == [node : Node \cup {Star}, point : Point \cup {Star}, dotted : BOOLEAN]

\* The point a word that does not spell it out stands for: 2:341/62 is
\* 2:341/62.0, and 2:341/* is 2:341/*.*
DefaultPoint(node) == IF node = Star THEN Star ELSE Boss

Written(w) == ~w.dotted => w.point = DefaultPoint(w.node)

\* GetFullQualifiedAddress drops what is not a digit at the end of a word: a
\* wildcard for the point is no point, and only one for the node an error.
FullyQualified(w) == w.node # Star

Qualified(w) ==
  [node |-> w.node, point |-> IF w.point = Star THEN Boss ELSE w.point]

\* An entry of the to list or the from list of a via (S_WAddress).
Entry == [node : Node \cup {Star}, point : Point \cup {Star}, reverse : BOOLEAN]

-----------------------------------------------------------------------------
(***************************************************************************)
(* The four verbs (NV_* of cfroute.cpp) and what SetStatus makes of them.  *)
(***************************************************************************)
Direction == {"Routed", "Direct", "Noroute", "NoPack"}

Verb == [direct : Direction, mail : BOOLEAN, files : BOOLEAN]

Attrib == {"NORMAL", "HOLD", "CRASH", "DIR", "IMMEDIATE"}

Via == [inited : BOOLEAN, direct : Direction, mail : BOOLEAN, files : BOOLEAN,
        attrib : Attrib, encrypted : BOOLEAN, plain : BOOLEAN,
        system : Address \cup {NoAddress},
        to : Seq(Entry), from : Seq(Entry)]

\* The constructor, with the status of the verb the via is made for.
NewVia(v) ==
  [inited |-> v.direct # "Routed", direct |-> v.direct,
   mail |-> v.mail, files |-> v.files,
   attrib |-> "NORMAL", encrypted |-> TRUE, plain |-> TRUE,
   system |-> NoAddress, to |-> << >>, from |-> << >>]

\* SetStatus on a via that is there already: only the status changes.
SetStatus(via, v) ==
  [via EXCEPT !.direct = v.direct, !.mail = v.mail, !.files = v.files,
              !.inited = @ \/ v.direct # "Routed"]

-----------------------------------------------------------------------------
(***************************************************************************)
(* Messages and the vias that apply to them.                               *)
(*   dest     the destination, what the header and the kludges say         *)
(*   transit  the address the message is routed by: dest, or the gate of a *)
(*            message with the hub or the zonegate flag                    *)
(***************************************************************************)
Message == [dest : Address, transit : Address, orig : Address,
            file : BOOLEAN, encrypted : BOOLEAN]

CompareAddress(a, e) == e.node \in {a.node, Star} /\ e.point \in {a.point, Star}

\* The last entry an address matches decides, and an EXCEPTed one excludes;
\* an empty list takes every address.
OnList(a, list) ==
  \/ list = << >>
  \/ \E i \in DOMAIN list :
        /\ CompareAddress(a, list[i])
        /\ ~list[i].reverse
        /\ \A j \in DOMAIN list : j > i => ~CompareAddress(a, list[j])

\* The day of the week is not part of it: no configuration changes the
\* seven days a via is made with (see ConfigReader in the README).
DoesMatch(via, to, m) ==
  /\ IF m.file THEN via.files ELSE via.mail
  /\ IF m.encrypted THEN via.encrypted ELSE via.plain
  /\ via.to # << >> \/ via.from # << >>
  /\ OnList(to, via.to)
  /\ OnList(m.orig, via.from)

\* What GetViaSystem and FindPackSystem make of a via for a message to "to".
PackSystem(via, to) ==
  CASE via.direct = "Routed"  -> via.system
    [] via.direct = "Noroute" -> [to EXCEPT !.point = Boss]
    [] OTHER                  -> to
=============================================================================
