---------------------------- MODULE RouteDecision -----------------------------
(***************************************************************************)
(* What happens to a message that is to be routed: CRouteHandler::NoPack   *)
(* and CRouteHandler::FindPackSystem of routing.cpp, in the order in which *)
(* PostAnalysis and DetermineRouteToSystem of netmail.cpp call them, over  *)
(* the table RouteTable builds.  One step is one iteration of a loop.      *)
(* Messages one after the other may be asked for once the file is read.    *)
(***************************************************************************)
EXTENDS RouteTable

CONSTANT Messages     \* the messages in the netmail directory

ASSUME MessagesAssumption == Messages \subseteq Message /\ Messages # {}

VARIABLES
  phase,    \* "idle", or the loop: "nopack", "pack"; then "left" or "packed"
  msg,      \* the message being decided
  count,    \* vias the loop has looked at
  ignore,   \* Ignore of NoPack
  got,      \* GotAMatch of FindPackSystem
  storage,  \* ShouldGo: the system the message is to be packed for
  attrib    \* AttribPack: the flavour it is to be packed with

queryVars == << phase, msg, count, ignore, got, storage, attrib >>
vars == << tableVars, queryVars >>

-----------------------------------------------------------------------------
Init ==
  /\ TableInit
  /\ phase = "idle"
  /\ msg = CHOOSE m \in Messages : TRUE
  /\ count = 0
  /\ ignore = FALSE
  /\ got = FALSE
  /\ storage = NoAddress
  /\ attrib = "NORMAL"

ReadFile == TableNext /\ UNCHANGED queryVars

\* Mutant: the first loop starts with the second via.
AskFromOne(m) ==
  /\ reader = "ready"
  /\ phase \notin {"nopack", "pack"}
  /\ phase' = "nopack" /\ msg' = m /\ count' = 1
  /\ ignore' = FALSE /\ got' = FALSE
  /\ storage' = NoAddress /\ attrib' = "NORMAL"
  /\ UNCHANGED tableVars

\* AnalyzeNet comes to a message: PostAnalysis calls NoPack.
Ask(m) ==
  /\ reader = "ready"
  /\ phase \notin {"nopack", "pack"}
  /\ phase' = "nopack" /\ msg' = m /\ count' = 0
  /\ ignore' = FALSE /\ got' = FALSE
  /\ storage' = NoAddress /\ attrib' = "NORMAL"
  /\ UNCHANGED tableVars

\* Mutant: a NOPACK rule cannot be overruled.
NoPackStepSticky ==
  /\ phase = "nopack" /\ count < GetViaCount
  /\ count' = count + 1
  /\ ignore' = IF /\ DoesMatch(vias[count + 1], msg.dest, msg)
                  /\ vias[count + 1].direct = "NoPack"
               THEN TRUE ELSE ignore
  /\ UNCHANGED << tableVars, phase, msg, got, storage, attrib >>

NoPackStep ==
  /\ phase = "nopack" /\ count < GetViaCount
  /\ count' = count + 1
  /\ ignore' = IF DoesMatch(vias[count + 1], msg.dest, msg)
               THEN vias[count + 1].direct = "NoPack" ELSE ignore
  /\ UNCHANGED << tableVars, phase, msg, got, storage, attrib >>

NoPackReturn ==
  /\ phase = "nopack" /\ count = GetViaCount
  /\ phase' = IF ignore THEN "left" ELSE "pack"
  /\ count' = 0
  /\ UNCHANGED << tableVars, msg, ignore, got, storage, attrib >>

\* Mutant: TOPDOWN does not end the loop.
PackMatchGoesOn(via) ==
  /\ DoesMatch(via, msg.transit, msg)
  /\ got' = (via.direct # "NoPack")
  /\ storage' = IF via.direct = "NoPack" THEN storage
                ELSE PackSystem(via, msg.transit)
  /\ attrib' = via.attrib
  /\ UNCHANGED phase

\* A via that matches writes over what an earlier one left; NOPACK forgets
\* the match but leaves the system, and TOPDOWN returns at the first match.
PackMatch(via) ==
  /\ DoesMatch(via, msg.transit, msg)
  /\ got' = (via.direct # "NoPack")
  /\ storage' = IF via.direct = "NoPack" THEN storage
                ELSE PackSystem(via, msg.transit)
  /\ attrib' = via.attrib
  /\ phase' = IF got' /\ "TOPDOWN" \in switches THEN "packed" ELSE phase

PackNoMatch(via) ==
  /\ ~DoesMatch(via, msg.transit, msg)
  /\ UNCHANGED << phase, got, storage, attrib >>

PackStep ==
  /\ phase = "pack" /\ count < GetViaCount
  /\ count' = count + 1
  /\ PackMatch(vias[count + 1]) \/ PackNoMatch(vias[count + 1])
  /\ UNCHANGED << tableVars, msg, ignore >>

PackReturn ==
  /\ phase = "pack" /\ count = GetViaCount
  /\ phase' = IF got THEN "packed" ELSE "left"
  /\ UNCHANGED << tableVars, msg, count, ignore, got, storage, attrib >>

Decide == NoPackStep \/ NoPackReturn \/ PackStep \/ PackReturn

Next == ReadFile \/ (\E m \in Messages : Ask(m)) \/ Decide

Spec == Init /\ [][Next]_vars

-----------------------------------------------------------------------------
(***************************************************************************)
(* The rules that apply to a message                                       *)
(***************************************************************************)
Matching(to, n) == {i \in 1 .. n : DoesMatch(vias[i], to, msg)}

IsLastOf(i, S) == i \in S /\ \A j \in S : j <= i

IsFirstOf(i, S) == i \in S /\ \A j \in S : i <= j

\* Rule i has said what is done with the message.
DecidedBy(i) ==
  IF vias[i].direct = "NoPack" THEN phase = "left"
  ELSE /\ phase = "packed"
       /\ storage = PackSystem(vias[i], msg.transit)
       /\ attrib = vias[i].attrib

NoPackLast(to, n) ==
  \E i \in 1 .. n : IsLastOf(i, Matching(to, n)) /\ vias[i].direct = "NoPack"

TopDown == "TOPDOWN" \in switches

Decided == phase \in {"left", "packed"}

-----------------------------------------------------------------------------
(***************************************************************************)
(* Properties                                                              *)
(***************************************************************************)
\* Types of the locals of the two loops.
QueryTypeOK ==
  /\ phase \in {"idle", "nopack", "pack", "left", "packed"}
  /\ msg \in Message
  /\ count \in 0 .. GetViaCount
  /\ ignore \in BOOLEAN
  /\ got \in BOOLEAN
  /\ storage \in Address \cup {NoAddress}
  /\ attrib \in Attrib

\* Without TOPDOWN a message is packed for the system, and with the flavour, of
\* the last rule of the file that matches the address it is routed by, and it
\* stays exactly if there is no such rule, or NOPACK has the last word on its
\* destination (the first loop) or on that address (the second): whatever the
\* rules before have left in the locals of the two loops.
LastRuleDecides ==
  Decided /\ ~TopDown =>
    LET S == Matching(msg.transit, GetViaCount)
    IN IF \/ S = {}
          \/ NoPackLast(msg.dest, GetViaCount)
          \/ NoPackLast(msg.transit, GetViaCount)
       THEN phase = "left"
       ELSE \A i \in S : IsLastOf(i, S) => DecidedBy(i)

\* With TOPDOWN and no NOPACK rule in the file, the first rule that matches
\* decides.
FirstRuleDecides ==
  (/\ Decided /\ TopDown
   /\ \A i \in 1 .. GetViaCount : vias[i].direct # "NoPack") =>
    LET S == Matching(msg.transit, GetViaCount)
    IN /\ S = {} => phase = "left"
       /\ \A i \in S : IsFirstOf(i, S) => DecidedBy(i)

\* "If you use Squish, you may prefer that the first route is used instead.
\* Use the keyword TOPDOWN." (manual.eng, rule C): the first rule that matches
\* decides, NOPACK rules, which are route verbs like the others, included.
TopDownFirstRule ==
  Decided /\ TopDown /\ msg.dest = msg.transit =>
    LET S == Matching(msg.dest, GetViaCount)
    IN \A i \in S : IsFirstOf(i, S) => DecidedBy(i)

\* A message that is packed goes to a system that was named: a waypoint of the
\* file, the destination, or the node the destination is a point of.  It is
\* never the address a match of an earlier rule, or nothing, has left.
PackedSomewhere ==
  phase = "packed" =>
    /\ storage \in Address
    /\ \E i \in 1 .. GetViaCount :
         /\ vias[i].direct # "NoPack"
         /\ DoesMatch(vias[i], msg.transit, msg)
         /\ storage = PackSystem(vias[i], msg.transit)
         /\ attrib = vias[i].attrib

-----------------------------------------------------------------------------
(***************************************************************************)
(* The inductive invariant behind these: what the loops know of the vias   *)
(* they have looked at, the first "count" of the table.                    *)
(***************************************************************************)
NoNoPack == \A i \in 1 .. GetViaCount : vias[i].direct # "NoPack"

\* The last match decides what the locals of FindPackSystem hold.
PackSoFar ==
  LET S == Matching(msg.transit, count)
  IN /\ got => \E i \in S :
                 /\ IsLastOf(i, S) /\ vias[i].direct # "NoPack"
                 /\ storage = PackSystem(vias[i], msg.transit)
                 /\ attrib = vias[i].attrib
     /\ ~got => \A i \in S : IsLastOf(i, S) => vias[i].direct = "NoPack"

\* The first match ends the loop.
FirstSoFar == TopDown /\ NoNoPack => Matching(msg.transit, count) = {}

DecisionInv ==
  /\ TableInv
  /\ QueryTypeOK
  /\ phase = "idle" => count = 0
  /\ phase # "idle" => reader = "ready"
  /\ phase = "nopack" => ~got /\ (ignore <=> NoPackLast(msg.dest, count))
  /\ phase \in {"pack", "packed"} =>
       PackSoFar /\ ~NoPackLast(msg.dest, GetViaCount)
  /\ phase = "pack" => FirstSoFar /\ (TopDown => ~got)
  /\ phase = "packed" =>
       /\ got
       /\ ~TopDown => count = GetViaCount
       /\ TopDown => count \in Matching(msg.transit, count)
       /\ TopDown /\ NoNoPack => Matching(msg.transit, count - 1) = {}
  /\ phase = "left" =>
       \/ NoPackLast(msg.dest, GetViaCount)
       \/ count = GetViaCount /\ ~got /\ PackSoFar /\ FirstSoFar
=============================================================================
