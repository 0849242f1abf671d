------------------------------ MODULE RouteTable ------------------------------
(***************************************************************************)
(* Class CRouteHandler of routing.cpp while the route file is read: each   *)
(* action is one call of the configuration reader, for one word of the     *)
(* file (the InitCom* commands and ProcParRoute of handlers.cpp).          *)
(***************************************************************************)
EXTENDS RouteRules

CONSTANTS
  Verbs,        \* the verbs this configuration uses
  Words,        \* the address words it uses
  Flavours,     \* the flavours it uses
  Encryptions,  \* which of ENC and NONENC it uses
  Switches,     \* which of TOPDOWN, ASSUMEPOINTS and ASSUMEWAYPOINTS it uses
  MaxVias,      \* bound: vias of a table
  MaxEntries    \* bound: entries of a via, both lists together

ASSUME VocabularyAssumption ==
  /\ Verbs \subseteq Verb
  /\ Words \subseteq {w \in Word : Written(w)}
  /\ Flavours \subseteq Attrib
  /\ Encryptions \subseteq {"ENC", "NONENC"}
  /\ Switches \subseteq {"TOPDOWN", "ASSUMEPOINTS", "ASSUMEWAYPOINTS"}
  /\ MaxVias \in Nat /\ MaxEntries \in Nat

VARIABLES
  vias,       \* ViasArray
  onFrom,     \* OnFrom: addresses go to the from list
  onExcept,   \* OnExcept: addresses are excluded
  switches,   \* TopPriority, AssumePoints, AssumeWaypoints: those that are set
  reader      \* what the next word belongs to: "sentence", a route sentence;
              \* "outside", no route sentence; "ready", the file is read;
              \* "fatal", cfroute gave up

tableVars == << vias, onFrom, onExcept, switches, reader >>

InUse == vias[Len(vias)]

\* GetViaCount: a last via without a waypoint does not count.
GetViaCount ==
  IF vias # << >> /\ ~InUse.inited THEN Len(vias) - 1 ELSE Len(vias)

Table == SubSeq(vias, 1, GetViaCount)

-----------------------------------------------------------------------------
TableInit ==
  /\ vias = << >>
  /\ onFrom = FALSE
  /\ onExcept = FALSE
  /\ switches = {}
  /\ reader = "outside"

\* The word is a parameter of the sentence: CommandProcessor is ProcParRoute.
InSentence == reader = "sentence" /\ UNCHANGED reader

Reading == reader \in {"outside", "sentence"}

ReplaceInUse(via) == vias' = [vias EXCEPT ![Len(vias)] = via]

\* Mutant: the last via is used again although its sentence was complete.
SetupNewViaReuses(v) ==
  /\ Reading /\ reader' = "sentence"
  /\ onFrom' = FALSE /\ onExcept' = FALSE
  /\ IF vias # << >> THEN ReplaceInUse(SetStatus(InUse, v))
     ELSE MaxVias > 0 /\ vias' = Append(vias, NewVia(v))
  /\ UNCHANGED switches

\* Mutant: FROM is not reset for the next sentence.
SetupNewViaKeepsFrom(v) ==
  /\ Reading /\ reader' = "sentence"
  /\ onExcept' = FALSE
  /\ IF vias # << >> /\ ~InUse.inited
     THEN ReplaceInUse(SetStatus(InUse, v))
     ELSE Len(vias) < MaxVias /\ vias' = Append(vias, NewVia(v))
  /\ UNCHANGED << onFrom, switches >>

\* A verb.  A last via that never got its waypoint is used again as it is.
SetupNewVia(v) ==
  /\ Reading /\ reader' = "sentence"
  /\ onFrom' = FALSE
  /\ onExcept' = FALSE
  /\ IF vias # << >> /\ ~InUse.inited
     THEN ReplaceInUse(SetStatus(InUse, v))
     ELSE Len(vias) < MaxVias /\ vias' = Append(vias, NewVia(v))
  /\ UNCHANGED switches

\* The entry an address word becomes.
EntryOf(w) ==
  [node |-> w.node,
   point |-> IF "ASSUMEPOINTS" \in switches /\ ~w.dotted THEN Star ELSE w.point,
   reverse |-> onExcept]

AddNewRoutedAddress(via, w) ==
  IF onFrom THEN [via EXCEPT !.from = Append(@, EntryOf(w))]
            ELSE [via EXCEPT !.to = Append(@, EntryOf(w))]

RoomForEntry == Len(InUse.to) + Len(InUse.from) < MaxEntries

\* Mutant: the result of GetFullQualifiedAddress is not looked at.
SetWaypointUnchecked(w) ==
  /\ InSentence
  /\ ~InUse.inited
  /\ ReplaceInUse([InUse EXCEPT !.inited = TRUE, !.system = Qualified(w)])
  /\ UNCHANGED << onFrom, onExcept, switches >>

\* The first address after a routing verb is the waypoint.
SetWaypoint(w) ==
  LET via == [InUse EXCEPT !.inited = TRUE, !.system = Qualified(w)]
  IN /\ InSentence
     /\ ~InUse.inited
     /\ FullyQualified(w)
     /\ IF "ASSUMEWAYPOINTS" \in switches
        THEN RoomForEntry /\ ReplaceInUse(AddNewRoutedAddress(via, w))
        ELSE ReplaceInUse(via)
     /\ UNCHANGED << onFrom, onExcept, switches >>

\* A waypoint with a wildcard for its node ends the program.
BadWaypoint(w) ==
  /\ reader = "sentence" /\ reader' = "fatal"
  /\ ~InUse.inited
  /\ ~FullyQualified(w)
  /\ UNCHANGED << vias, onFrom, onExcept, switches >>

\* Every other address is one more entry of the list in use.
AddTarget(w) ==
  /\ InSentence
  /\ InUse.inited
  /\ RoomForEntry
  /\ ReplaceInUse(AddNewRoutedAddress(InUse, w))
  /\ UNCHANGED << onFrom, onExcept, switches >>

SetOnFrom ==
  /\ InSentence
  /\ onFrom' = TRUE
  /\ UNCHANGED << vias, onExcept, switches >>

SwitchExcept ==
  /\ InSentence
  /\ onExcept' = ~onExcept
  /\ UNCHANGED << vias, onFrom, switches >>

SetAttrib(f) ==
  /\ InSentence
  /\ ReplaceInUse([InUse EXCEPT !.attrib = f])
  /\ UNCHANGED << onFrom, onExcept, switches >>

\* Mutant: ENC and NONENC of one sentence are both obeyed.
SetEncryptionBoth(e) ==
  /\ InSentence
  /\ \/ e = "ENC" /\ ReplaceInUse([InUse EXCEPT !.plain = FALSE])
     \/ e = "NONENC" /\ ReplaceInUse([InUse EXCEPT !.encrypted = FALSE])
  /\ UNCHANGED << onFrom, onExcept, switches >>

\* ENC and NONENC take away the other kind; the second of the two is a
\* warning (EVH_NONSENSE) and changes nothing.
SetEncryption(e) ==
  /\ InSentence
  /\ \/ e = "ENC" /\ InUse.encrypted /\ ReplaceInUse([InUse EXCEPT !.plain = FALSE])
     \/ e = "NONENC" /\ InUse.plain /\ ReplaceInUse([InUse EXCEPT !.encrypted = FALSE])
  /\ UNCHANGED << onFrom, onExcept, switches >>

\* TOPDOWN, ASSUMEPOINTS and ASSUMEWAYPOINTS: commands of their own, so that
\* the words after them are no longer words of the sentence before.
Switch(s) ==
  /\ Reading /\ reader' = "outside"
  /\ switches' = switches \cup {s}
  /\ UNCHANGED << vias, onFrom, onExcept >>

\* Any other command, and the end of a line under EOLENDSCOMMAND.
OtherCommand ==
  /\ reader = "sentence" /\ reader' = "outside"
  /\ UNCHANGED << vias, onFrom, onExcept, switches >>

EndOfFile ==
  /\ Reading /\ reader' = "ready"
  /\ UNCHANGED << vias, onFrom, onExcept, switches >>

TableNext ==
  \/ \E v \in Verbs : SetupNewVia(v)
  \/ \E w \in Words : SetWaypoint(w) \/ BadWaypoint(w) \/ AddTarget(w)
  \/ SetOnFrom
  \/ SwitchExcept
  \/ \E f \in Flavours : SetAttrib(f)
  \/ \E e \in Encryptions : SetEncryption(e)
  \/ \E s \in Switches : Switch(s)
  \/ OtherCommand
  \/ EndOfFile

TableSpec == TableInit /\ [][TableNext]_tableVars

-----------------------------------------------------------------------------
(***************************************************************************)
(* Properties                                                              *)
(***************************************************************************)
\* The type invariant of CRouteHandler's state.
TypeOK ==
  /\ vias \in Seq(Via)
  /\ onFrom \in BOOLEAN
  /\ onExcept \in BOOLEAN
  /\ switches \subseteq {"TOPDOWN", "ASSUMEPOINTS", "ASSUMEWAYPOINTS"}
  /\ reader \in {"outside", "sentence", "ready", "fatal"}

\* Only the via of the sentence being read may lack its waypoint.  GetViaCount
\* leaves out at most the last via, so FindPackSystem and NoPack would take an
\* older via without a waypoint at its word and pack to an address never set.
OnlyLastIncomplete == \A i \in 1 .. Len(vias) - 1 : vias[i].inited

\* Every via the resolvers see says where its mail goes.
TableComplete ==
  \A i \in 1 .. GetViaCount :
    vias[i].direct = "Routed" => vias[i].system \in Address

\* However ENC and NONENC are combined over the words of a sentence, or left
\* behind by an abandoned one, no via ends up refusing every message.
SomeKindRouted == \A i \in DOMAIN vias : vias[i].encrypted \/ vias[i].plain

\* "The waypoint must be 4D or 5D ... and may not have wildcards." (manual.eng,
\* ROUTE-TO)
NoWildcardWaypoint ==
  [][\A w \in Words : SetWaypoint(w) => w.node # Star /\ w.point # Star]_tableVars

\* The inductive invariant behind these: a sentence being read has a via, a via
\* without a waypoint is one of a routing verb, and one with it is complete.
TableInv ==
  /\ TypeOK
  /\ OnlyLastIncomplete
  /\ SomeKindRouted
  /\ reader = "sentence" => vias # << >>
  /\ \A i \in DOMAIN vias :
       /\ ~vias[i].inited => vias[i].direct = "Routed" /\ vias[i].to = << >>
       /\ vias[i].inited /\ vias[i].direct = "Routed" => vias[i].system \in Address

\* The table the resolvers see implements the list of rules of the manual: a
\* sentence adds one rule, its words add to it, and no later word changes an
\* earlier rule.
Rules == INSTANCE RuleList WITH rules <- Table

RulesSpec == Rules!Spec
=============================================================================
