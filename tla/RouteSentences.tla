---------------------------- MODULE RouteSentences ----------------------------
(***************************************************************************)
(* The route file as the manual reads it, word by word beside the table    *)
(* CRouteHandler builds from the same words.  "written" is the list of the *)
(* sentences that say where mail goes, each with the meaning manual.eng    *)
(* gives its words:                                                        *)
(*   - "If there is no flavour, NORMAL is assumed."                        *)
(*   - VERB waypoint to_addresses <EXCEPT to_addresses>                    *)
(*     <FROM from_addresses <EXCEPT from_address>>: an EXCEPT before FROM   *)
(*     excludes to addresses, one after it excludes from addresses, and    *)
(*     each EXCEPT applies over the one before it.                         *)
(***************************************************************************)
EXTENDS RouteTable

VARIABLES
  written,    \* the sentences, the last of which may still lack its waypoint
  list,       \* the list the address words that follow belong to: "to" or "from"
  excluding   \* they are excluded from it

sentenceVars == << tableVars, written, list, excluding >>

SentencesInit ==
  TableInit /\ written = << >> /\ list = "to" /\ excluding = FALSE

LastWritten == written[Len(written)]

\* A sentence abandoned before its waypoint says nothing.
Begin(v) ==
  /\ SetupNewVia(v)
  /\ written' = IF written # << >> /\ ~LastWritten.inited
                THEN [written EXCEPT ![Len(written)] = NewVia(v)]
                ELSE Append(written, NewVia(v))
  /\ list' = "to" /\ excluding' = FALSE

WriteLast(s) == written' = [written EXCEPT ![Len(written)] = s]

\* The entry a word is written as, with the EXCEPTs of its own list.
WrittenEntry(w) == [EntryOf(w) EXCEPT !.reverse = excluding]

WrittenTarget(s, w) ==
  IF list = "from" THEN [s EXCEPT !.from = Append(@, WrittenEntry(w))]
                   ELSE [s EXCEPT !.to = Append(@, WrittenEntry(w))]

WriteWaypoint(w) ==
  LET s == [LastWritten EXCEPT !.inited = TRUE, !.system = Qualified(w)]
  IN /\ SetWaypoint(w)
     /\ WriteLast(IF "ASSUMEWAYPOINTS" \in switches THEN WrittenTarget(s, w) ELSE s)
     /\ UNCHANGED << list, excluding >>

WriteTarget(w) ==
  /\ AddTarget(w)
  /\ WriteLast(WrittenTarget(LastWritten, w))
  /\ UNCHANGED << list, excluding >>

WriteFrom ==
  /\ SetOnFrom
  /\ list' = "from"
  /\ excluding' = IF list = "from" THEN excluding ELSE FALSE
  /\ UNCHANGED written

WriteExcept ==
  SwitchExcept /\ excluding' = ~excluding /\ UNCHANGED << written, list >>

WriteFlavour(f) ==
  /\ SetAttrib(f)
  /\ WriteLast([LastWritten EXCEPT !.attrib = f])
  /\ UNCHANGED << list, excluding >>

WriteEncryption(e) ==
  /\ SetEncryption(e)
  /\ WriteLast(IF e = "ENC" THEN [LastWritten EXCEPT !.plain = FALSE]
                            ELSE [LastWritten EXCEPT !.encrypted = FALSE])
  /\ UNCHANGED << list, excluding >>

Elsewhere ==
  /\ \/ \E w \in Words : BadWaypoint(w)
     \/ \E s \in Switches : Switch(s)
     \/ OtherCommand
     \/ EndOfFile
  /\ UNCHANGED << written, list, excluding >>

SentencesNext ==
  \/ \E v \in Verbs : Begin(v)
  \/ \E w \in Words : WriteWaypoint(w) \/ WriteTarget(w)
  \/ WriteFrom
  \/ WriteExcept
  \/ \E f \in Flavours : WriteFlavour(f)
  \/ \E e \in Encryptions : WriteEncryption(e)
  \/ Elsewhere

SentencesSpec == SentencesInit /\ [][SentencesNext]_sentenceVars

-----------------------------------------------------------------------------
(***************************************************************************)
(* Properties                                                              *)
(***************************************************************************)
\* However sentences are abandoned, interrupted by other commands and given
\* their words in any order, the table has exactly the sentences written, with
\* their verbs, waypoints and to lists.
SentencesAsWritten ==
  /\ Len(vias) = Len(written)
  /\ \A i \in DOMAIN vias :
       /\ vias[i].inited = written[i].inited
       /\ vias[i].direct = written[i].direct
       /\ vias[i].mail = written[i].mail /\ vias[i].files = written[i].files
       /\ vias[i].system = written[i].system
       /\ vias[i].to = written[i].to

\* manual.eng: "If there is no flavour, NORMAL is assumed."  A sentence has the
\* flavour its own words give it.
FlavourAsWritten == \A i \in DOMAIN vias : vias[i].attrib = written[i].attrib

\* manual.eng: <EXCEPT to_addresses> <FROM from_addresses <EXCEPT
\* from_address>>.  The from list excludes what is excepted after FROM.
FromListAsWritten == \A i \in DOMAIN vias : vias[i].from = written[i].from

\* The inductive invariant behind SentencesAsWritten: until FROM both readings
\* of EXCEPT agree, and an unfinished via has no waypoint to pass on.
SentencesInv ==
  /\ TableInv
  /\ written \in Seq(Via)
  /\ SentencesAsWritten
  /\ \A i \in DOMAIN vias : ~vias[i].inited => vias[i].system = NoAddress
  /\ list \in {"to", "from"} /\ excluding \in BOOLEAN
  /\ onFrom <=> list = "from"
  /\ list = "to" => onExcept = excluding
=============================================================================
