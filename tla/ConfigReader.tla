----------------------------- MODULE ConfigReader -----------------------------
(***************************************************************************)
(* ReadRouteFile of cfroute.cpp: how the words of a route file reach the   *)
(* handlers of handlers.cpp.  A word goes through PendingTokens, where the *)
(* words of user-defined macros are put too; INCLUDE calls ReadRouteFile   *)
(* again, with locals of its own and the same PendingTokens.               *)
(***************************************************************************)
EXTENDS Naturals, Sequences, FiniteSets

CONSTANTS
  Word,       \* words of route files
  Line,       \* lines a route file may have, as sequences of words
  Verb,       \* commands that start a route sentence
  Setting,    \* commands with a mandatory parameter: OUTBOUND, NETMAIL, LOG ...
  Switch,     \* commands without parameters: TOPDOWN, IGNOREBSY ...
  Modifier,   \* keywords that are no commands: CRASH, ENC, FROM, EXCEPT, PVT ...
  OwnMacro,   \* MYZONES, MYNETS, MYPOINTS, LOCAL
  Own,        \* what each of these gives, a word per AKA; none before MAIN
  Day,        \* words GetTokenInfo takes for days of the week
  Refused,    \* words ProcParRoute warns about
  File,       \* names of files that can be opened
  MaxLines,   \* bound: lines, of all files together
  MaxUses,    \* bound: macros used for a word before history is cut short
  MaxFiles    \* files the process can open: none of them is ever closed

VARIABLES
  frames,     \* locals of the active calls of ReadRouteFile, the innermost last
  pending,    \* PendingTokens
  macros,     \* MacroHandler: names and bodies
  onNew,      \* OnNewMacro: the next word of a definition is its name
  eolEnds,    \* EOLEndsCommand
  outcome,    \* "reading", "done", "fatal", or "undefined": a local was used unset
  lines,      \* lines read so far
  opened,     \* files opened so far
  read,       \* history: the words of the files
  ends,       \* history: where a line or a file ended, after how many words
  queued,     \* history: PendingTokens when the last word had been read
  handled,    \* history: tokens taken from it since then
  used,       \* history: macros expanded since then
  crossed     \* history: a file was included by the words of a macro

histories == << read, ends, queued, handled, used, crossed >>
readerVars == << frames, pending, macros, onNew, eolEnds, outcome, lines, opened,
                 histories >>

End == " MACROEND "
Eol == "end of line"
Eof == "end of file"

Processor == {"none", "ProcParRoute", "ProcParSetting", "ProcParDefine", "ProcParInclude"}
Initiator == {"none", "sentence", "switch", "enddefine", "eolends", "unset"}

Row == [initiator : Initiator, processor : Processor, parameters : {0, 1}]

CodeOf(i, p, n) == [initiator |-> i, processor |-> p, parameters |-> n]

Command == Verb \cup Setting \cup Switch
             \cup {"DEFINE", "ENDDEFINE", "INCLUDE", "EOLENDSCOMMAND"}

CodeTable ==
  [w \in Command \cup Modifier \cup OwnMacro |->
     IF w \in Verb THEN CodeOf("sentence", "ProcParRoute", 0)
     ELSE IF w \in Setting THEN CodeOf("none", "ProcParSetting", 1)
     ELSE IF w \in Switch THEN CodeOf("switch", "none", 0)
     ELSE CASE w = "DEFINE" -> CodeOf("none", "ProcParDefine", 1)
            [] w = "ENDDEFINE" -> CodeOf("enddefine", "none", 0)
            [] w = "INCLUDE" -> CodeOf("none", "ProcParInclude", 1)
            [] w = "EOLENDSCOMMAND" -> CodeOf("eolends", "none", 0)
            [] OTHER -> CodeOf("none", "none", 0)]

\* What every word may be: the macro end is no word of a file, and every keyword
\* has one row.
ASSUME ConfigReaderAssumption ==
  /\ Line \subseteq Seq(Word) /\ End \notin Word
  /\ Own \in [OwnMacro -> Seq(Word)]
  /\ Day \cap DOMAIN CodeTable = {} /\ OwnMacro \cap Command = {}
  /\ MaxLines \in Nat /\ MaxFiles \in Nat \ {0} /\ MaxUses \in Nat

-----------------------------------------------------------------------------
(***************************************************************************)
(* The macro table and the queue                                           *)
(***************************************************************************)
Macro == [name : Word, body : Seq(Word)]

Names == {macros[k].name : k \in DOMAIN macros}

Body(name) == (CHOOSE m \in {macros[k] : k \in DOMAIN macros} : m.name = name).body

\* Mutant: the insertion overwrites the word it goes before.
SplicedOver(body, rest) ==
  (IF rest = << >> \/ body = << >> THEN body
   ELSE << Head(rest) >> \o body \o Tail(Tail(rest))) \o << End >>

\* The body goes in from its last word to its first, each word at position 1 or,
\* in an empty list, 0; then MACROEND at the end.
Spliced(body, rest) ==
  (IF body = << >> THEN rest
   ELSE IF rest = << >>
        THEN << body[Len(body)] >> \o SubSeq(body, 1, Len(body) - 1)
        ELSE << Head(rest) >> \o body \o Tail(rest)) \o << End >>

\* Mutant: a name is not looked up before it is defined.
AddToMacrosAgain(w) ==
  IF w = "ENDDEFINE" THEN onNew' = TRUE /\ UNCHANGED macros
  ELSE IF ~onNew
  THEN /\ macros' = [macros EXCEPT ![Len(macros)].body = Append(@, w)]
       /\ UNCHANGED onNew
  ELSE macros' = Append(macros, [name |-> w, body |-> << >>]) /\ onNew' = FALSE

\* MacroHandler.Process outside of its return values.
AddToMacros(w) ==
  IF w = "ENDDEFINE" THEN onNew' = TRUE /\ UNCHANGED macros
  ELSE IF ~onNew
  THEN /\ macros' = [macros EXCEPT ![Len(macros)].body = Append(@, w)]
       /\ UNCHANGED onNew
  ELSE IF w \in Names THEN UNCHANGED << macros, onNew >>
  ELSE macros' = Append(macros, [name |-> w, body |-> << >>]) /\ onNew' = FALSE

\* Mutant: a definition does not ask for one more word.
NeedsNoExtraPar(w) == FALSE

NeedsExtraPar(w) == w # "ENDDEFINE" /\ ~(onNew /\ w \in Names)

-----------------------------------------------------------------------------
Frame ==
  [line : Seq(Word), inLine : BOOLEAN, fresh : BOOLEAN, command : Processor,
   mandatory : Nat, current : Row, stack : Seq(Word)]

\* CurrentToken is not initialised.
NewFrame ==
  [line |-> << >>, inLine |-> FALSE, fresh |-> TRUE, command |-> "none", mandatory |-> 0,
   current |-> CodeOf("unset", "none", 0), stack |-> << >>]

Top == frames[Len(frames)]

SetTop(frame) == frames' = [frames EXCEPT ![Len(frames)] = frame]

ReaderInit ==
  /\ frames = << NewFrame >>
  /\ pending = << >>
  /\ macros = << >> /\ onNew = TRUE
  /\ eolEnds = FALSE
  /\ outcome = "reading"
  /\ lines = 0 /\ opened = 1
  /\ read = << >> /\ ends = {} /\ queued = << >> /\ handled = << >> /\ used = << >>
  /\ crossed = FALSE

\* The loop over PendingTokens has ended, or has not begun in this file.
Drained == Top.fresh \/ pending = << >>

ReadLine(l) ==
  /\ outcome = "reading" /\ ~Top.inLine
  /\ lines < MaxLines /\ lines' = lines + 1
  /\ SetTop([Top EXCEPT !.line = l, !.inLine = TRUE])
  /\ UNCHANGED << pending, macros, onNew, eolEnds, outcome, opened, histories >>

NextWord ==
  /\ outcome = "reading" /\ Top.inLine /\ Drained /\ Top.line # << >>
  /\ pending' = Append(pending, Head(Top.line))
  /\ SetTop([Top EXCEPT !.line = Tail(@), !.fresh = FALSE])
  /\ read' = Append(read, Head(Top.line))
  /\ queued' = pending' /\ handled' = << >> /\ used' = << >>
  /\ UNCHANGED << macros, onNew, eolEnds, outcome, lines, opened, ends, crossed >>

\* Mutant: the command of a line goes on when the line has ended.
LineGoesOn(frame) == [frame EXCEPT !.inLine = FALSE]

LineEnded(frame) ==
  [frame EXCEPT !.inLine = FALSE,
                !.command = IF eolEnds THEN "none" ELSE @,
                !.mandatory = IF eolEnds THEN 0 ELSE @]

EndOfLine ==
  /\ outcome = "reading" /\ Top.inLine /\ Drained /\ Top.line = << >>
  /\ onNew' = (onNew \/ eolEnds)
  /\ SetTop(LineEnded(Top))
  /\ ends' = ends \cup {<< Len(read), Eol >>}
  /\ UNCHANGED << pending, macros, eolEnds, outcome, lines, opened,
                  read, queued, handled, used, crossed >>

LessOne(n) == IF n > 0 THEN n - 1 ELSE 0

\* ReadRouteFile returns to the handler of INCLUDE, or to ProcessArguments.
EndOfFile ==
  /\ outcome = "reading" /\ ~Top.inLine
  /\ IF Len(frames) = 1
     THEN outcome' = "done" /\ UNCHANGED << frames, ends >>
     ELSE LET outer == SubSeq(frames, 1, Len(frames) - 1)
          IN /\ frames' = [outer EXCEPT ![Len(outer)].mandatory = LessOne(@)]
             /\ ends' = ends \cup {<< Len(read), Eof >>}
             /\ UNCHANGED outcome
  /\ UNCHANGED << pending, macros, onNew, eolEnds, lines, opened,
                  read, queued, handled, used, crossed >>

-----------------------------------------------------------------------------
(***************************************************************************)
(* One token of PendingTokens                                              *)
(***************************************************************************)
Token == Head(pending)

Working == outcome = "reading" /\ Top.inLine /\ ~Drained

Recorded(history, x) == IF Len(used) < MaxUses THEN Append(history, x) ELSE history

Take ==
  /\ Working
  /\ pending' = Tail(pending)
  /\ handled' = Recorded(handled, Token)
  /\ UNCHANGED << lines, read, ends, queued >>

\* No mandatory parameter is due: the token is looked up.
LookedUp == Token # End /\ Top.mandatory = 0

\* What GetTokenInfo leaves in CurrentToken: only a keyword has a row.
Current ==
  IF LookedUp /\ Token \in DOMAIN CodeTable THEN CodeTable[Token] ELSE Top.current

\* Mutant: the macro that has ended is not taken off the stack.
KeepLast(stack) == stack

RemoveLast(stack) == IF stack = << >> THEN stack ELSE SubSeq(stack, 1, Len(stack) - 1)

MacroEnd ==
  /\ Take /\ Token = End
  /\ SetTop([Top EXCEPT !.stack = RemoveLast(@)])
  /\ UNCHANGED << macros, onNew, eolEnds, outcome, opened, used, crossed >>

Fatal == outcome' = "fatal" /\ UNCHANGED << frames, macros, onNew, eolEnds >>

\* A command, and its initiator.
StartCommand(row) ==
  /\ SetTop([Top EXCEPT !.command = row.processor, !.mandatory = row.parameters,
                        !.current = row])
  /\ eolEnds' = (eolEnds \/ row.initiator = "eolends")
  /\ outcome' = CASE row.initiator = "enddefine" -> "fatal"
                  [] row.initiator = "unset" -> "undefined"
                  [] OTHER -> outcome
  /\ UNCHANGED << macros, onNew, opened, used, crossed >>

DoCommand == Take /\ LookedUp /\ Token \in Command /\ StartCommand(CodeTable[Token])

\* A day of the week has the group of a command and the row of the keyword
\* before it.
DoDay == Take /\ LookedUp /\ Token \in Day /\ StartCommand(Top.current)

\* ProcessMacro: what is not plain success for one of the words is fatal.
DoOwnMacro ==
  /\ Take /\ LookedUp /\ Token \in OwnMacro
  /\ \/ /\ \/ Own[Token] = << >>
           \/ Top.command \in {"none", "ProcParSetting"}
           \/ /\ Top.command = "ProcParRoute"
              /\ \A i \in DOMAIN Own[Token] : Own[Token][i] \notin Refused
        /\ SetTop([Top EXCEPT !.current = Current])
        /\ UNCHANGED << macros, onNew, eolEnds, outcome >>
     \/ /\ Own[Token] # << >>
        /\ \/ Top.command \in {"ProcParDefine", "ProcParInclude"}
           \/ /\ Top.command = "ProcParRoute"
              /\ \E i \in DOMAIN Own[Token] : Own[Token][i] \in Refused
        /\ Fatal
  /\ UNCHANGED << opened, used, crossed >>

IsMacro == LookedUp /\ Token \notin Command \cup OwnMacro \cup Day /\ Token \in Names

\* Mutant: the stack of macros is not looked at.
ExpandingUnseen(name) == FALSE

Expanding(name) == \E k \in DOMAIN Top.stack : Top.stack[k] = name

Expand ==
  /\ Working /\ IsMacro /\ ~Expanding(Token)
  /\ pending' = Spliced(Body(Token), Tail(pending))
  /\ handled' = Recorded(handled, Token)
  /\ used' = Recorded(used, [name |-> Token, body |-> Body(Token)])
  /\ SetTop([Top EXCEPT !.current = Current, !.stack = Append(@, Token)])
  /\ UNCHANGED << macros, onNew, eolEnds, outcome, lines, opened,
                  read, ends, queued, crossed >>

Circular == Take /\ IsMacro /\ Expanding(Token) /\ Fatal /\ UNCHANGED << opened, used, crossed >>

\* A parameter, mandatory or not.
IsParameter ==
  /\ Token # End
  /\ Top.mandatory > 0 \/ Token \notin Command \cup OwnMacro \cup Day \cup Names

ParameterDone(extra) ==
  SetTop([Top EXCEPT !.current = Current, !.mandatory = LessOne(@ + extra)])

\* Nobody's parameter, or one ProcParRoute or the handler of a setting takes.
PlainParameter ==
  /\ Take /\ IsParameter
  /\ Top.command \in {"none", "ProcParRoute", "ProcParSetting"}
  /\ ParameterDone(0)
  /\ UNCHANGED << macros, onNew, eolEnds, outcome, opened, used, crossed >>

Define ==
  /\ Take /\ IsParameter /\ Top.command = "ProcParDefine"
  /\ AddToMacros(Token)
  /\ ParameterDone(IF NeedsExtraPar(Token) THEN 1 ELSE 0)
  /\ UNCHANGED << eolEnds, outcome, opened, used, crossed >>

Include ==
  /\ Take /\ IsParameter /\ Top.command = "ProcParInclude"
  /\ IF Token \in File /\ opened < MaxFiles
     THEN /\ opened' = opened + 1
          /\ frames' = Append([frames EXCEPT ![Len(frames)].current = Current], NewFrame)
          /\ UNCHANGED << macros, onNew, eolEnds, outcome >>
     ELSE Fatal /\ UNCHANGED opened
  /\ crossed' = (crossed \/ Top.stack # << >>)
  /\ UNCHANGED used

ReadRouteFile ==
  \/ NextWord \/ EndOfLine \/ EndOfFile
  \/ MacroEnd \/ DoCommand \/ DoDay \/ DoOwnMacro \/ Expand \/ Circular
  \/ PlainParameter \/ Define \/ Include

ReaderNext == (\E l \in Line : ReadLine(l)) \/ ReadRouteFile

ReaderSpec == ReaderInit /\ [][ReaderNext]_readerVars

\* Nothing keeps ReadRouteFile waiting.
FairReaderSpec == ReaderSpec /\ WF_readerVars(ReaderNext)

-----------------------------------------------------------------------------
(***************************************************************************)
(* Properties                                                              *)
(***************************************************************************)
\* The type invariant.  Macro ends are in the queue only, no two macros have the
\* same name, and there is a macro to add words to when one is being defined.
ReaderTypeOK ==
  /\ frames \in Seq(Frame) /\ frames # << >>
  /\ pending \in Seq(Word \cup {End})
  /\ macros \in Seq(Macro)
  /\ onNew \in BOOLEAN /\ eolEnds \in BOOLEAN /\ crossed \in BOOLEAN
  /\ outcome \in {"reading", "done", "fatal", "undefined"}
  /\ lines \in 0 .. MaxLines /\ opened \in 1 .. MaxFiles
  /\ \A i, j \in DOMAIN macros : macros[i].name = macros[j].name => i = j
  /\ onNew \/ macros # << >>

Places(s, w) == {i \in DOMAIN s : s[i] = w}

Count(s, w) == Cardinality(Places(s, w))

Words(s) == {s[i] : i \in DOMAIN s}

\* The places a word has in the bodies of the macros used.
PlacesUsed(w) == UNION {{<< k, i >> : i \in Places(used[k].body, w)} : k \in DOMAIN used}

\* Each word of a macro, however macros are nested, and each word queued with it
\* is handled exactly once.
NothingLost ==
  Len(used) < MaxUses =>
    \A w \in Words(queued) \cup Words(handled) \cup UNION {Words(used[k].body) : k \in DOMAIN used} :
      Count(handled, w) + Count(pending, w) =
        Count(queued, w) + Cardinality(PlacesUsed(w)) + IF w = End THEN Len(used) ELSE 0

\* When the words of a macro have been worked off, the macro may be used again:
\* nothing is left of it that would make the next use a circular reference.
\* INCLUDE from within a macro breaks this: the words after it are worked off by
\* the other call of ReadRouteFile, with another stack.
MacrosReusable ==
  ~crossed /\ pending = << >> => \A k \in DOMAIN frames : frames[k].stack = << >>

\* The strengthening of MacrosReusable: MACROENDs and macros come in pairs.
Paired ==
  ~crossed =>
    /\ \A k \in 1 .. Len(frames) - 1 : frames[k].stack = << >>
    /\ Len(Top.stack) = Count(pending, End)

\* The word after a DEFINE names the macro.
NamedTwice ==
  \E i, j \in 1 .. Len(read) - 1 :
    /\ i < j
    /\ read[i] = "DEFINE" /\ read[j] = "DEFINE" /\ read[i + 1] = read[j + 1]

\* After ENDDEFINE a word that is no command still goes to MacroHandler, and
\* names a new macro.
StrayAfterDefine ==
  \E i \in 1 .. Len(read) - 1 : read[i] = "ENDDEFINE" /\ read[i + 1] \notin Command

\* A file ends within a definition, which goes on in the next one.
CutShort ==
  \E i \in DOMAIN read, e \in ends :
    /\ read[i] = "DEFINE" /\ e[2] = Eof /\ i <= e[1]
    /\ \A k \in i + 1 .. e[1] : read[k] # "ENDDEFINE"

\* Where a line ends a definition, a day of the week after it is a DEFINE again.
DayAfterLine == eolEnds /\ \E i \in DOMAIN read : read[i] \in Day

\* Macro k is what stands after the DEFINE at place i.
DefinedAt(k, i) ==
  LET last == i + 1 + Len(macros[k].body)
  IN /\ read[i] = "DEFINE" /\ last <= Len(read)
     /\ read[i + 1] = macros[k].name
     /\ \A m \in DOMAIN macros[k].body : read[i + 1 + m] = macros[k].body[m]
     /\ \/ k = Len(macros) /\ ~onNew
        \/ last < Len(read) /\ read[last + 1] = "ENDDEFINE"
        \/ eolEnds /\ << last, Eol >> \in ends

\* "Syntax: DEFINE macroname [anything] ENDDEFINE" (HISTORY, 0.83a): a macro has
\* the words the file gives it, up to ENDDEFINE, or to the end of the line under
\* EOLENDSCOMMAND.  That goes wrong when a name is defined a second time (the
\* rest of the definition is executed), with words after ENDDEFINE, when a file
\* ends too early, with days of the week, when a macro defines macros, and when
\* it includes a file whose words mix with its own.
MacrosAsWritten ==
  /\ ~(NamedTwice \/ StrayAfterDefine \/ CutShort \/ DayAfterLine \/ crossed)
  /\ \A k \in DOMAIN macros : "DEFINE" \notin Words(macros[k].body)
  => \A k \in DOMAIN macros : \E i \in DOMAIN read : DefinedAt(k, i)

\* "If you are used to 'one verb one line' and prefer that end of line means end
\* of command, use the keyword EOLENDSCOMMAND" (manual.eng, section 3): a line
\* begins without a command or a parameter due from before and, but for the first
\* line of an included file, without a definition.
LineEndsCommand ==
  [][eolEnds /\ (\E l \in Line : ReadLine(l)) =>
       Top.command = "none" /\ Top.mandatory = 0 /\ (onNew \/ Top.fresh)]_readerVars

\* Macros that lead back to one another, other than a macro that names itself.
Cyclic ==
  \E loop \in SUBSET Names \ {{}} :
    \A a \in loop : \E b \in loop \ {a} : b \in Words(Body(a))

\* "circular references are not allowed ... will cause CFR to terminate
\* inmediately" (HISTORY, 0.83a): every route file is read to an end, however its
\* macros are nested, and with macros that name themselves.  That goes wrong when
\* a circle of several macros is entered from outside: the MACROEND of the outer
\* one comes first and takes the inner one off the stack.
Terminates == []~Cyclic => <>(outcome # "reading")

\* The words of a macro come in its place, in their order, as in "DEFINE
\* ROUTE_AMERICA ROUTE-TO G_PEACE NORTH_AMERICA ENDDEFINE and them ROUTE_AMERICA
\* to do the actual work" (manual.eng, DEFINE).
InPlace ==
  Len(used) = 1 /\ queued = << used[1].name >> =>
    handled \o pending = queued \o used[1].body \o << End >>

\* A circular reference is only reported of a macro that names itself, or one
\* that leads back to it.
NotCircular ==
  outcome = "fatal" /\ Len(handled) > 0 /\ handled[Len(handled)] \in Names =>
    \E m \in Names : \E i \in DOMAIN Body(m) : Body(m)[i] = handled[Len(handled)]
                       /\ \E j \in DOMAIN Body(handled[Len(handled)]) :
                            Body(handled[Len(handled)])[j] = m

\* "You can write the flavour, day of the week, etc anywhere" (manual.eng): a
\* sentence is only started by its verb.
DaysStartNothing ==
  [][Top.inLine /\ DoDay => Top'.command = Top.command]_readerVars
=============================================================================
