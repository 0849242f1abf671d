-------------------------- MODULE ConfigReaderProofs ---------------------------
(***************************************************************************)
(* Theorems about ConfigReader, for any route files and any keywords.      *)
(***************************************************************************)
EXTENDS ConfigReader, FiniteSetTheorems, SequenceTheorems, TLAPS

-----------------------------------------------------------------------------
LEMMA CodeTableType == \A w \in DOMAIN CodeTable : CodeTable[w] \in Row
<1>1. /\ CodeOf("sentence", "ProcParRoute", 0) \in Row
      /\ CodeOf("none", "ProcParSetting", 1) \in Row
      /\ CodeOf("switch", "none", 0) \in Row
      /\ CodeOf("none", "ProcParDefine", 1) \in Row
      /\ CodeOf("enddefine", "none", 0) \in Row
      /\ CodeOf("none", "ProcParInclude", 1) \in Row
      /\ CodeOf("eolends", "none", 0) \in Row
      /\ CodeOf("none", "none", 0) \in Row
      /\ CodeOf("unset", "none", 0) \in Row
  BY DEF CodeOf, Row, Initiator, Processor
<1>2. QED
  BY <1>1 DEF CodeTable

LEMMA CommandsInTable == Command \subseteq DOMAIN CodeTable
BY DEF CodeTable, Command

LEMMA NewFrameType == NewFrame \in Frame
<1>1. CodeOf("unset", "none", 0) \in Row
  BY DEF CodeOf, Row, Initiator, Processor
<1>2. << >> \in Seq(STRING)
  OBVIOUS
<1>3. QED
  BY <1>1, <1>2 DEF NewFrame, Frame, Processor

\* The innermost call, and what becomes of the calls when it goes on.
LEMMA TopType == ReaderTypeOK => Top \in Frame /\ Len(frames) \in DOMAIN frames
BY DEF ReaderTypeOK, Top

LEMMA SetTopType ==
  ASSUME ReaderTypeOK, NEW frame \in Frame, SetTop(frame)
  PROVE  /\ frames' \in Seq(Frame) /\ frames' # << >>
         /\ Len(frames') = Len(frames) /\ Top' = frame
         /\ \A k \in 1 .. (Len(frames) - 1) : frames'[k] = frames[k]
<1>1. frames \in Seq(Frame) /\ frames # << >> /\ Len(frames) \in Nat \ {0}
  BY DEF ReaderTypeOK
<1>2. frames' = [frames EXCEPT ![Len(frames)] = frame]
  BY DEF SetTop
<1>3. frames' \in Seq(Frame) /\ Len(frames') = Len(frames)
  BY <1>1, <1>2
<1>4. frames'[Len(frames)] = frame /\ \A k \in 1 .. (Len(frames) - 1) : frames'[k] = frames[k]
  BY <1>1, <1>2
<1>5. QED
  BY <1>1, <1>3, <1>4 DEF Top

LEMMA CurrentType == ReaderTypeOK => Current \in Row
<1> SUFFICES ASSUME ReaderTypeOK PROVE Current \in Row
  OBVIOUS
<1>1. Top.current \in Row
  BY TopType DEF Frame
<1>2. QED
  BY <1>1, CodeTableType DEF Current

LEMMA Replaced ==
  ASSUME NEW S, NEW s \in Seq(S), NEW k \in 1 .. Len(s), NEW x \in S
  PROVE  /\ [s EXCEPT ![k] = x] \in Seq(S) /\ Len([s EXCEPT ![k] = x]) = Len(s)
         /\ [s EXCEPT ![k] = x][k] = x
         /\ \A j \in 1 .. Len(s) : j # k => [s EXCEPT ![k] = x][j] = s[j]
OBVIOUS

\* INCLUDE: one more call, over one that has only got its CurrentToken.
LEMMA CallAdded ==
  ASSUME ReaderTypeOK,
         frames' = Append([frames EXCEPT ![Len(frames)].current = Current], NewFrame)
  PROVE  /\ frames' \in Seq(Frame) /\ Len(frames') = Len(frames) + 1 /\ Top' = NewFrame
         /\ frames'[Len(frames)] = [Top EXCEPT !.current = Current]
         /\ \A k \in 1 .. (Len(frames) - 1) : frames'[k] = frames[k]
<1> DEFINE outer == [frames EXCEPT ![Len(frames)] = [Top EXCEPT !.current = Current]]
<1>1. /\ frames \in Seq(Frame) /\ Len(frames) \in Nat \ {0} /\ Len(frames) \in 1 .. Len(frames)
      /\ Top \in Frame /\ Current \in Row
  BY TopType, CurrentType DEF ReaderTypeOK
<1>2. [Top EXCEPT !.current = Current] \in Frame
  BY <1>1 DEF Frame
<1>3. frames' = Append(outer, NewFrame)
  BY DEF Top
<1>4. /\ outer \in Seq(Frame) /\ Len(outer) = Len(frames)
      /\ outer[Len(frames)] = [Top EXCEPT !.current = Current]
      /\ \A k \in 1 .. Len(frames) : k # Len(frames) => outer[k] = frames[k]
  BY <1>1, <1>2, Replaced
<1> HIDE DEF outer
<1>5. /\ frames' \in Seq(Frame) /\ Len(frames') = Len(frames) + 1
      /\ frames'[Len(frames) + 1] = NewFrame
      /\ \A k \in 1 .. Len(frames) : frames'[k] = outer[k]
  BY <1>1, <1>3, <1>4, NewFrameType
<1>6. \A k \in 1 .. (Len(frames) - 1) : k \in 1 .. Len(frames) /\ k # Len(frames)
  BY <1>1
<1>7. Top' = NewFrame
  BY <1>5 DEF Top
<1>8. QED
  BY <1>1, <1>4, <1>5, <1>6, <1>7

\* The end of an included file: back in the call below.
LEMMA CallEnded ==
  ASSUME ReaderTypeOK, EndOfFile, Len(frames) # 1
  PROVE  /\ frames' \in Seq(Frame) /\ Len(frames') = Len(frames) - 1
         /\ Len(frames) - 1 \in 1 .. Len(frames) /\ frames[Len(frames) - 1] \in Frame
         /\ Top' = [frames[Len(frames) - 1] EXCEPT !.mandatory = LessOne(@)]
         /\ \A k \in 1 .. (Len(frames) - 2) : frames'[k] = frames[k]
<1> DEFINE outer == SubSeq(frames, 1, Len(frames) - 1)
           below == frames[Len(frames) - 1]
<1>0. frames \in Seq(Frame) /\ Len(frames) \in Nat \ {0}
  BY DEF ReaderTypeOK
<1>1. \A n \in Nat \ {0} : n # 1 => n - 1 \in 1 .. n /\ n - 1 \in Nat /\ n - 1 \in 1 .. (n - 1)
  OBVIOUS
<1>2. /\ Len(frames) - 1 \in 1 .. Len(frames) /\ Len(frames) - 1 \in Nat
      /\ Len(frames) - 1 \in 1 .. (Len(frames) - 1)
  BY <1>0, <1>1
<1>3. /\ outer \in Seq(Frame) /\ Len(outer) = Len(frames) - 1
      /\ \A k \in 1 .. (Len(frames) - 1) : outer[k] = frames[k]
  BY <1>0, <1>2
<1>4. frames' = [outer EXCEPT ![Len(outer)] = [outer[Len(outer)] EXCEPT !.mandatory = LessOne(@)]]
  BY DEF EndOfFile
<1> HIDE DEF outer
<1>5. outer[Len(outer)] = below /\ below \in Frame
  <2>1. outer[Len(outer)] = below
    BY <1>2, <1>3
  <2>2. QED
    BY <1>0, <1>2, <2>1
<1>6. [below EXCEPT !.mandatory = LessOne(@)] \in Frame
  BY <1>5 DEF Frame, LessOne
<1> HIDE DEF below
<1>7. Len(outer) \in 1 .. Len(outer)
  BY <1>2, <1>3
<1>8. frames' = [outer EXCEPT ![Len(outer)] = [below EXCEPT !.mandatory = LessOne(@)]]
  BY <1>4, <1>5
<1>9. /\ frames' \in Seq(Frame) /\ Len(frames') = Len(outer)
      /\ frames'[Len(outer)] = [below EXCEPT !.mandatory = LessOne(@)]
      /\ \A k \in 1 .. Len(outer) : k # Len(outer) => frames'[k] = outer[k]
  BY <1>3, <1>6, <1>7, <1>8, Replaced
<1>10. \A k \in 1 .. (Len(frames) - 2) :
         k \in 1 .. (Len(frames) - 1) /\ k \in 1 .. Len(outer) /\ k # Len(outer)
  BY <1>0, <1>2, <1>3
<1>11. \A k \in 1 .. (Len(frames) - 2) : frames'[k] = frames[k]
  BY <1>3, <1>9, <1>10
<1>12. Top' = [below EXCEPT !.mandatory = LessOne(@)]
  BY <1>3, <1>9 DEF Top
<1>13. QED
  BY <1>2, <1>3, <1>5, <1>9, <1>11, <1>12 DEF below

-----------------------------------------------------------------------------
(***************************************************************************)
(* The macro table                                                         *)
(***************************************************************************)
LEMMA ElementType == ASSUME NEW S, NEW s \in Seq(S), NEW i \in DOMAIN s PROVE s[i] \in S
OBVIOUS

\* The words of a macro.
LEMMA BodyType ==
  ASSUME ReaderTypeOK, NEW name \in Names
  PROVE  Body(name) \in Seq(Word)
<1>1. PICK k \in DOMAIN macros : macros[k].name = name
  BY DEF Names
<1>2. \E m \in {macros[j] : j \in DOMAIN macros} : m.name = name
  BY <1>1
<1>3. PICK j \in DOMAIN macros : Body(name) = macros[j].body
  BY <1>2 DEF Body
<1>4. macros[j] \in Macro
  BY ElementType DEF ReaderTypeOK
<1>5. QED
  BY <1>3, <1>4 DEF Macro

\* The end of a macro is the last of its tokens.
LEMMA SplicedType ==
  ASSUME NEW S, NEW body \in Seq(S), NEW rest \in Seq(S \cup {End})
  PROVE  /\ Spliced(body, rest) \in Seq(S \cup {End})
         /\ Spliced(body, rest)[Len(Spliced(body, rest))] = End
<1> DEFINE Token1 == S \cup {End}
           put == IF body = << >> THEN rest
                  ELSE IF rest = << >>
                       THEN << body[Len(body)] >> \o SubSeq(body, 1, Len(body) - 1)
                       ELSE << Head(rest) >> \o body \o Tail(rest)
<1>1. body \in Seq(Token1) /\ rest \in Seq(Token1) /\ End \in Token1
  OBVIOUS
<1>2. Spliced(body, rest) = put \o << End >>
  BY DEF Spliced
<1> HIDE DEF Token1
<1>3. ASSUME body # << >>, rest = << >> PROVE put \in Seq(Token1)
  <2>1. body[Len(body)] \in Token1 /\ SubSeq(body, 1, Len(body) - 1) \in Seq(Token1)
    BY <1>1, <1>3
  <2>2. << body[Len(body)] >> \o SubSeq(body, 1, Len(body) - 1) \in Seq(Token1)
    BY <2>1
  <2>3. QED
    BY <1>3, <2>2
<1>4. ASSUME body # << >>, rest # << >> PROVE put \in Seq(Token1)
  <2>1. Head(rest) \in Token1 /\ Tail(rest) \in Seq(Token1)
    BY <1>1, <1>4
  <2>2. << Head(rest) >> \o body \o Tail(rest) \in Seq(Token1)
    BY <1>1, <2>1
  <2>3. QED
    BY <1>4, <2>2
<1>5. put \in Seq(Token1)
  BY <1>1, <1>3, <1>4
<1>6. \A s \in Seq(Token1), x \in Token1 :
        /\ s \o << x >> \in Seq(Token1) /\ Len(s \o << x >>) = Len(s) + 1
        /\ (s \o << x >>)[Len(s) + 1] = x
  OBVIOUS
<1>7. Spliced(body, rest) \in Seq(Token1) /\ Spliced(body, rest)[Len(Spliced(body, rest))] = End
  <2> HIDE DEF put
  <2>1. /\ put \o << End >> \in Seq(Token1) /\ Len(put \o << End >>) = Len(put) + 1
        /\ (put \o << End >>)[Len(put) + 1] = End
    BY <1>1, <1>5, <1>6
  <2>2. QED
    BY <1>2, <2>1
<1>8. QED
  BY <1>7 DEF Token1

\* Adding to the macro table keeps names apart.
MacroTableOK ==
  /\ macros \in Seq(Macro)
  /\ \A i, j \in DOMAIN macros : macros[i].name = macros[j].name => i = j
  /\ onNew \/ macros # << >>

LEMMA AddToMacrosType ==
  ASSUME ReaderTypeOK, NEW w \in Word, AddToMacros(w)
  PROVE  MacroTableOK' /\ onNew' \in BOOLEAN
<1>1. /\ macros \in Seq(Macro)
      /\ \A i, j \in DOMAIN macros : macros[i].name = macros[j].name => i = j
      /\ onNew \in BOOLEAN /\ (onNew \/ macros # << >>)
  BY DEF ReaderTypeOK
<1>2. CASE w = "ENDDEFINE"
  BY <1>1, <1>2 DEF AddToMacros, MacroTableOK
<1>3. CASE w # "ENDDEFINE" /\ ~onNew
  <2>1. /\ macros' = [macros EXCEPT ![Len(macros)].body = Append(@, w)] /\ onNew' = onNew
        /\ Len(macros) \in DOMAIN macros
    BY <1>1, <1>3 DEF AddToMacros
  <2>2. macros[Len(macros)] \in Macro
    BY <1>1, <2>1
  <2>3. [macros[Len(macros)] EXCEPT !.body = Append(@, w)] \in Macro
    BY <2>2 DEF Macro
  <2>4. macros' = [macros EXCEPT ![Len(macros)] = [macros[Len(macros)] EXCEPT !.body = Append(@, w)]]
    BY <2>1
  <2>5. macros' \in Seq(Macro) /\ DOMAIN macros' = DOMAIN macros
    BY <1>1, <2>1, <2>3, <2>4
  <2>6. \A k \in DOMAIN macros : macros'[k].name = macros[k].name
    BY <1>1, <2>1
  <2>7. \A i, j \in DOMAIN macros' : macros'[i].name = macros'[j].name => i = j
    BY <1>1, <2>5, <2>6
  <2>8. macros' # << >>
    BY <1>1, <1>3, <2>1, <2>5
  <2>9. QED
    BY <1>1, <2>1, <2>5, <2>7, <2>8 DEF MacroTableOK
<1>4. CASE w # "ENDDEFINE" /\ onNew /\ w \in Names
  BY <1>1, <1>4 DEF AddToMacros, MacroTableOK
<1>5. CASE w # "ENDDEFINE" /\ onNew /\ w \notin Names
  <2> DEFINE new == [name |-> w, body |-> << >>]
  <2>1. macros' = Append(macros, new) /\ onNew' = FALSE
    BY <1>5 DEF AddToMacros
  <2>2. new \in Macro
    <3>1. << >> \in Seq(Word)
      OBVIOUS
    <3>2. QED
      BY <3>1 DEF Macro
  <2>3. macros' \in Seq(Macro) /\ Len(macros') = Len(macros) + 1
    BY <1>1, <2>1, <2>2
  <2>4. /\ DOMAIN macros = 1 .. Len(macros) /\ Len(macros) \in Nat
        /\ DOMAIN macros' = 1 .. (Len(macros) + 1)
    BY <1>1, <2>3
  <2>5. macros'[Len(macros) + 1] = new /\ \A k \in DOMAIN macros : macros'[k] = macros[k]
    BY <1>1, <2>1, <2>2, <2>4
  <2>6. \A k \in DOMAIN macros' : k \in DOMAIN macros \/ k = Len(macros) + 1
    BY <2>4
  <2>7. \A k \in DOMAIN macros : macros'[k].name # w
    BY <1>5, <2>5 DEF Names
  <2>8. \A i, j \in DOMAIN macros' : macros'[i].name = macros'[j].name => i = j
    BY <1>1, <2>5, <2>6, <2>7
  <2>9. macros' # << >>
    BY <2>3, <2>4
  <2>10. QED
    BY <2>1, <2>3, <2>8, <2>9 DEF MacroTableOK
<1>6. QED
  BY <1>1, <1>2, <1>3, <1>4, <1>5

-----------------------------------------------------------------------------
(***************************************************************************)
(* The type invariant                                                      *)
(***************************************************************************)
LEMMA ReaderTypeInit == ReaderInit => ReaderTypeOK
<1> SUFFICES ASSUME ReaderInit PROVE ReaderTypeOK
  OBVIOUS
<1>1. frames \in Seq(Frame) /\ frames # << >>
  <2>1. frames = << NewFrame >>
    BY DEF ReaderInit
  <2>2. QED
    BY <2>1, NewFrameType
<1>2. /\ pending \in Seq(Word \cup {End}) /\ macros \in Seq(Macro)
      /\ \A i, j \in DOMAIN macros : macros[i].name = macros[j].name => i = j
      /\ onNew \in BOOLEAN /\ (onNew \/ macros # << >>)
      /\ outcome \in {"reading", "done", "fatal", "undefined"}
  BY DEF ReaderInit
<1>3. eolEnds \in BOOLEAN /\ crossed \in BOOLEAN
  BY Zenon DEF ReaderInit
<1>4. lines \in 0 .. MaxLines /\ opened \in 1 .. MaxFiles
  BY ConfigReaderAssumption DEF ReaderInit
<1>5. QED
  BY <1>1, <1>2, <1>3, <1>4 DEF ReaderTypeOK

\* What taking a token leaves of the queue, and the token.
LEMMA TakeType ==
  ASSUME ReaderTypeOK, Take
  PROVE  /\ pending \in Seq(Word \cup {End}) /\ pending # << >>
         /\ pending' = Tail(pending) /\ pending' \in Seq(Word \cup {End})
         /\ Token \in Word \cup {End}
         /\ outcome = "reading" /\ Top.inLine /\ ~Top.fresh
         /\ UNCHANGED lines
<1>1. pending \in Seq(Word \cup {End}) /\ pending # << >> /\ pending' = Tail(pending)
  BY DEF Take, Working, Drained, ReaderTypeOK
<1>2. pending' \in Seq(Word \cup {End}) /\ Token \in Word \cup {End}
  <2> DEFINE S == Word \cup {End}
  <2>1. pending \in Seq(S)
    BY <1>1
  <2> HIDE DEF S
  <2>2. Tail(pending) \in Seq(S) /\ Head(pending) \in S
    BY <1>1, <2>1
  <2>3. QED
    BY <1>1, <2>2 DEF S, Token
<1>3. QED
  BY <1>1, <1>2 DEF Take, Working, Drained

\* The parts of the type invariant that most steps leave alone.
FramesOK == frames \in Seq(Frame) /\ frames # << >>

RestOK ==
  /\ MacroTableOK /\ onNew \in BOOLEAN /\ eolEnds \in BOOLEAN /\ crossed \in BOOLEAN
  /\ outcome \in {"reading", "done", "fatal", "undefined"}
  /\ lines \in 0 .. MaxLines /\ opened \in 1 .. MaxFiles

LEMMA ReaderTypeParts == ReaderTypeOK <=> FramesOK /\ RestOK /\ pending \in Seq(Word \cup {End})
BY DEF ReaderTypeOK, FramesOK, RestOK, MacroTableOK

LEMMA ReaderTypeAfter ==
  (FramesOK /\ RestOK /\ pending \in Seq(Word \cup {End}))' => ReaderTypeOK'
BY DEF ReaderTypeOK, FramesOK, RestOK, MacroTableOK

LEMMA StartCommandType ==
  ASSUME ReaderTypeOK, Take, NEW row \in Row, StartCommand(row)
  PROVE  ReaderTypeOK'
<1>1. [Top EXCEPT !.command = row.processor, !.mandatory = row.parameters, !.current = row] \in Frame
  <2>1. row.processor \in Processor /\ row.parameters \in Nat
    BY DEF Row
  <2>2. QED
    BY <2>1, TopType DEF Frame
<1>2. FramesOK'
  BY <1>1, SetTopType DEF StartCommand, FramesOK
<1>3. /\ MacroTableOK' /\ onNew' \in BOOLEAN /\ crossed' \in BOOLEAN
      /\ lines' \in 0 .. MaxLines /\ opened' \in 1 .. MaxFiles
  BY TakeType, ReaderTypeParts DEF StartCommand, RestOK, MacroTableOK
<1>4. eolEnds' \in BOOLEAN
  BY DEF StartCommand
<1>5. outcome' \in {"reading", "done", "fatal", "undefined"}
  BY TakeType DEF StartCommand
<1>6. QED
  BY <1>2, <1>3, <1>4, <1>5, TakeType, ReaderTypeAfter DEF RestOK

LEMMA ReaderTypeNext == ReaderTypeOK /\ [ReaderNext]_readerVars => ReaderTypeOK'
<1> SUFFICES ASSUME ReaderTypeOK, [ReaderNext]_readerVars PROVE ReaderTypeOK'
  OBVIOUS
<1>0. /\ FramesOK /\ RestOK /\ pending \in Seq(Word \cup {End})
      /\ Top \in Frame /\ Current \in Row
  BY ReaderTypeParts, TopType, CurrentType
<1>1. ASSUME NEW l \in Line, ReadLine(l) PROVE ReaderTypeOK'
  <2>1. l \in Seq(Word)
    BY ConfigReaderAssumption
  <2>2. [Top EXCEPT !.line = l, !.inLine = TRUE] \in Frame
    BY <1>0, <2>1 DEF Frame
  <2>3. FramesOK'
    BY <1>1, <2>2, SetTopType DEF ReadLine, FramesOK
  <2>4. lines' \in 0 .. MaxLines
    BY <1>0, <1>1, ConfigReaderAssumption DEF ReadLine, RestOK
  <2>5. RestOK'
    BY <1>0, <1>1, <2>4 DEF ReadLine, RestOK, MacroTableOK, histories
  <2>6. QED
    BY <1>0, <1>1, <2>3, <2>5, ReaderTypeAfter DEF ReadLine
<1>2. CASE NextWord
  <2>1. Top.line \in Seq(Word) /\ Top.line # << >>
    BY <1>0, <1>2 DEF NextWord, Frame
  <2>2. Head(Top.line) \in Word /\ Tail(Top.line) \in Seq(Word)
    BY <2>1
  <2>3. [Top EXCEPT !.line = Tail(@), !.fresh = FALSE] \in Frame
    BY <1>0, <2>2 DEF Frame
  <2>4. FramesOK'
    BY <1>2, <2>3, SetTopType DEF NextWord, FramesOK
  <2>5. pending' \in Seq(Word \cup {End})
    <3> DEFINE S == Word \cup {End}
    <3>1. pending \in Seq(S) /\ Head(Top.line) \in S
      BY <1>0, <2>2
    <3> HIDE DEF S
    <3>2. Append(pending, Head(Top.line)) \in Seq(S)
      BY <3>1
    <3>3. QED
      BY <1>2, <3>2 DEF S, NextWord
  <2>6. RestOK'
    BY <1>0, <1>2 DEF NextWord, RestOK, MacroTableOK
  <2>7. QED
    BY <2>4, <2>5, <2>6, ReaderTypeAfter
<1>3. CASE EndOfLine
  <2>1. LineEnded(Top) \in Frame
    BY <1>0 DEF LineEnded, Frame, Processor
  <2>2. FramesOK'
    BY <1>3, <2>1, SetTopType DEF EndOfLine, FramesOK
  <2>3. onNew' \in BOOLEAN /\ (onNew => onNew')
    BY <1>0, <1>3, Zenon DEF EndOfLine, RestOK
  <2>4. RestOK'
    BY <1>0, <1>3, <2>3 DEF EndOfLine, RestOK, MacroTableOK
  <2>5. QED
    BY <1>0, <1>3, <2>2, <2>4, ReaderTypeAfter DEF EndOfLine
<1>4. CASE EndOfFile
  <2>1. RestOK'
    BY <1>0, <1>4 DEF EndOfFile, RestOK, MacroTableOK
  <2>2. FramesOK'
    <3>1. CASE Len(frames) = 1
      BY <1>0, <1>4, <3>1 DEF EndOfFile, FramesOK
    <3>2. CASE Len(frames) # 1
      <4>1. frames' \in Seq(Frame) /\ Len(frames') \in Nat \ {0}
        BY <1>4, <3>2, CallEnded DEF ReaderTypeOK
      <4>2. QED
        BY <4>1 DEF FramesOK
    <3>3. QED
      BY <3>1, <3>2
  <2>3. QED
    BY <1>0, <1>4, <2>1, <2>2, ReaderTypeAfter DEF EndOfFile
<1>5. CASE MacroEnd
  <2>1. RemoveLast(Top.stack) \in Seq(Word)
    BY <1>0 DEF RemoveLast, Frame
  <2>2. [Top EXCEPT !.stack = RemoveLast(@)] \in Frame
    BY <1>0, <2>1 DEF Frame
  <2>3. FramesOK'
    BY <1>5, <2>2, SetTopType DEF MacroEnd, FramesOK
  <2>4. RestOK'
    BY <1>0, <1>5, TakeType DEF MacroEnd, RestOK, MacroTableOK
  <2>5. QED
    BY <1>5, <2>3, <2>4, TakeType, ReaderTypeAfter DEF MacroEnd
<1>6. CASE DoCommand
  BY <1>6, CodeTableType, CommandsInTable, StartCommandType DEF DoCommand
<1>7. CASE DoDay
  <2>1. Top.current \in Row
    BY <1>0 DEF Frame
  <2>2. QED
    BY <1>7, <2>1, StartCommandType DEF DoDay
<1>8. CASE DoOwnMacro
  <2>1. [Top EXCEPT !.current = Current] \in Frame
    BY <1>0 DEF Frame
  <2>2. FramesOK'
    BY <1>0, <1>8, <2>1, SetTopType DEF DoOwnMacro, Fatal, FramesOK
  <2>3. RestOK'
    BY <1>0, <1>8, TakeType DEF DoOwnMacro, Fatal, RestOK, MacroTableOK
  <2>4. QED
    BY <1>8, <2>2, <2>3, TakeType, ReaderTypeAfter DEF DoOwnMacro
<1>9. CASE Expand
  <2>1. Token \in Names /\ Token \in Word
    <3>1. Token \in Names /\ Token # End
      BY <1>9 DEF Expand, IsMacro, LookedUp
    <3>2. PICK k \in DOMAIN macros : macros[k].name = Token
      BY <3>1 DEF Names
    <3>3. macros[k] \in Macro
      BY <1>0, ElementType DEF RestOK, MacroTableOK
    <3>4. QED
      BY <3>1, <3>2, <3>3 DEF Macro
  <2>2. Append(Top.stack, Token) \in Seq(Word)
    BY <1>0, <2>1 DEF Frame
  <2>3. [Top EXCEPT !.current = Current, !.stack = Append(@, Token)] \in Frame
    BY <1>0, <2>2 DEF Frame
  <2>4. FramesOK'
    BY <1>9, <2>3, SetTopType DEF Expand, FramesOK
  <2>5. pending # << >>
    BY <1>9 DEF Expand, Working, Drained
  <2>6. Tail(pending) \in Seq(Word \cup {End})
    BY <1>0, <2>5
  <2>7. pending' \in Seq(Word \cup {End})
    BY <1>9, <2>1, <2>6, BodyType, SplicedType DEF Expand
  <2>8. RestOK'
    BY <1>0, <1>9 DEF Expand, RestOK, MacroTableOK
  <2>9. QED
    BY <2>4, <2>7, <2>8, ReaderTypeAfter
<1>10. CASE Circular
  <2>1. RestOK' /\ FramesOK'
    BY <1>0, <1>10, TakeType DEF Circular, Fatal, RestOK, MacroTableOK, FramesOK
  <2>2. QED
    BY <1>10, <2>1, TakeType, ReaderTypeAfter DEF Circular
<1>11. ASSUME NEW n \in {0, 1}, ParameterDone(n) PROVE FramesOK'
  <2>1. LessOne(Top.mandatory + n) \in Nat
    BY <1>0 DEF LessOne, Frame
  <2>2. [Top EXCEPT !.current = Current, !.mandatory = LessOne(@ + n)] \in Frame
    BY <1>0, <2>1 DEF Frame
  <2>3. QED
    BY <1>11, <2>2, SetTopType DEF ParameterDone, FramesOK
<1>12. CASE PlainParameter
  <2>1. FramesOK'
    BY <1>11, <1>12 DEF PlainParameter
  <2>2. RestOK'
    BY <1>0, <1>12, TakeType DEF PlainParameter, RestOK, MacroTableOK
  <2>3. QED
    BY <1>12, <2>1, <2>2, TakeType, ReaderTypeAfter DEF PlainParameter
<1>13. CASE Define
  <2>1. FramesOK'
    BY <1>11, <1>13 DEF Define
  <2>2. Token \in Word /\ AddToMacros(Token)
    BY <1>13, TakeType DEF Define, IsParameter
  <2>3. MacroTableOK' /\ onNew' \in BOOLEAN
    BY <2>2, AddToMacrosType
  <2>4. RestOK'
    BY <1>0, <1>13, <2>3, TakeType DEF Define, RestOK
  <2>5. QED
    BY <1>13, <2>1, <2>4, TakeType, ReaderTypeAfter DEF Define
<1>14. CASE Include
  <2>1. crossed' \in BOOLEAN
    BY <1>14 DEF Include
  <2>2. opened' \in 1 .. MaxFiles
    BY <1>0, <1>14, ConfigReaderAssumption DEF Include, RestOK
  <2>3. RestOK'
    BY <1>0, <1>14, <2>1, <2>2, TakeType DEF Include, Fatal, RestOK, MacroTableOK
  <2>4. FramesOK'
    <3>1. CASE UNCHANGED frames
      BY <1>0, <3>1 DEF FramesOK
    <3>2. CASE frames' = Append([frames EXCEPT ![Len(frames)].current = Current], NewFrame)
      <4>1. frames' \in Seq(Frame) /\ Len(frames') = Len(frames) + 1 /\ Len(frames) \in Nat
        BY <3>2, CallAdded DEF ReaderTypeOK
      <4>2. QED
        BY <4>1 DEF FramesOK
    <3>3. QED
      BY <1>14, <3>1, <3>2 DEF Include, Fatal
  <2>5. QED
    BY <1>14, <2>3, <2>4, TakeType, ReaderTypeAfter DEF Include
<1>15. CASE UNCHANGED readerVars
  BY <1>15 DEF readerVars, histories, ReaderTypeOK
<1>16. QED
  BY <1>1, <1>2, <1>3, <1>4, <1>5, <1>6, <1>7, <1>8, <1>9, <1>10, <1>12, <1>13, <1>14, <1>15
     DEF ReaderNext, ReadRouteFile

\* However files, macros and definitions are nested: macros keep their names apart, and
\* a word of a definition always has a macro to go to.
THEOREM ReaderTyped == ReaderSpec => []ReaderTypeOK
BY ReaderTypeInit, ReaderTypeNext, PTL DEF ReaderSpec

-----------------------------------------------------------------------------
(***************************************************************************)
(* The lines                                                               *)
(***************************************************************************)
\* A call that is waiting for an included file is in the middle of a line, and
\* between lines no command and no definition is left.
BetweenLines ==
  /\ \A k \in 1 .. (Len(frames) - 1) : frames[k].inLine
  /\ (eolEnds /\ ~Top.inLine) =>
       Top.command = "none" /\ Top.mandatory = 0 /\ (onNew \/ Top.fresh)

\* A step within a line.
LEMMA InLineStep ==
  ASSUME ReaderTypeOK, BetweenLines, NEW frame \in Frame, frame.inLine, SetTop(frame)
  PROVE  BetweenLines'
<1>1. Len(frames') = Len(frames) /\ Top' = frame
      /\ \A k \in 1 .. (Len(frames) - 1) : frames'[k] = frames[k]
  BY SetTopType
<1>2. QED
  BY <1>1 DEF BetweenLines

LEMMA BetweenLinesNext == ReaderTypeOK /\ BetweenLines /\ [ReaderNext]_readerVars => BetweenLines'
<1> SUFFICES ASSUME ReaderTypeOK, BetweenLines, [ReaderNext]_readerVars PROVE BetweenLines'
  OBVIOUS
<1>0. /\ Top \in Frame /\ Current \in Row /\ frames \in Seq(Frame)
      /\ Len(frames) \in Nat \ {0}
  BY TopType, CurrentType DEF ReaderTypeOK
<1>1. ASSUME NEW l \in Line, ReadLine(l) PROVE BetweenLines'
  <2>1. [Top EXCEPT !.line = l, !.inLine = TRUE] \in Frame
    BY <1>0, ConfigReaderAssumption DEF Frame
  <2>2. [Top EXCEPT !.line = l, !.inLine = TRUE].inLine
    BY <1>0 DEF Frame
  <2>3. QED
    BY <1>1, <2>1, <2>2, InLineStep DEF ReadLine
<1>2. CASE NextWord
  <2>1. Tail(Top.line) \in Seq(Word) /\ Top.inLine
    BY <1>0, <1>2 DEF NextWord, Frame
  <2>2. /\ [Top EXCEPT !.line = Tail(@), !.fresh = FALSE] \in Frame
        /\ [Top EXCEPT !.line = Tail(@), !.fresh = FALSE].inLine
    BY <1>0, <2>1 DEF Frame
  <2>3. QED
    BY <1>2, <2>2, InLineStep DEF NextWord
<1>3. CASE EndOfLine
  <2>1. LineEnded(Top) \in Frame
    BY <1>0 DEF LineEnded, Frame, Processor
  <2>2. eolEnds => LineEnded(Top).command = "none" /\ LineEnded(Top).mandatory = 0
    BY <1>0 DEF LineEnded, Frame
  <2>3. /\ Len(frames') = Len(frames) /\ Top' = LineEnded(Top) /\ eolEnds' = eolEnds
        /\ \A k \in 1 .. (Len(frames) - 1) : frames'[k] = frames[k]
        /\ eolEnds => onNew'
    BY <1>3, <2>1, SetTopType DEF EndOfLine
  <2>4. QED
    BY <2>2, <2>3 DEF BetweenLines
<1>4. CASE EndOfFile
  <2>1. CASE Len(frames) = 1
    BY <1>4, <2>1 DEF EndOfFile, BetweenLines, Top
  <2>2. CASE Len(frames) # 1
    <3>1. /\ Len(frames') = Len(frames) - 1 /\ Len(frames) - 1 \in 1 .. Len(frames)
          /\ frames[Len(frames) - 1] \in Frame
          /\ Top' = [frames[Len(frames) - 1] EXCEPT !.mandatory = LessOne(@)]
          /\ \A k \in 1 .. (Len(frames) - 2) : frames'[k] = frames[k]
      BY <1>4, <2>2, CallEnded
    <3>2. /\ Len(frames) - 1 \in 1 .. (Len(frames) - 1) /\ Len(frames') - 1 = Len(frames) - 2
          /\ \A k \in 1 .. (Len(frames) - 2) : k \in 1 .. (Len(frames) - 1)
      BY <1>0, <3>1
    <3>3. frames[Len(frames) - 1].inLine
      BY <3>2 DEF BetweenLines
    <3>4. Top'.inLine
      BY <3>1, <3>3 DEF Frame
    <3>5. \A k \in 1 .. (Len(frames') - 1) : frames'[k].inLine
      BY <3>1, <3>2 DEF BetweenLines
    <3>6. QED
      BY <3>4, <3>5 DEF BetweenLines
  <2>3. QED
    BY <2>1, <2>2
<1>5. CASE MacroEnd
  <2>1. RemoveLast(Top.stack) \in Seq(Word) /\ Top.inLine
    BY <1>0, <1>5, TakeType DEF MacroEnd, RemoveLast, Frame
  <2>2. /\ [Top EXCEPT !.stack = RemoveLast(@)] \in Frame
        /\ [Top EXCEPT !.stack = RemoveLast(@)].inLine
    BY <1>0, <2>1 DEF Frame
  <2>3. QED
    BY <1>5, <2>2, InLineStep DEF MacroEnd
<1>6. ASSUME NEW row \in Row, Take, StartCommand(row) PROVE BetweenLines'
  <2>1. row.processor \in Processor /\ row.parameters \in Nat /\ Top.inLine
    BY <1>6, TakeType DEF Row
  <2>2. /\ [Top EXCEPT !.command = row.processor, !.mandatory = row.parameters,
                       !.current = row] \in Frame
        /\ [Top EXCEPT !.command = row.processor, !.mandatory = row.parameters,
                       !.current = row].inLine
    BY <1>0, <2>1 DEF Frame
  <2>3. QED
    BY <1>6, <2>2, InLineStep DEF StartCommand
<1>7. CASE DoCommand
  BY <1>6, <1>7, CodeTableType, CommandsInTable DEF DoCommand
<1>8. CASE DoDay
  <2>1. Top.current \in Row
    BY <1>0 DEF Frame
  <2>2. QED
    BY <1>6, <1>8, <2>1 DEF DoDay
<1>9. CASE DoOwnMacro \/ Circular
  <2>1. Top.inLine
    BY <1>9, TakeType DEF DoOwnMacro, Circular
  <2>2. /\ [Top EXCEPT !.current = Current] \in Frame
        /\ [Top EXCEPT !.current = Current].inLine
    BY <1>0, <2>1 DEF Frame
  <2>3. CASE SetTop([Top EXCEPT !.current = Current])
    BY <2>2, <2>3, InLineStep
  <2>4. CASE UNCHANGED << frames, eolEnds, onNew >>
    BY <2>4 DEF BetweenLines, Top
  <2>5. QED
    BY <1>9, <2>3, <2>4 DEF DoOwnMacro, Circular, Fatal
<1>10. CASE Expand
  <2>1. Token \in Word /\ Top.inLine
    <3>1. Token \in Names /\ Top.inLine
      BY <1>10 DEF Expand, IsMacro, Working
    <3>2. PICK k \in DOMAIN macros : macros[k].name = Token
      BY <3>1 DEF Names
    <3>3. macros[k] \in Macro
      BY ElementType DEF ReaderTypeOK
    <3>4. QED
      BY <3>1, <3>2, <3>3 DEF Macro
  <2>2. Append(Top.stack, Token) \in Seq(Word)
    BY <1>0, <2>1 DEF Frame
  <2>3. /\ [Top EXCEPT !.current = Current, !.stack = Append(@, Token)] \in Frame
        /\ [Top EXCEPT !.current = Current, !.stack = Append(@, Token)].inLine
    BY <1>0, <2>1, <2>2 DEF Frame
  <2>4. QED
    BY <1>10, <2>3, InLineStep DEF Expand
<1>11. ASSUME Take, NEW n \in {0, 1}, ParameterDone(n) PROVE BetweenLines'
  <2>1. LessOne(Top.mandatory + n) \in Nat /\ Top.inLine
    BY <1>0, <1>11, TakeType DEF LessOne, Frame
  <2>2. /\ [Top EXCEPT !.current = Current, !.mandatory = LessOne(@ + n)] \in Frame
        /\ [Top EXCEPT !.current = Current, !.mandatory = LessOne(@ + n)].inLine
    BY <1>0, <2>1 DEF Frame
  <2>3. QED
    BY <1>11, <2>2, InLineStep DEF ParameterDone
<1>12. CASE PlainParameter \/ Define
  BY <1>11, <1>12 DEF PlainParameter, Define
<1>13. CASE Include
  <2>1. CASE UNCHANGED << frames, eolEnds, onNew >>
    BY <2>1 DEF BetweenLines, Top
  <2>2. CASE frames' = Append([frames EXCEPT ![Len(frames)].current = Current], NewFrame)
    <3>1. Top.inLine
      BY <1>13, TakeType DEF Include
    <3>2. [Top EXCEPT !.current = Current].inLine
      BY <1>0, <3>1 DEF Frame
    <3>3. /\ Len(frames') = Len(frames) + 1 /\ Top' = NewFrame
          /\ frames'[Len(frames)] = [Top EXCEPT !.current = Current]
          /\ \A k \in 1 .. (Len(frames) - 1) : frames'[k] = frames[k]
      BY <2>2, CallAdded
    <3>4. \A k \in 1 .. (Len(frames') - 1) : k \in 1 .. (Len(frames) - 1) \/ k = Len(frames)
      BY <1>0, <3>3
    <3>5. \A k \in 1 .. (Len(frames') - 1) : frames'[k].inLine
      BY <3>2, <3>3, <3>4 DEF BetweenLines
    <3>6. NewFrame.command = "none" /\ NewFrame.mandatory = 0 /\ NewFrame.fresh
      BY DEF NewFrame
    <3>7. QED
      BY <3>3, <3>5, <3>6 DEF BetweenLines
  <2>3. QED
    BY <1>13, <2>1, <2>2 DEF Include, Fatal
<1>14. CASE UNCHANGED readerVars
  BY <1>14 DEF readerVars, BetweenLines, Top
<1>15. QED
  BY <1>1, <1>2, <1>3, <1>4, <1>5, <1>7, <1>8, <1>9, <1>10, <1>12, <1>13, <1>14
     DEF ReaderNext, ReadRouteFile

\* Under EOLENDSCOMMAND no line begins within a command: LineEndsCommand, for any files
\* that include each other.
THEOREM LinesEndCommands == ReaderSpec => LineEndsCommand
<1>1. ReaderInit => BetweenLines
  <2> SUFFICES ASSUME ReaderInit PROVE BetweenLines
    OBVIOUS
  <2>1. frames = << NewFrame >> /\ ~eolEnds
    BY DEF ReaderInit
  <2>2. Len(frames) = 1
    BY <2>1
  <2>3. QED
    BY <2>1, <2>2 DEF BetweenLines
<1>2. BetweenLines /\ [ReaderNext]_readerVars =>
        [eolEnds /\ (\E l \in Line : ReadLine(l)) =>
           Top.command = "none" /\ Top.mandatory = 0 /\ (onNew \/ Top.fresh)]_readerVars
  BY DEF BetweenLines, ReadLine
<1>3. QED
  BY <1>1, <1>2, ReaderTypeInit, ReaderTypeNext, BetweenLinesNext, PTL DEF ReaderSpec, LineEndsCommand

-----------------------------------------------------------------------------
(***************************************************************************)
(* Counting words                                                          *)
(***************************************************************************)
LEMMA SameSize ==
  ASSUME NEW S, IsFiniteSet(S), NEW T, NEW f \in [S -> T],
         \A x, y \in S : f[x] = f[y] => x = y,
         \A y \in T : \E x \in S : f[x] = y
  PROVE  IsFiniteSet(T) /\ Cardinality(T) = Cardinality(S)
<1>1. f \in Bijection(S, T)
  BY DEF Bijection, Injection, Surjection, IsInjective
<1>2. QED
  BY <1>1, FS_Bijection DEF ExistsBijection

LEMMA PlacesFinite ==
  ASSUME NEW S, NEW s \in Seq(S), NEW w
  PROVE  IsFiniteSet(Places(s, w)) /\ Count(s, w) \in Nat
<1>1. Places(s, w) \subseteq 1 .. Len(s) /\ Len(s) \in Nat
  BY DEF Places
<1>2. IsFiniteSet(1 .. Len(s))
  BY <1>1, FS_Interval
<1>3. QED
  BY <1>1, <1>2, FS_Subset, FS_CardinalityType DEF Count

LEMMA CountConcat ==
  ASSUME NEW S, NEW s \in Seq(S), NEW t \in Seq(S), NEW w
  PROVE  Count(s \o t, w) = Count(s, w) + Count(t, w)
<1> DEFINE Shifted == {i + Len(s) : i \in Places(t, w)}
           f == [i \in Places(t, w) |-> i + Len(s)]
<1>1. /\ Len(s) \in Nat /\ Len(t) \in Nat /\ Len(s \o t) = Len(s) + Len(t)
      /\ s \o t \in Seq(S)
      /\ \A i \in 1 .. Len(s) + Len(t) :
           (s \o t)[i] = IF i <= Len(s) THEN s[i] ELSE t[i - Len(s)]
  BY ConcatProperties, LenProperties
<1>2. /\ Places(s, w) = {i \in 1 .. Len(s) : s[i] = w}
      /\ Places(t, w) = {i \in 1 .. Len(t) : t[i] = w}
      /\ Places(s \o t, w) = {i \in 1 .. Len(s) + Len(t) : (s \o t)[i] = w}
  BY <1>1 DEF Places
<1>3. Places(s \o t, w) = Places(s, w) \cup Shifted
  <2>1. ASSUME NEW i \in Places(s \o t, w) PROVE i \in Places(s, w) \cup Shifted
    <3>1. CASE i <= Len(s)
      BY <1>1, <1>2, <3>1
    <3>2. CASE ~(i <= Len(s))
      <4>1. i - Len(s) \in 1 .. Len(t) /\ t[i - Len(s)] = w /\ (i - Len(s)) + Len(s) = i
        BY <1>1, <1>2, <3>2
      <4>2. i - Len(s) \in Places(t, w)
        BY <1>2, <4>1
      <4>3. QED
        BY <4>1, <4>2
    <3>3. QED
      BY <3>1, <3>2
  <2>2. ASSUME NEW i \in Places(s, w) PROVE i \in Places(s \o t, w)
    BY <1>1, <1>2
  <2>3. ASSUME NEW i \in Places(t, w) PROVE i + Len(s) \in Places(s \o t, w)
    <3>1. i \in 1 .. Len(t) /\ t[i] = w
      BY <1>2
    <3>2. i + Len(s) \in 1 .. Len(s) + Len(t) /\ ~(i + Len(s) <= Len(s)) /\ (i + Len(s)) - Len(s) = i
      BY <1>1, <3>1
    <3>3. QED
      BY <1>1, <1>2, <3>1, <3>2
  <2>4. QED
    BY <2>1, <2>2, <2>3
<1>4. Places(s, w) \cap Shifted = {}
  BY <1>1, <1>2
<1>5. IsFiniteSet(Shifted) /\ Cardinality(Shifted) = Count(t, w)
  <2>1. f \in [Places(t, w) -> Shifted]
    OBVIOUS
  <2>2. \A i, j \in Places(t, w) : f[i] = f[j] => i = j
    BY <1>1, <1>2
  <2>3. \A y \in Shifted : \E i \in Places(t, w) : f[i] = y
    OBVIOUS
  <2>4. IsFiniteSet(Places(t, w))
    BY PlacesFinite
  <2> HIDE DEF f, Shifted
  <2>5. QED
    BY <2>1, <2>2, <2>3, <2>4, SameSize DEF Count
<1>6. IsFiniteSet(Places(s, w)) /\ Count(s, w) \in Nat /\ Count(t, w) \in Nat
  BY PlacesFinite
<1> HIDE DEF f, Shifted
<1>7. Cardinality(Places(s, w) \cup Shifted)
        = Cardinality(Places(s, w)) + Cardinality(Shifted) - Cardinality(Places(s, w) \cap Shifted)
  BY <1>5, <1>6, FS_Union
<1>8. Cardinality(Places(s, w) \cap Shifted) = 0
  BY <1>4, FS_EmptySet
<1>9. Count(s \o t, w) = Cardinality(Places(s, w) \cup Shifted)
  BY <1>3 DEF Count
<1>10. Cardinality(Places(s, w)) = Count(s, w)
  BY DEF Count
<1>11. QED
  BY <1>5, <1>6, <1>7, <1>8, <1>9, <1>10

LEMMA CountEmpty == \A w : Count(<< >>, w) = 0
BY FS_EmptySet DEF Count, Places

LEMMA CountOne == \A x, w : Count(<< x >>, w) = IF x = w THEN 1 ELSE 0
<1> SUFFICES ASSUME NEW x, NEW w PROVE Count(<< x >>, w) = IF x = w THEN 1 ELSE 0
  OBVIOUS
<1>1. Places(<< x >>, w) = IF x = w THEN {1} ELSE {}
  BY DEF Places
<1>2. QED
  BY <1>1, FS_Singleton, FS_EmptySet DEF Count

LEMMA CountAppend ==
  ASSUME NEW S, NEW s \in Seq(S), NEW x \in S, NEW w
  PROVE  Count(Append(s, x), w) = Count(s, w) + IF x = w THEN 1 ELSE 0
<1>1. Append(s, x) = s \o << x >> /\ << x >> \in Seq(S)
  OBVIOUS
<1>2. Count(s \o << x >>, w) = Count(s, w) + Count(<< x >>, w)
  BY <1>1, CountConcat
<1>3. QED
  BY <1>1, <1>2, CountOne

LEMMA CountTail ==
  ASSUME NEW S, NEW s \in Seq(S), s # << >>, NEW w
  PROVE  Count(s, w) = Count(Tail(s), w) + IF Head(s) = w THEN 1 ELSE 0
<1>1. /\ << Head(s) >> \in Seq(S) /\ Tail(s) \in Seq(S) /\ Head(s) \in S
      /\ s = << Head(s) >> \o Tail(s)
  OBVIOUS
<1>2. Count(s, w) = Count(<< Head(s) >>, w) + Count(Tail(s), w)
  BY <1>1, CountConcat
<1>3. Count(Tail(s), w) \in Nat
  BY <1>1, PlacesFinite
<1>4. QED
  BY <1>2, <1>3, CountOne

\* A macro in the queue: its words, and a macro end.
LEMMA CountSpliced ==
  ASSUME NEW body \in Seq(Word), NEW rest \in Seq(Word \cup {End}), NEW w
  PROVE  Count(Spliced(body, rest), w)
           = Count(body, w) + Count(rest, w) + IF w = End THEN 1 ELSE 0
<1> DEFINE S == Word \cup {End}
           put == IF body = << >> THEN rest
                  ELSE IF rest = << >>
                       THEN << body[Len(body)] >> \o SubSeq(body, 1, Len(body) - 1)
                       ELSE << Head(rest) >> \o body \o Tail(rest)
<1>1. body \in Seq(S) /\ rest \in Seq(S) /\ End \in S
  OBVIOUS
<1>2. Spliced(body, rest) = put \o << End >>
  BY DEF Spliced
<1> HIDE DEF S
<1>3. Count(body, w) \in Nat /\ Count(rest, w) \in Nat
  BY <1>1, PlacesFinite
<1>4. put \in Seq(S) /\ Count(put, w) = Count(body, w) + Count(rest, w)
  <2>1. CASE body = << >>
    BY <1>1, <1>3, <2>1, CountEmpty
  <2>2. CASE body # << >> /\ rest = << >>
    <3> DEFINE last == << body[Len(body)] >>  front == SubSeq(body, 1, Len(body) - 1)
    <3>1. last \in Seq(S) /\ front \in Seq(S) /\ body = front \o last
      BY <1>1, <2>2
    <3>2. put = last \o front
      BY <2>2
    <3> HIDE DEF last, front, put
    <3>3. Count(put, w) = Count(last, w) + Count(front, w)
      BY <3>1, <3>2, CountConcat
    <3>4. Count(body, w) = Count(front, w) + Count(last, w)
      BY <3>1, CountConcat
    <3>5. Count(rest, w) = 0
      BY <2>2, CountEmpty
    <3>6. Count(last, w) \in Nat /\ Count(front, w) \in Nat
      BY <3>1, PlacesFinite
    <3>7. put \in Seq(S)
      BY <3>1, <3>2
    <3>8. QED
      BY <3>3, <3>4, <3>5, <3>6, <3>7
  <2>3. CASE body # << >> /\ rest # << >>
    <3> DEFINE first == << Head(rest) >>  others == Tail(rest)
    <3>1. first \in Seq(S) /\ others \in Seq(S) /\ rest = first \o others
      BY <1>1, <2>3
    <3>2. put = (first \o body) \o others
      BY <2>3
    <3> HIDE DEF first, others, put
    <3>3. first \o body \in Seq(S) /\ put \in Seq(S)
      BY <1>1, <3>1, <3>2
    <3>4. Count(put, w) = Count(first \o body, w) + Count(others, w)
      BY <3>1, <3>2, <3>3, CountConcat
    <3>5. Count(first \o body, w) = Count(first, w) + Count(body, w)
      BY <1>1, <3>1, CountConcat
    <3>6. Count(rest, w) = Count(first, w) + Count(others, w)
      BY <3>1, CountConcat
    <3>7. Count(first, w) \in Nat /\ Count(others, w) \in Nat
      BY <3>1, PlacesFinite
    <3>8. QED
      BY <1>3, <3>3, <3>4, <3>5, <3>6, <3>7
  <2>4. QED
    BY <2>1, <2>2, <2>3
<1> HIDE DEF put
<1>5. << End >> \in Seq(S)
  BY <1>1
<1>6. Count(put \o << End >>, w) = Count(put, w) + Count(<< End >>, w)
  BY <1>4, <1>5, CountConcat
<1>7. QED
  BY <1>2, <1>3, <1>4, <1>6, CountOne

-----------------------------------------------------------------------------
(***************************************************************************)
(* The words                                                               *)
(***************************************************************************)
Use == [name : Word, body : Seq(Word)]

HistoriesOK ==
  /\ queued \in Seq(Word \cup {End}) /\ handled \in Seq(Word \cup {End})
  /\ used \in Seq(Use)

Balanced ==
  Len(used) < MaxUses =>
    \A w \in Word \cup {End} :
      Count(handled, w) + Count(pending, w) =
        Count(queued, w) + Cardinality(PlacesUsed(w)) + IF w = End THEN Len(used) ELSE 0

\* A token taken from the queue goes to those handled.
LEMMA TakeBalance ==
  ASSUME ReaderTypeOK, HistoriesOK, Balanced, Take, UNCHANGED used
  PROVE  HistoriesOK' /\ Balanced'
<1> DEFINE S == Word \cup {End}
<1>1. /\ pending \in Seq(S) /\ pending # << >> /\ pending' = Tail(pending)
      /\ Token \in S /\ queued' = queued /\ used' = used
      /\ handled' = Recorded(handled, Token)
      /\ handled \in Seq(S) /\ queued \in Seq(S)
  BY TakeType DEF Take, HistoriesOK
<1>2. HistoriesOK'
  <2>1. Append(handled, Token) \in Seq(S)
    BY <1>1
  <2>2. QED
    BY <1>1, <2>1 DEF Recorded, HistoriesOK
<1>3. ASSUME Len(used) < MaxUses, NEW w \in S
      PROVE  Count(handled', w) + Count(pending', w) = Count(handled, w) + Count(pending, w)
  <2>1. handled' = Append(handled, Token)
    BY <1>1, <1>3 DEF Recorded
  <2> HIDE DEF S
  <2>2. Count(handled', w) = Count(handled, w) + IF Token = w THEN 1 ELSE 0
    BY <1>1, <2>1, CountAppend
  <2>3. Count(pending, w) = Count(pending', w) + IF Token = w THEN 1 ELSE 0
    BY <1>1, CountTail DEF Token
  <2>4. pending' \in Seq(S)
    BY <1>1
  <2>5. Count(handled, w) \in Nat /\ Count(pending', w) \in Nat
    BY <1>1, <2>4, PlacesFinite
  <2>6. QED
    BY <2>2, <2>3, <2>5
<1>4. \A w : PlacesUsed(w)' = PlacesUsed(w)
  BY <1>1 DEF PlacesUsed
<1>5. Balanced'
  BY <1>1, <1>3, <1>4 DEF Balanced
<1>6. QED
  BY <1>2, <1>5

LEMMA PlacesUsedFinite ==
  ASSUME HistoriesOK, NEW w
  PROVE  IsFiniteSet(PlacesUsed(w)) /\ Cardinality(PlacesUsed(w)) \in Nat
<1> DEFINE part(k) == {<< k, i >> : i \in Places(used[k].body, w)}
           all == {part(k) : k \in DOMAIN used}
<1>1. IsFiniteSet(all)
  <2>1. IsFiniteSet(DOMAIN used)
    <3>1. DOMAIN used = 1 .. Len(used) /\ Len(used) \in Nat
      BY DEF HistoriesOK
    <3>2. QED
      BY <3>1, FS_Interval
  <2> DEFINE g == [k \in DOMAIN used |-> part(k)]
  <2>2. g \in Surjection(DOMAIN used, all)
    BY DEF Surjection
  <2> HIDE DEF g, all
  <2>3. QED
    BY <2>1, <2>2, FS_Surjection
<1>2. ASSUME NEW k \in DOMAIN used PROVE IsFiniteSet(part(k))
  <2>1. used[k] \in Use
    BY DEF HistoriesOK
  <2>2. used[k].body \in Seq(Word)
    BY <2>1 DEF Use
  <2>3. IsFiniteSet(Places(used[k].body, w))
    BY <2>2, PlacesFinite
  <2> DEFINE f == [i \in Places(used[k].body, w) |-> << k, i >>]
  <2>4. f \in [Places(used[k].body, w) -> part(k)]
    OBVIOUS
  <2>5. \A x, y \in Places(used[k].body, w) : f[x] = f[y] => x = y
    OBVIOUS
  <2>6. \A y \in part(k) : \E x \in Places(used[k].body, w) : f[x] = y
    OBVIOUS
  <2> HIDE DEF f, part
  <2>7. QED
    BY <2>3, <2>4, <2>5, <2>6, SameSize
<1>3. \A T \in all : IsFiniteSet(T)
  BY <1>2
<1>4. PlacesUsed(w) = UNION all
  BY DEF PlacesUsed
<1> HIDE DEF all
<1>5. IsFiniteSet(UNION all)
  BY <1>1, <1>3, FS_UNION
<1>6. QED
  BY <1>4, <1>5, FS_CardinalityType

\* One more macro used brings the words of its body.
LEMMA PlacesUsedMore ==
  ASSUME HistoriesOK, NEW u \in Use, used' = Append(used, u), NEW w
  PROVE  Cardinality(PlacesUsed(w)') = Cardinality(PlacesUsed(w)) + Count(u.body, w)
<1> DEFINE n == Len(used) + 1
           new == {<< n, i >> : i \in Places(u.body, w)}
           f == [i \in Places(u.body, w) |-> << n, i >>]
<1>1. /\ Len(used) \in Nat /\ DOMAIN used = 1 .. Len(used) /\ DOMAIN used' = 1 .. n
      /\ used'[n] = u /\ \A k \in DOMAIN used : used'[k] = used[k]
  BY DEF HistoriesOK
<1>2. \A k : k \in DOMAIN used' <=> k \in DOMAIN used \/ k = n
  BY <1>1
<1>3. n \notin DOMAIN used
  BY <1>1
<1> HIDE DEF n
<1>4. PlacesUsed(w)' = PlacesUsed(w) \cup new
  BY <1>1, <1>2 DEF PlacesUsed
<1>5. PlacesUsed(w) \cap new = {}
  BY <1>3 DEF PlacesUsed
<1>6. IsFiniteSet(new) /\ Cardinality(new) = Count(u.body, w)
  <2>1. u.body \in Seq(Word)
    BY DEF Use
  <2>2. IsFiniteSet(Places(u.body, w))
    BY <2>1, PlacesFinite
  <2>3. f \in [Places(u.body, w) -> new]
    OBVIOUS
  <2>4. \A x, y \in Places(u.body, w) : f[x] = f[y] => x = y
    OBVIOUS
  <2>5. \A y \in new : \E x \in Places(u.body, w) : f[x] = y
    OBVIOUS
  <2> HIDE DEF f, new
  <2>6. QED
    BY <2>2, <2>3, <2>4, <2>5, SameSize DEF Count
<1>7. IsFiniteSet(PlacesUsed(w)) /\ Cardinality(PlacesUsed(w)) \in Nat
  BY PlacesUsedFinite
<1>8. Count(u.body, w) \in Nat
  <2>1. u.body \in Seq(Word)
    BY DEF Use
  <2>2. QED
    BY <2>1, PlacesFinite
<1> HIDE DEF new, f
<1>9. Cardinality(PlacesUsed(w) \cup new)
        = Cardinality(PlacesUsed(w)) + Cardinality(new) - Cardinality(PlacesUsed(w) \cap new)
  BY <1>6, <1>7, FS_Union
<1>10. Cardinality(PlacesUsed(w) \cap new) = 0
  BY <1>5, FS_EmptySet
<1>11. Cardinality(PlacesUsed(w)') = Cardinality(PlacesUsed(w) \cup new)
  BY <1>4
<1>12. QED
  BY <1>6, <1>7, <1>8, <1>9, <1>10, <1>11

LEMMA ExpandBalance ==
  ASSUME ReaderTypeOK, HistoriesOK, Balanced, Expand
  PROVE  HistoriesOK' /\ Balanced'
<1> DEFINE S == Word \cup {End}
           u == [name |-> Token, body |-> Body(Token)]
<1>1. Token \in Names /\ Token # End
  BY DEF Expand, IsMacro, LookedUp
<1>2. Token \in Word /\ Body(Token) \in Seq(Word)
  <2>1. PICK k \in DOMAIN macros : macros[k].name = Token
    BY <1>1 DEF Names
  <2>2. macros[k] \in Macro
    BY ElementType DEF ReaderTypeOK
  <2>3. QED
    BY <1>1, <2>1, <2>2, BodyType DEF Macro
<1>3. /\ pending \in Seq(S) /\ pending # << >> /\ Tail(pending) \in Seq(S)
      /\ handled \in Seq(S) /\ queued \in Seq(S) /\ Token \in S /\ Token = Head(pending)
  <2>1. pending \in Seq(S) /\ pending # << >> /\ handled \in Seq(S) /\ queued \in Seq(S)
    BY DEF Expand, Working, Drained, ReaderTypeOK, HistoriesOK
  <2>2. Token \in S /\ Token = Head(pending)
    BY <1>2 DEF Token
  <2>3. Tail(pending) \in Seq(S)
    BY <2>1
  <2>4. QED
    BY <2>1, <2>2, <2>3
<1>4. u \in Use
  BY <1>2 DEF Use
<1>5. /\ pending' = Spliced(Body(Token), Tail(pending)) /\ queued' = queued
      /\ handled' = Recorded(handled, Token) /\ used' = Recorded(used, u)
  BY DEF Expand
<1>6. HistoriesOK'
  <2>1. Append(handled, Token) \in Seq(S)
    BY <1>3
  <2>2. Append(used, u) \in Seq(Use) /\ used \in Seq(Use)
    BY <1>4 DEF HistoriesOK
  <2>3. QED
    BY <1>3, <1>5, <2>1, <2>2 DEF Recorded, HistoriesOK
<1>7. ASSUME Len(used') < MaxUses
      PROVE  /\ Len(used) < MaxUses /\ Len(used') = Len(used) + 1 /\ Len(used) \in Nat
             /\ handled' = Append(handled, Token) /\ used' = Append(used, u)
  BY <1>4, <1>5, <1>7 DEF Recorded, HistoriesOK
<1> HIDE DEF S
<1>8. ASSUME Len(used') < MaxUses, NEW w \in S
      PROVE  Count(handled', w) + Count(pending', w) =
               Count(queued', w) + Cardinality(PlacesUsed(w)') + IF w = End THEN Len(used') ELSE 0
  <2>0. handled' = Append(handled, Token)
    BY <1>7, <1>8
  <2>1. Count(handled', w) = Count(handled, w) + IF Token = w THEN 1 ELSE 0
    BY <1>3, <2>0, CountAppend
  <2>2. Count(pending, w) = Count(Tail(pending), w) + IF Token = w THEN 1 ELSE 0
    BY <1>3, CountTail
  <2>3. Count(pending', w) = Count(Body(Token), w) + Count(Tail(pending), w) + IF w = End THEN 1 ELSE 0
    BY <1>2, <1>3, <1>5, CountSpliced DEF S
  <2>4. Cardinality(PlacesUsed(w)') = Cardinality(PlacesUsed(w)) + Count(Body(Token), w)
    BY <1>4, <1>7, <1>8, PlacesUsedMore
  <2>5. Count(handled, w) + Count(pending, w) =
          Count(queued, w) + Cardinality(PlacesUsed(w)) + IF w = End THEN Len(used) ELSE 0
    BY <1>7, <1>8 DEF Balanced, S
  <2>6. /\ Count(handled, w) \in Nat /\ Count(Tail(pending), w) \in Nat
        /\ Count(queued, w) \in Nat /\ Count(Body(Token), w) \in Nat
    BY <1>2, <1>3, PlacesFinite
  <2>7. Cardinality(PlacesUsed(w)) \in Nat
    BY PlacesUsedFinite
  <2>8. Len(used') = Len(used) + 1 /\ Len(used) \in Nat /\ queued' = queued
    BY <1>5, <1>7, <1>8
  <2>9. /\ Count(handled', w) + Count(Tail(pending), w) = Count(handled, w) + Count(pending, w)
        /\ Count(handled', w) \in Nat /\ Count(pending, w) \in Nat
    BY <2>1, <2>2, <2>6
  <2>10. CASE w = End
    <3>1. Count(pending', w) = Count(Body(Token), w) + Count(Tail(pending), w) + 1
      BY <2>3, <2>10
    <3>2. Count(handled, w) + Count(pending, w)
            = Count(queued, w) + Cardinality(PlacesUsed(w)) + Len(used)
      BY <2>5, <2>10
    <3> DEFINE h0 == Count(handled, w)  h1 == Count(handled', w)  p0 == Count(pending, w)
               p1 == Count(pending', w)  t == Count(Tail(pending), w)  q == Count(queued, w)
               c == Cardinality(PlacesUsed(w))  b == Count(Body(Token), w)  n == Len(used)
    <3>3. /\ h0 \in Nat /\ h1 \in Nat /\ p0 \in Nat /\ t \in Nat /\ q \in Nat
          /\ c \in Nat /\ b \in Nat /\ n \in Nat
      BY <2>6, <2>7, <2>8, <2>9
    <3>4. h1 + t = h0 + p0 /\ h0 + p0 = q + c + n /\ p1 = b + t + 1
      BY <2>9, <3>1, <3>2
    <3> HIDE DEF h0, h1, p0, p1, t, q, c, b, n
    <3>5. h1 + p1 = q + (c + b) + (n + 1)
      BY <3>3, <3>4
    <3>6. QED
      BY <2>4, <2>8, <2>10, <3>5 DEF h1, p1, q, c, b, n
  <2>11. CASE w # End
    <3>1. Count(pending', w) = Count(Body(Token), w) + Count(Tail(pending), w)
      BY <2>3, <2>6, <2>11
    <3>2. Count(handled, w) + Count(pending, w)
            = Count(queued, w) + Cardinality(PlacesUsed(w))
      BY <2>5, <2>6, <2>7, <2>11
    <3> DEFINE h0 == Count(handled, w)  h1 == Count(handled', w)  p0 == Count(pending, w)
               p1 == Count(pending', w)  t == Count(Tail(pending), w)  q == Count(queued, w)
               c == Cardinality(PlacesUsed(w))  b == Count(Body(Token), w)
    <3>3. /\ h0 \in Nat /\ h1 \in Nat /\ p0 \in Nat /\ t \in Nat /\ q \in Nat
          /\ c \in Nat /\ b \in Nat
      BY <2>6, <2>7, <2>9
    <3>4. h1 + t = h0 + p0 /\ h0 + p0 = q + c /\ p1 = b + t
      BY <2>9, <3>1, <3>2
    <3> HIDE DEF h0, h1, p0, p1, t, q, c, b
    <3>5. h1 + p1 = q + (c + b) /\ q + (c + b) \in Nat
      BY <3>3, <3>4
    <3>6. QED
      BY <2>4, <2>8, <2>11, <3>5 DEF h1, p1, q, c, b
  <2>12. QED
    BY <2>10, <2>11
<1>9. Balanced'
  BY <1>8 DEF Balanced, S
<1>10. QED
  BY <1>6, <1>9

LEMMA BalancedNext ==
  ReaderTypeOK /\ HistoriesOK /\ Balanced /\ [ReaderNext]_readerVars => HistoriesOK' /\ Balanced'
<1> SUFFICES ASSUME ReaderTypeOK, HistoriesOK, Balanced, [ReaderNext]_readerVars
             PROVE  HistoriesOK' /\ Balanced'
  OBVIOUS
<1>1. CASE NextWord
  <2>1. /\ queued' = pending' /\ handled' = << >> /\ used' = << >>
        /\ pending' \in Seq(Word \cup {End})
    <3>1. pending' \in Seq(Word \cup {End})
      BY <1>1, ReaderTypeNext DEF ReaderTypeOK
    <3>2. QED
      BY <1>1, <3>1 DEF NextWord
  <2>2. HistoriesOK'
    BY <2>1 DEF HistoriesOK
  <2>3. \A w : Cardinality(PlacesUsed(w)') = 0
    <3>1. \A w : PlacesUsed(w)' = {}
      BY <2>1 DEF PlacesUsed
    <3>2. QED
      BY <3>1, FS_EmptySet
  <2>4. \A w \in Word \cup {End} : Count(pending', w) \in Nat
    BY <2>1, PlacesFinite
  <2>5. Len(used') = 0
    BY <2>1
  <2>6. \A w : Count(handled', w) = 0
    BY <2>1, CountEmpty
  <2>7. QED
    BY <2>1, <2>2, <2>3, <2>4, <2>5, <2>6 DEF Balanced
<1>2. CASE Expand
  BY <1>2, ExpandBalance
<1>3. CASE Take /\ UNCHANGED used
  BY <1>3, TakeBalance
<1>4. CASE UNCHANGED << pending, queued, handled, used >>
  BY <1>4 DEF HistoriesOK, Balanced, PlacesUsed
<1>5. CASE MacroEnd \/ DoCommand \/ DoDay \/ DoOwnMacro \/ Circular \/ PlainParameter \/ Define \/ Include
  BY <1>3, <1>5 DEF MacroEnd, DoCommand, DoDay, StartCommand, DoOwnMacro, Circular, PlainParameter,
     Define, Include
<1>6. CASE (\E l \in Line : ReadLine(l)) \/ EndOfLine \/ EndOfFile \/ UNCHANGED readerVars
  BY <1>4, <1>6 DEF ReadLine, EndOfLine, EndOfFile, readerVars, histories
<1>7. QED
  BY <1>1, <1>2, <1>5, <1>6 DEF ReaderNext, ReadRouteFile

\* No word of the file or of a macro is lost or handled twice: NothingLost, for any files and
\* any macros.
THEOREM WordsHandledOnce == ReaderSpec => []NothingLost
<1> DEFINE IInv == ReaderTypeOK /\ HistoriesOK /\ Balanced
<1>1. ReaderInit => IInv
  <2> SUFFICES ASSUME ReaderInit PROVE HistoriesOK /\ Balanced
    BY ReaderTypeInit
  <2>1. queued = << >> /\ handled = << >> /\ used = << >> /\ pending = << >>
    BY DEF ReaderInit
  <2>2. \A w : Cardinality(PlacesUsed(w)) = 0
    <3>1. \A w : PlacesUsed(w) = {}
      BY <2>1 DEF PlacesUsed
    <3>2. QED
      BY <3>1, FS_EmptySet
  <2>3. QED
    BY <2>1, <2>2, CountEmpty DEF HistoriesOK, Balanced
<1>2. IInv /\ [ReaderNext]_readerVars => IInv'
  BY ReaderTypeNext, BalancedNext
<1>3. IInv => NothingLost
  <2> SUFFICES ASSUME IInv PROVE NothingLost
    OBVIOUS
  <2>1. Words(queued) \cup Words(handled) \subseteq Word \cup {End}
    BY DEF Words, HistoriesOK
  <2>2. ASSUME NEW k \in DOMAIN used PROVE Words(used[k].body) \subseteq Word
    <3>1. used[k] \in Use
      BY DEF HistoriesOK
    <3>2. used[k].body \in Seq(Word)
      BY <3>1 DEF Use
    <3>3. QED
      BY <3>2 DEF Words
  <2>3. QED
    BY <2>1, <2>2 DEF NothingLost, Balanced
<1>4. QED
  BY <1>1, <1>2, <1>3, PTL DEF ReaderSpec

-----------------------------------------------------------------------------
(***************************************************************************)
(* The macro stack                                                         *)
(***************************************************************************)
\* Macros being expanded and macro ends in the queue come in pairs, and none is left
\* at the end of a line, or where a call has read nothing yet.
StackMatches ==
  ~crossed =>
    /\ Paired
    /\ (~Top.inLine \/ Top.fresh) => Top.stack = << >>

\* A token within a line that ends no macro and begins none.
LEMMA SameStack ==
  ASSUME ReaderTypeOK, StackMatches, Take, Token # End, crossed' = crossed,
         NEW frame \in Frame, frame.stack = Top.stack, frame.inLine, ~frame.fresh, SetTop(frame)
  PROVE  StackMatches'
<1>1. Len(frames') = Len(frames) /\ Top' = frame
      /\ \A k \in 1 .. (Len(frames) - 1) : frames'[k] = frames[k]
  BY SetTopType
<1>2. Count(pending', End) = Count(pending, End)
  <2>1. /\ pending \in Seq(Word \cup {End}) /\ pending # << >> /\ pending' = Tail(pending)
        /\ pending' \in Seq(Word \cup {End}) /\ Head(pending) # End
    BY TakeType DEF Token
  <2>2. Count(pending, End) = Count(pending', End) + IF Head(pending) = End THEN 1 ELSE 0
    BY <2>1, CountTail
  <2>3. Count(pending', End) \in Nat
    BY <2>1, PlacesFinite
  <2>4. QED
    BY <2>1, <2>2, <2>3
<1>3. QED
  BY <1>1, <1>2 DEF StackMatches, Paired

\* The same where the calls of ReadRouteFile stay as they are.
LEMMA SameCalls ==
  ASSUME ReaderTypeOK, StackMatches, Take, Token # End, crossed' = crossed, UNCHANGED frames
  PROVE  StackMatches'
<1>1. /\ Top \in Frame /\ Top.inLine /\ ~Top.fresh /\ SetTop(Top)
  <2>1. frames = [frames EXCEPT ![Len(frames)] = frames[Len(frames)]]
    BY DEF ReaderTypeOK
  <2>2. QED
    BY <2>1, TopType, TakeType DEF SetTop, Top
<1>2. QED
  BY <1>1, SameStack

LEMMA StackMatchesNext ==
  ReaderTypeOK /\ BetweenLines /\ StackMatches /\ [ReaderNext]_readerVars => StackMatches'
<1> SUFFICES ASSUME ReaderTypeOK, BetweenLines, StackMatches, [ReaderNext]_readerVars
             PROVE  StackMatches'
  OBVIOUS
<1>0. /\ Top \in Frame /\ Current \in Row /\ frames \in Seq(Frame)
      /\ Len(frames) \in Nat \ {0} /\ Top.stack \in Seq(Word)
      /\ pending \in Seq(Word \cup {End}) /\ Count(pending, End) \in Nat
  <2>1. Top \in Frame /\ pending \in Seq(Word \cup {End})
    BY TopType DEF ReaderTypeOK
  <2>2. Top.stack \in Seq(Word)
    BY <2>1 DEF Frame
  <2>3. Count(pending, End) \in Nat
    BY <2>1, PlacesFinite
  <2>4. QED
    BY <2>1, <2>2, <2>3, CurrentType DEF ReaderTypeOK
<1>1. ASSUME NEW l \in Line, ReadLine(l) PROVE StackMatches'
  <2>1. /\ [Top EXCEPT !.line = l, !.inLine = TRUE] \in Frame
        /\ [Top EXCEPT !.line = l, !.inLine = TRUE].stack = Top.stack
    BY <1>0, ConfigReaderAssumption DEF Frame
  <2>2. /\ Len(frames') = Len(frames) /\ Top'.stack = Top.stack
        /\ \A k \in 1 .. (Len(frames) - 1) : frames'[k] = frames[k]
        /\ pending' = pending /\ crossed' = crossed /\ ~Top.inLine
    BY <1>1, <2>1, SetTopType DEF ReadLine, histories
  <2>3. QED
    BY <2>2 DEF StackMatches, Paired
<1>2. CASE NextWord
  <2>1. Head(Top.line) \in Word /\ Tail(Top.line) \in Seq(Word) /\ Top.inLine
    BY <1>0, <1>2 DEF NextWord, Frame
  <2>2. /\ [Top EXCEPT !.line = Tail(@), !.fresh = FALSE] \in Frame
        /\ [Top EXCEPT !.line = Tail(@), !.fresh = FALSE].stack = Top.stack
        /\ [Top EXCEPT !.line = Tail(@), !.fresh = FALSE].inLine
        /\ ~[Top EXCEPT !.line = Tail(@), !.fresh = FALSE].fresh
    BY <1>0, <2>1 DEF Frame
  <2>3. /\ Len(frames') = Len(frames) /\ Top'.stack = Top.stack /\ Top'.inLine /\ ~Top'.fresh
        /\ \A k \in 1 .. (Len(frames) - 1) : frames'[k] = frames[k]
        /\ pending' = Append(pending, Head(Top.line)) /\ crossed' = crossed
    BY <1>2, <2>2, SetTopType DEF NextWord
  <2>4. Count(pending', End) = Count(pending, End)
    <3>1. Head(Top.line) \in Word \cup {End} /\ Head(Top.line) # End
      BY <2>1, ConfigReaderAssumption
    <3>2. Count(pending', End) = Count(pending, End) + IF Head(Top.line) = End THEN 1 ELSE 0
      BY <1>0, <2>3, <3>1, CountAppend
    <3>3. QED
      BY <1>0, <3>1, <3>2
  <2>5. QED
    BY <2>3, <2>4 DEF StackMatches, Paired
<1>3. CASE EndOfLine
  <2>1. LineEnded(Top) \in Frame /\ LineEnded(Top).stack = Top.stack
    BY <1>0 DEF LineEnded, Frame, Processor
  <2>2. /\ Len(frames') = Len(frames) /\ Top'.stack = Top.stack
        /\ \A k \in 1 .. (Len(frames) - 1) : frames'[k] = frames[k]
        /\ pending' = pending /\ crossed' = crossed
        /\ Top.fresh \/ pending = << >>
    BY <1>3, <2>1, SetTopType DEF EndOfLine, Drained
  <2>3. ~crossed => Top.stack = << >>
    <3>1. CASE Top.fresh
      BY <3>1 DEF StackMatches
    <3>2. CASE pending = << >>
      BY <1>0, <3>2, CountEmpty DEF StackMatches, Paired
    <3>3. QED
      BY <2>2, <3>1, <3>2
  <2>4. QED
    BY <2>2, <2>3 DEF StackMatches, Paired
<1>4. CASE EndOfFile
  <2>1. CASE UNCHANGED << frames, pending, crossed >>
    BY <2>1 DEF StackMatches, Paired, Top
  <2>2. CASE Len(frames) # 1
    <3>1. /\ Len(frames') = Len(frames) - 1 /\ Len(frames) - 1 \in 1 .. Len(frames)
          /\ frames[Len(frames) - 1] \in Frame
          /\ Top' = [frames[Len(frames) - 1] EXCEPT !.mandatory = LessOne(@)]
          /\ \A k \in 1 .. (Len(frames) - 2) : frames'[k] = frames[k]
      BY <1>4, <2>2, CallEnded
    <3>2. /\ Len(frames) - 1 \in 1 .. (Len(frames) - 1) /\ Len(frames') - 1 = Len(frames) - 2
          /\ \A k \in 1 .. (Len(frames) - 2) : k \in 1 .. (Len(frames) - 1)
      BY <1>0, <3>1
    <3>3. pending' = pending /\ crossed' = crossed /\ ~Top.inLine
      BY <1>4 DEF EndOfFile
    <3>4. ~crossed => frames[Len(frames) - 1].stack = << >>
      BY <3>2 DEF StackMatches, Paired
    <3>5. ~crossed => Top'.stack = << >>
      BY <3>1, <3>4 DEF Frame
    <3>6. ~crossed => \A k \in 1 .. (Len(frames') - 1) : frames'[k].stack = << >>
      BY <3>1, <3>2 DEF StackMatches, Paired
    <3>7. ~crossed => Count(pending, End) = 0
      <4>1. ~crossed => Top.stack = << >> /\ Len(Top.stack) = Count(pending, End)
        BY <3>3 DEF StackMatches, Paired
      <4>2. QED
        BY <4>1
    <3>8. QED
      BY <3>3, <3>5, <3>6, <3>7 DEF StackMatches, Paired
  <2>3. QED
    BY <1>4, <2>1, <2>2 DEF EndOfFile
<1>5. CASE MacroEnd
  <2>0. /\ Take /\ Token = End /\ crossed' = crossed
        /\ SetTop([Top EXCEPT !.stack = RemoveLast(@)])
    BY <1>5 DEF MacroEnd
  <2>1. /\ pending # << >> /\ pending' = Tail(pending) /\ Head(pending) = End
        /\ pending' \in Seq(Word \cup {End}) /\ Top.inLine /\ ~Top.fresh
    BY <2>0, TakeType DEF Token
  <2>2. Count(pending, End) = Count(pending', End) + 1 /\ Count(pending', End) \in Nat
    <3>1. Count(pending, End) = Count(pending', End) + IF Head(pending) = End THEN 1 ELSE 0
      BY <1>0, <2>1, CountTail
    <3>2. QED
      BY <2>1, <3>1, PlacesFinite
  <2>3. RemoveLast(Top.stack) \in Seq(Word)
    BY <1>0 DEF RemoveLast
  <2>4. ~crossed => Len(RemoveLast(Top.stack)) = Count(pending', End)
    <3> SUFFICES ASSUME ~crossed PROVE Len(RemoveLast(Top.stack)) = Count(pending', End)
      OBVIOUS
    <3>1. Len(Top.stack) = Count(pending', End) + 1
      BY <2>2 DEF StackMatches, Paired
    <3>2. Top.stack # << >> /\ Len(Top.stack) - 1 = Count(pending', End)
      BY <2>2, <3>1
    <3>3. Len(SubSeq(Top.stack, 1, Len(Top.stack) - 1)) = Len(Top.stack) - 1
      BY <1>0, <3>2
    <3>4. QED
      BY <3>2, <3>3 DEF RemoveLast
  <2>5. /\ [Top EXCEPT !.stack = RemoveLast(@)] \in Frame
        /\ [Top EXCEPT !.stack = RemoveLast(@)].stack = RemoveLast(Top.stack)
        /\ [Top EXCEPT !.stack = RemoveLast(@)].inLine
        /\ ~[Top EXCEPT !.stack = RemoveLast(@)].fresh
    BY <1>0, <2>1, <2>3 DEF Frame
  <2>6. /\ Len(frames') = Len(frames) /\ Top'.stack = RemoveLast(Top.stack) /\ Top'.inLine /\ ~Top'.fresh
        /\ \A k \in 1 .. (Len(frames) - 1) : frames'[k] = frames[k]
    BY <2>0, <2>5, SetTopType
  <2>7. QED
    BY <2>0, <2>4, <2>6 DEF StackMatches, Paired
<1>6. ASSUME Take, Token # End, NEW row \in Row, StartCommand(row) PROVE StackMatches'
  <2>1. row.processor \in Processor /\ row.parameters \in Nat /\ Top.inLine /\ ~Top.fresh
    BY <1>6, TakeType DEF Row
  <2> DEFINE frame == [Top EXCEPT !.command = row.processor, !.mandatory = row.parameters,
                                  !.current = row]
  <2>2. frame \in Frame /\ frame.stack = Top.stack /\ frame.inLine /\ ~frame.fresh
    BY <1>0, <2>1 DEF Frame
  <2>3. SetTop(frame) /\ crossed' = crossed
    BY <1>6 DEF StartCommand
  <2> HIDE DEF frame
  <2>4. QED
    BY <1>6, <2>2, <2>3, SameStack
<1>7. CASE DoCommand
  BY <1>6, <1>7, CodeTableType, CommandsInTable DEF DoCommand, LookedUp
<1>8. CASE DoDay
  <2>1. Top.current \in Row
    BY <1>0 DEF Frame
  <2>2. QED
    BY <1>6, <1>8, <2>1 DEF DoDay, LookedUp
<1>9. CASE DoOwnMacro \/ Circular
  <2>1. Take /\ Token # End /\ crossed' = crossed /\ Top.inLine /\ ~Top.fresh
    BY <1>9, TakeType DEF DoOwnMacro, Circular, IsMacro, LookedUp
  <2> DEFINE frame == [Top EXCEPT !.current = Current]
  <2>2. frame \in Frame /\ frame.stack = Top.stack /\ frame.inLine /\ ~frame.fresh
    BY <1>0, <2>1 DEF Frame
  <2>3. SetTop(frame) \/ UNCHANGED frames
    BY <1>9 DEF DoOwnMacro, Circular, Fatal
  <2> HIDE DEF frame
  <2>4. QED
    BY <2>1, <2>2, <2>3, SameStack, SameCalls
<1>10. CASE Expand
  <2>1. Token \in Names /\ Token # End /\ Top.inLine /\ ~Top.fresh /\ pending # << >>
    BY <1>10 DEF Expand, IsMacro, LookedUp, Working, Drained
  <2>2. Token \in Word /\ Body(Token) \in Seq(Word)
    <3>1. PICK k \in DOMAIN macros : macros[k].name = Token
      BY <2>1 DEF Names
    <3>2. macros[k] \in Macro
      BY ElementType DEF ReaderTypeOK
    <3>3. QED
      BY <2>1, <3>1, <3>2, BodyType DEF Macro
  <2>3. Append(Top.stack, Token) \in Seq(Word) /\ Len(Append(Top.stack, Token)) = Len(Top.stack) + 1
    BY <1>0, <2>2
  <2> DEFINE frame == [Top EXCEPT !.current = Current, !.stack = Append(@, Token)]
  <2>4. frame \in Frame /\ frame.stack = Append(Top.stack, Token) /\ frame.inLine /\ ~frame.fresh
    BY <1>0, <2>1, <2>3 DEF Frame
  <2>5. SetTop(frame) /\ crossed' = crossed /\ pending' = Spliced(Body(Token), Tail(pending))
    BY <1>10 DEF Expand
  <2> HIDE DEF frame
  <2>6. /\ Len(frames') = Len(frames) /\ Top' = frame
        /\ \A k \in 1 .. (Len(frames) - 1) : frames'[k] = frames[k]
    BY <2>4, <2>5, SetTopType
  <2>7. Count(pending', End) = Count(pending, End) + 1
    <3>1. Tail(pending) \in Seq(Word \cup {End}) /\ Head(pending) # End
      BY <1>0, <2>1 DEF Token
    <3>2. Count(pending', End) = Count(Body(Token), End) + Count(Tail(pending), End) + 1
      BY <2>2, <2>5, <3>1, CountSpliced
    <3>3. Count(pending, End) = Count(Tail(pending), End) + IF Head(pending) = End THEN 1 ELSE 0
      BY <1>0, <2>1, CountTail
    <3>4. Count(Tail(pending), End) \in Nat
      BY <3>1, PlacesFinite
    <3>5. Count(Body(Token), End) = 0
      <4>1. Places(Body(Token), End) = {}
        BY <2>2, ConfigReaderAssumption DEF Places
      <4>2. QED
        BY <4>1, FS_EmptySet DEF Count
    <3>6. QED
      BY <3>1, <3>2, <3>3, <3>4, <3>5
  <2>8. QED
    BY <1>0, <2>3, <2>4, <2>5, <2>6, <2>7 DEF StackMatches, Paired
<1>11. ASSUME Take, Token # End, crossed' = crossed, NEW n \in {0, 1}, ParameterDone(n)
       PROVE  StackMatches'
  <2>1. LessOne(Top.mandatory + n) \in Nat /\ Top.inLine /\ ~Top.fresh
    BY <1>0, <1>11, TakeType DEF LessOne, Frame
  <2> DEFINE frame == [Top EXCEPT !.current = Current, !.mandatory = LessOne(@ + n)]
  <2>2. frame \in Frame /\ frame.stack = Top.stack /\ frame.inLine /\ ~frame.fresh
    BY <1>0, <2>1 DEF Frame
  <2>3. SetTop(frame)
    BY <1>11 DEF ParameterDone
  <2> HIDE DEF frame
  <2>4. QED
    BY <1>11, <2>2, <2>3, SameStack
<1>12. CASE PlainParameter \/ Define
  BY <1>11, <1>12 DEF PlainParameter, Define, IsParameter
<1>13. CASE Include
  <2>1. /\ Take /\ Token # End /\ Top.inLine /\ ~Top.fresh
        /\ crossed' = (crossed \/ Top.stack # << >>)
    BY <1>13, TakeType DEF Include, IsParameter
  <2>2. CASE crossed'
    BY <2>2 DEF StackMatches
  <2>3. CASE ~crossed' /\ UNCHANGED frames
    <3>1. crossed' = crossed
      BY <2>1, <2>3 DEF ReaderTypeOK
    <3>2. QED
      BY <2>1, <2>3, <3>1, SameCalls
  <2>4. CASE ~crossed' /\ frames' = Append([frames EXCEPT ![Len(frames)].current = Current], NewFrame)
    <3>1. Top.stack = << >> /\ ~crossed
      BY <2>1, <2>4
    <3>2. [Top EXCEPT !.current = Current].stack = << >>
      BY <1>0, <3>1 DEF Frame
    <3>3. /\ Len(frames') = Len(frames) + 1 /\ Top' = NewFrame
          /\ frames'[Len(frames)] = [Top EXCEPT !.current = Current]
          /\ \A k \in 1 .. (Len(frames) - 1) : frames'[k] = frames[k]
      BY <2>4, CallAdded
    <3>4. \A k \in 1 .. (Len(frames') - 1) : k \in 1 .. (Len(frames) - 1) \/ k = Len(frames)
      BY <1>0, <3>3
    <3>5. \A k \in 1 .. (Len(frames) - 1) : frames[k].stack = << >>
      BY <3>1 DEF StackMatches, Paired
    <3>6. \A k \in 1 .. (Len(frames') - 1) : frames'[k].stack = << >>
      BY <3>2, <3>3, <3>4, <3>5
    <3>7. Top'.stack = << >>
      BY <3>3 DEF NewFrame
    <3>8. Count(pending', End) = 0
      <4>1. /\ pending # << >> /\ pending' = Tail(pending) /\ Head(pending) # End
            /\ pending' \in Seq(Word \cup {End})
        BY <2>1, TakeType DEF Token
      <4>2. Count(pending, End) = Count(pending', End) + IF Head(pending) = End THEN 1 ELSE 0
        BY <1>0, <4>1, CountTail
      <4>3. Count(pending, End) = 0
        <5>1. Len(Top.stack) = Count(pending, End)
          BY <3>1 DEF StackMatches, Paired
        <5>2. QED
          BY <3>1, <5>1
      <4>4. Count(pending', End) \in Nat
        BY <4>1, PlacesFinite
      <4>5. QED
        BY <4>1, <4>2, <4>3, <4>4
    <3>9. QED
      BY <3>6, <3>7, <3>8 DEF StackMatches, Paired
  <2>5. QED
    BY <1>13, <2>2, <2>3, <2>4 DEF Include, Fatal
<1>14. CASE UNCHANGED readerVars
  BY <1>14 DEF readerVars, histories, StackMatches, Paired, Top
<1>15. QED
  BY <1>1, <1>2, <1>3, <1>4, <1>5, <1>7, <1>8, <1>9, <1>10, <1>12, <1>13, <1>14
     DEF ReaderNext, ReadRouteFile

LEMMA StackMatchesInit == ReaderInit => BetweenLines /\ StackMatches
<1> SUFFICES ASSUME ReaderInit PROVE BetweenLines /\ StackMatches
  OBVIOUS
<1>1. frames = << NewFrame >> /\ ~eolEnds /\ pending = << >>
  BY DEF ReaderInit
<1>2. Len(frames) = 1 /\ Top = NewFrame /\ NewFrame.stack = << >>
  BY <1>1 DEF Top, NewFrame
<1>3. Count(pending, End) = 0
  BY <1>1, CountEmpty
<1>4. QED
  BY <1>1, <1>2, <1>3 DEF BetweenLines, StackMatches, Paired

\* A macro that has been worked off can be used again: MacrosReusable, for any macros however
\* they are nested, as long as none of them includes a file.
THEOREM MacrosWorkedOff == ReaderSpec => []MacrosReusable
<1> DEFINE IInv == ReaderTypeOK /\ BetweenLines /\ StackMatches
<1>1. ReaderInit => IInv
  BY ReaderTypeInit, StackMatchesInit
<1>2. IInv /\ [ReaderNext]_readerVars => IInv'
  BY ReaderTypeNext, BetweenLinesNext, StackMatchesNext
<1>3. IInv => MacrosReusable
  <2> SUFFICES ASSUME ReaderTypeOK, StackMatches, ~crossed, pending = << >>, NEW k \in DOMAIN frames
               PROVE  frames[k].stack = << >>
    BY DEF MacrosReusable
  <2>1. frames \in Seq(Frame) /\ Len(frames) \in Nat /\ Top \in Frame
    BY TopType DEF ReaderTypeOK
  <2>2. k \in 1 .. (Len(frames) - 1) \/ k = Len(frames)
    BY <2>1
  <2>3. Len(Top.stack) = 0 /\ Top.stack \in Seq(Word)
    BY <2>1, CountEmpty DEF StackMatches, Paired, Frame
  <2>4. Top.stack = << >>
    BY <2>3
  <2>5. QED
    BY <2>2, <2>4 DEF StackMatches, Paired, Top
<1>4. QED
  BY <1>1, <1>2, <1>3, PTL DEF ReaderSpec

-----------------------------------------------------------------------------
(***************************************************************************)
(* The macros as they are written                                          *)
(***************************************************************************)
\* What MacrosAsWritten asks of the files.
Clean ==
  /\ ~(NamedTwice \/ StrayAfterDefine \/ CutShort \/ DayAfterLine \/ crossed)
  /\ \A k \in DOMAIN macros : "DEFINE" \notin Words(macros[k].body)

Written == \A k \in DOMAIN macros : \E i \in DOMAIN read : DefinedAt(k, i)

NoEnds ==
  \A k \in DOMAIN macros :
    macros[k].name # "ENDDEFINE" /\ "ENDDEFINE" \notin Words(macros[k].body)

\* The row of DEFINE stays in CurrentToken while its parameters are read, and after
\* that only where a line has ended them.
CallKnown(frame, ended) ==
  /\ frame.mandatory \in {0, 1}
  /\ frame.current.processor = "ProcParDefine" => ended \/ frame.command = "ProcParDefine"

CallsKnown ==
  /\ \A k \in 1 .. Len(frames) : CallKnown(frames[k], eolEnds)
  /\ \A k \in 1 .. (Len(frames) - 1) : frames[k].command = "ProcParInclude"

\* Nothing, or the word read last.
QueuePlain == pending = << >> \/ (read # << >> /\ pending = << read[Len(read)] >>)

\* What is in the queue has been read, a DEFINE just now; the words of a macro come
\* with their end, and are worked off before a line or a file ends.
QueueKnown ==
  /\ \A j \in 1 .. Len(pending) : pending[j] = End \/ \E i \in DOMAIN read : pending[j] = read[i]
  /\ QueuePlain \/ \A j \in 1 .. Len(pending) : pending[j] # "DEFINE"
  /\ Len(pending) <= 1 \/ pending[Len(pending)] = End
  /\ Top.fresh \/ ~Top.inLine => pending = << >>

\* The words handled, if nothing but words of the file is in the queue.
Place == Len(read) - Len(pending)

WrittenBefore(p) == \A k \in DOMAIN macros : \E i \in DOMAIN read : i < p /\ DefinedAt(k, i)

\* How far a definition has come.
DefinitionKnown ==
  /\ ~onNew => Top.command = "ProcParDefine" /\ Top.mandatory = 1
  /\ Top.command = "ProcParDefine" =>
       /\ QueuePlain /\ Place >= 1
       /\ Top.mandatory = 0 => read[Place] = "ENDDEFINE"
       /\ Top.mandatory = 1 /\ onNew => read[Place] = "DEFINE" /\ WrittenBefore(Place)
       /\ ~onNew =>
            \E i \in DOMAIN read :
              DefinedAt(Len(macros), i) /\ Place = i + 1 + Len(macros[Len(macros)].body)

Known == CallsKnown /\ QueueKnown /\ DefinitionKnown

MacroInv == Clean => Written /\ NoEnds /\ (outcome = "reading" => Known)

TextOK == read \in Seq(Word) /\ \A e \in ends : e[1] \in Nat /\ e[1] <= Len(read)

\* What no step takes back.
TextGrows ==
  /\ TextOK /\ TextOK' /\ Len(read) <= Len(read')
  /\ \A i \in 1 .. Len(read) : read'[i] = read[i]
  /\ ends \subseteq ends' /\ (eolEnds => eolEnds') /\ (crossed => crossed')

LEMMA TextGrowing ==
  ASSUME ReaderTypeOK, TextOK, [ReaderNext]_readerVars
  PROVE  TextGrows
<1>0. read \in Seq(Word) /\ Len(read) \in Nat /\ \A e \in ends : e[1] \in Nat /\ e[1] <= Len(read)
  BY DEF TextOK
<1>1. CASE NextWord
  <2>1. Top.line \in Seq(Word) /\ Top.line # << >>
    BY <1>1, TopType DEF NextWord, Frame
  <2>2. Head(Top.line) \in Word
    BY <2>1
  <2>3. read' = Append(read, Head(Top.line))
    BY <1>1 DEF NextWord
  <2>4. /\ read' \in Seq(Word) /\ Len(read') = Len(read) + 1
        /\ \A i \in 1 .. Len(read) : read'[i] = read[i]
    BY <1>0, <2>2, <2>3
  <2>5. ends' = ends /\ eolEnds' = eolEnds /\ crossed' = crossed
    BY <1>1 DEF NextWord
  <2>6. TextOK'
    BY <1>0, <2>4, <2>5 DEF TextOK
  <2>7. QED
    BY <1>0, <2>4, <2>5, <2>6 DEF TextGrows
<1>2. ASSUME read' = read, ends \subseteq ends', eolEnds => eolEnds', crossed => crossed',
             \A e \in ends' : e \in ends \/ e[1] = Len(read)
      PROVE  TextGrows
  BY <1>0, <1>2 DEF TextOK, TextGrows
<1>3. ASSUME read' = read, ends' = ends, eolEnds => eolEnds', crossed => crossed' PROVE TextGrows
  BY <1>2, <1>3
<1>4. CASE EndOfLine
  BY <1>2, <1>4 DEF EndOfLine
<1>5. CASE EndOfFile
  BY <1>2, <1>5 DEF EndOfFile
<1>6. CASE DoCommand \/ DoDay
  BY <1>3, <1>6 DEF DoCommand, DoDay, StartCommand, Take
<1>7. CASE MacroEnd \/ PlainParameter \/ Define \/ Expand
  BY <1>3, <1>7 DEF MacroEnd, PlainParameter, Define, Expand, Take
<1>8. CASE DoOwnMacro \/ Circular \/ Include
  BY <1>3, <1>8 DEF DoOwnMacro, Circular, Include, Fatal, Take
<1>9. ASSUME NEW l \in Line, ReadLine(l) PROVE TextGrows
  BY <1>3, <1>9 DEF ReadLine, histories
<1>10. CASE UNCHANGED readerVars
  BY <1>3, <1>10 DEF readerVars, histories
<1>11. QED
  BY <1>1, <1>4, <1>5, <1>6, <1>7, <1>8, <1>9, <1>10 DEF ReaderNext, ReadRouteFile

\* A step of MacroHandler adds words and macros.
MacrosGrow ==
  \A k \in DOMAIN macros :
    /\ k \in DOMAIN macros' /\ macros'[k].name = macros[k].name
    /\ Len(macros[k].body) <= Len(macros'[k].body)
    /\ \A m \in 1 .. Len(macros[k].body) : macros'[k].body[m] = macros[k].body[m]

LEMMA MacrosType ==
  ASSUME ReaderTypeOK, NEW k \in DOMAIN macros
  PROVE  macros[k] \in Macro /\ macros[k].name \in Word /\ macros[k].body \in Seq(Word)
<1>1. macros[k] \in Macro
  BY ElementType DEF ReaderTypeOK
<1>2. QED
  BY <1>1 DEF Macro

\* One more word for the last macro.
LEMMA WordAdded ==
  ASSUME ReaderTypeOK, NEW w \in Word, w # "ENDDEFINE", ~onNew, AddToMacros(w)
  PROVE  /\ Len(macros) \in DOMAIN macros /\ DOMAIN macros' = DOMAIN macros
         /\ Len(macros') = Len(macros) /\ onNew' = onNew
         /\ macros'[Len(macros)].name = macros[Len(macros)].name
         /\ macros'[Len(macros)].body = Append(macros[Len(macros)].body, w)
         /\ \A k \in DOMAIN macros : k # Len(macros) => macros'[k] = macros[k]
<1>1. macros \in Seq(Macro) /\ macros # << >>
  BY DEF ReaderTypeOK
<1>2. Len(macros) \in 1 .. Len(macros) /\ DOMAIN macros = 1 .. Len(macros)
  BY <1>1
<1>3. /\ macros' = [macros EXCEPT ![Len(macros)] =
                      [macros[Len(macros)] EXCEPT !.body = Append(@, w)]]
      /\ onNew' = onNew
  BY DEF AddToMacros
<1>4. [macros[Len(macros)] EXCEPT !.body = Append(@, w)] \in Macro
  <2>1. macros[Len(macros)] \in Macro
    BY <1>2, MacrosType
  <2>2. QED
    BY <2>1 DEF Macro
<1>5. /\ macros' \in Seq(Macro) /\ Len(macros') = Len(macros)
      /\ macros'[Len(macros)] = [macros[Len(macros)] EXCEPT !.body = Append(@, w)]
      /\ \A k \in 1 .. Len(macros) : k # Len(macros) => macros'[k] = macros[k]
  BY <1>1, <1>2, <1>3, <1>4, Replaced
<1>6. /\ macros'[Len(macros)].name = macros[Len(macros)].name
      /\ macros'[Len(macros)].body = Append(macros[Len(macros)].body, w)
  BY <1>2, <1>5, MacrosType DEF Macro
<1>7. DOMAIN macros' = DOMAIN macros
  BY <1>2, <1>5
<1>8. QED
  BY <1>2, <1>3, <1>5, <1>6, <1>7

\* One more macro.
LEMMA NameAdded ==
  ASSUME ReaderTypeOK, NEW w \in Word, w # "ENDDEFINE", onNew, w \notin Names, AddToMacros(w)
  PROVE  /\ DOMAIN macros = 1 .. Len(macros) /\ DOMAIN macros' = 1 .. (Len(macros) + 1)
         /\ Len(macros') = Len(macros) + 1 /\ Len(macros) \in Nat /\ onNew' = FALSE
         /\ macros'[Len(macros) + 1] = [name |-> w, body |-> << >>]
         /\ \A k \in DOMAIN macros : macros'[k] = macros[k]
<1> DEFINE new == [name |-> w, body |-> << >>]
<1>1. macros \in Seq(Macro)
  BY DEF ReaderTypeOK
<1>2. new \in Macro
  <2>1. << >> \in Seq(Word)
    OBVIOUS
  <2>2. QED
    BY <2>1 DEF Macro
<1>3. macros' = Append(macros, new) /\ onNew' = FALSE
  BY DEF AddToMacros
<1> HIDE DEF new
<1>4. /\ Len(macros') = Len(macros) + 1 /\ Len(macros) \in Nat
      /\ DOMAIN macros = 1 .. Len(macros) /\ DOMAIN macros' = 1 .. (Len(macros) + 1)
      /\ macros'[Len(macros) + 1] = new
      /\ \A k \in 1 .. Len(macros) : macros'[k] = macros[k]
  BY <1>1, <1>2, <1>3
<1>5. QED
  BY <1>3, <1>4 DEF new

LEMMA MacrosGrowing ==
  ASSUME ReaderTypeOK, [ReaderNext]_readerVars
  PROVE  MacrosGrow
<1>0. \A k \in DOMAIN macros : Len(macros[k].body) \in Nat
  BY MacrosType
<1>1. CASE macros' = macros
  BY <1>0, <1>1 DEF MacrosGrow
<1>2. CASE Define
  <2>1. Token \in Word /\ AddToMacros(Token)
    BY <1>2, TakeType DEF Define, IsParameter
  <2>2. CASE Token # "ENDDEFINE" /\ ~onNew
    <3>1. ASSUME NEW k \in DOMAIN macros, k = Len(macros)
          PROVE  /\ Len(macros[k].body) <= Len(macros'[k].body)
                 /\ \A m \in 1 .. Len(macros[k].body) : macros'[k].body[m] = macros[k].body[m]
      <4>1. macros'[k].body = Append(macros[k].body, Token) /\ macros[k].body \in Seq(Word)
        BY <2>1, <2>2, <3>1, WordAdded, MacrosType
      <4>2. QED
        BY <2>1, <4>1
    <3>2. \A k \in DOMAIN macros : k \in DOMAIN macros' /\ macros'[k].name = macros[k].name
      BY <2>1, <2>2, WordAdded
    <3>3. ASSUME NEW k \in DOMAIN macros, k # Len(macros)
          PROVE  /\ Len(macros[k].body) <= Len(macros'[k].body)
                 /\ \A m \in 1 .. Len(macros[k].body) : macros'[k].body[m] = macros[k].body[m]
      <4>1. macros'[k] = macros[k]
        BY <2>1, <2>2, <3>3, WordAdded
      <4>2. QED
        BY <1>0, <4>1
    <3>4. QED
      BY <3>1, <3>2, <3>3 DEF MacrosGrow
  <2>3. CASE Token # "ENDDEFINE" /\ onNew /\ Token \notin Names
    <3>0. /\ DOMAIN macros = 1 .. Len(macros) /\ DOMAIN macros' = 1 .. (Len(macros) + 1)
          /\ Len(macros) \in Nat /\ \A k \in DOMAIN macros : macros'[k] = macros[k]
      BY <2>1, <2>3, NameAdded
    <3>1. \A k \in DOMAIN macros : k \in DOMAIN macros' /\ macros'[k] = macros[k]
      BY <3>0
    <3>2. QED
      BY <1>0, <3>1 DEF MacrosGrow
  <2>4. CASE Token = "ENDDEFINE" \/ (onNew /\ Token \in Names)
    BY <1>1, <2>1, <2>4 DEF AddToMacros
  <2>5. QED
    BY <2>2, <2>3, <2>4
<1>3. CASE NextWord \/ EndOfLine \/ EndOfFile \/ MacroEnd \/ Expand \/ PlainParameter
  BY <1>1, <1>3 DEF NextWord, EndOfLine, EndOfFile, MacroEnd, Expand, PlainParameter
<1>4. CASE DoCommand \/ DoDay
  BY <1>1, <1>4 DEF DoCommand, DoDay, StartCommand
<1>5. CASE DoOwnMacro \/ Circular \/ Include
  BY <1>1, <1>5 DEF DoOwnMacro, Circular, Include, Fatal
<1>6. CASE (\E l \in Line : ReadLine(l)) \/ UNCHANGED readerVars
  BY <1>1, <1>6 DEF ReadLine, readerVars
<1>7. QED
  BY <1>2, <1>3, <1>4, <1>5, <1>6 DEF ReaderNext, ReadRouteFile

\* Files that are as MacrosAsWritten asks now have been so before.
LEMMA CleanBefore ==
  ASSUME ReaderTypeOK, TextGrows, MacrosGrow, Clean'
  PROVE  Clean
<1>0. /\ Len(read) \in Nat /\ Len(read') \in Nat
      /\ DOMAIN read = 1 .. Len(read) /\ DOMAIN read' = 1 .. Len(read')
  BY DEF TextGrows, TextOK
<1>1. ASSUME NamedTwice PROVE FALSE
  <2>1. PICK i, j \in 1 .. (Len(read) - 1) :
          i < j /\ read[i] = "DEFINE" /\ read[j] = "DEFINE" /\ read[i + 1] = read[j + 1]
    BY <1>1 DEF NamedTwice
  <2>2. \A k \in 1 .. (Len(read) - 1) :
          k \in 1 .. (Len(read') - 1) /\ k \in 1 .. Len(read) /\ k + 1 \in 1 .. Len(read)
    BY <1>0 DEF TextGrows
  <2>3. NamedTwice'
    BY <2>1, <2>2 DEF NamedTwice, TextGrows
  <2>4. QED
    BY <2>3 DEF Clean
<1>2. ASSUME StrayAfterDefine PROVE FALSE
  <2>1. PICK i \in 1 .. (Len(read) - 1) : read[i] = "ENDDEFINE" /\ read[i + 1] \notin Command
    BY <1>2 DEF StrayAfterDefine
  <2>2. \A k \in 1 .. (Len(read) - 1) :
          k \in 1 .. (Len(read') - 1) /\ k \in 1 .. Len(read) /\ k + 1 \in 1 .. Len(read)
    BY <1>0 DEF TextGrows
  <2>3. StrayAfterDefine'
    BY <2>1, <2>2 DEF StrayAfterDefine, TextGrows
  <2>4. QED
    BY <2>3 DEF Clean
<1>3. ASSUME CutShort PROVE FALSE
  <2>1. PICK i \in DOMAIN read, e \in ends :
          /\ read[i] = "DEFINE" /\ e[2] = Eof /\ i <= e[1]
          /\ \A k \in i + 1 .. e[1] : read[k] # "ENDDEFINE"
    BY <1>3 DEF CutShort
  <2>2. i \in DOMAIN read' /\ e \in ends' /\ read'[i] = read[i] /\ e[1] \in Nat /\ e[1] <= Len(read)
    BY <1>0, <2>1 DEF TextGrows, TextOK
  <2>3. \A k \in i + 1 .. e[1] : k \in 1 .. Len(read)
    BY <1>0, <2>1, <2>2
  <2>4. \A k \in i + 1 .. e[1] : read'[k] # "ENDDEFINE"
    BY <2>1, <2>3 DEF TextGrows
  <2>5. CutShort'
    BY <2>1, <2>2, <2>4 DEF CutShort
  <2>6. QED
    BY <2>5 DEF Clean
<1>4. ASSUME DayAfterLine PROVE FALSE
  <2>1. PICK i \in DOMAIN read : read[i] \in Day
    BY <1>4 DEF DayAfterLine
  <2>2. i \in DOMAIN read' /\ read'[i] = read[i] /\ eolEnds'
    BY <1>0, <1>4, <2>1 DEF TextGrows, DayAfterLine
  <2>3. QED
    BY <2>1, <2>2 DEF Clean, DayAfterLine
<1>5. ~crossed
  BY DEF Clean, TextGrows
<1>6. ASSUME NEW k \in DOMAIN macros, "DEFINE" \in Words(macros[k].body) PROVE FALSE
  <2>1. /\ macros[k].body \in Seq(Word) /\ k \in DOMAIN macros'
        /\ \A m \in 1 .. Len(macros[k].body) : macros'[k].body[m] = macros[k].body[m]
        /\ Len(macros[k].body) <= Len(macros'[k].body)
    BY MacrosType DEF MacrosGrow
  <2>2. PICK m \in 1 .. Len(macros[k].body) : macros[k].body[m] = "DEFINE"
    BY <1>6, <2>1 DEF Words
  <2>3. m \in DOMAIN macros'[k].body
    BY <2>1, <2>2
  <2>4. QED
    BY <2>1, <2>2, <2>3 DEF Clean, Words
<1>7. QED
  BY <1>1, <1>2, <1>3, <1>4, <1>5, <1>6 DEF Clean

\* A macro keeps its place in the text.
LEMMA DefinedStays ==
  ASSUME ReaderTypeOK, TextGrows, NEW k \in DOMAIN macros, NEW i \in DOMAIN read, DefinedAt(k, i),
         macros'[k] = macros[k], k = Len(macros) /\ ~onNew => k = Len(macros') /\ ~onNew'
  PROVE  i \in DOMAIN read' /\ DefinedAt(k, i)'
<1> DEFINE last == i + 1 + Len(macros[k].body)
<1>0. /\ Len(read) \in Nat /\ Len(read') \in Nat /\ Len(read) <= Len(read')
      /\ DOMAIN read = 1 .. Len(read) /\ DOMAIN read' = 1 .. Len(read')
      /\ \A j \in 1 .. Len(read) : read'[j] = read[j]
  BY DEF TextGrows, TextOK
<1>1. /\ macros[k].body \in Seq(Word) /\ Len(macros[k].body) \in Nat
      /\ DOMAIN macros[k].body = 1 .. Len(macros[k].body)
  BY MacrosType
<1>2. /\ i \in 1 .. Len(read) /\ i + 1 \in 1 .. Len(read)
      /\ \A m \in 1 .. Len(macros[k].body) : i + 1 + m \in 1 .. Len(read)
      /\ last \in 1 .. Len(read)
  BY <1>0, <1>1 DEF DefinedAt
<1>3. /\ read'[i] = "DEFINE" /\ last <= Len(read') /\ read'[i + 1] = macros[k].name
      /\ \A m \in DOMAIN macros[k].body : read'[i + 1 + m] = macros[k].body[m]
  BY <1>0, <1>1, <1>2 DEF DefinedAt
<1>4. \/ k = Len(macros') /\ ~onNew'
      \/ last < Len(read') /\ read'[last + 1] = "ENDDEFINE"
      \/ eolEnds' /\ << last, Eol >> \in ends'
  <2>1. CASE k = Len(macros) /\ ~onNew
    BY <2>1
  <2>2. CASE last < Len(read) /\ read[last + 1] = "ENDDEFINE"
    <3>1. last + 1 \in 1 .. Len(read) /\ last < Len(read')
      BY <1>0, <1>2, <2>2
    <3>2. QED
      BY <1>0, <2>2, <3>1
  <2>3. CASE eolEnds /\ << last, Eol >> \in ends
    BY <2>3 DEF TextGrows
  <2>4. QED
    BY <2>1, <2>2, <2>3 DEF DefinedAt
<1>5. DefinedAt(k, i)'
  BY <1>3, <1>4 DEF DefinedAt
<1>6. QED
  BY <1>0, <1>2, <1>5

LEMMA WrittenStays ==
  ASSUME ReaderTypeOK, TextGrows, Written, NoEnds, UNCHANGED << macros, onNew >>
  PROVE  Written' /\ NoEnds'
<1>1. ASSUME NEW k \in DOMAIN macros' PROVE \E i \in DOMAIN read' : DefinedAt(k, i)'
  <2>1. PICK i \in DOMAIN read : DefinedAt(k, i)
    BY DEF Written
  <2>2. i \in DOMAIN read' /\ DefinedAt(k, i)'
    BY <2>1, DefinedStays
  <2>3. QED
    BY <2>2
<1>2. QED
  BY <1>1 DEF Written, NoEnds, Words

\* The calls, when the innermost one goes on.
LEMMA CallsSet ==
  ASSUME ReaderTypeOK, CallsKnown, NEW frame \in Frame, SetTop(frame), eolEnds => eolEnds',
         CallKnown(frame, eolEnds')
  PROVE  CallsKnown'
<1>1. /\ Len(frames') = Len(frames) /\ Top' = frame
      /\ \A k \in 1 .. (Len(frames) - 1) : frames'[k] = frames[k]
  BY SetTopType
<1>2. frames'[Len(frames)] = frame
  BY <1>1 DEF Top
<1>3. \A k \in 1 .. Len(frames) : k \in 1 .. (Len(frames) - 1) \/ k = Len(frames)
  BY DEF ReaderTypeOK
<1>4. ASSUME NEW k \in 1 .. (Len(frames) - 1) PROVE CallKnown(frames'[k], eolEnds')
  <2>1. k \in 1 .. Len(frames)
    BY DEF ReaderTypeOK
  <2>2. CallKnown(frames[k], eolEnds) /\ frames'[k] = frames[k]
    BY <1>1, <2>1 DEF CallsKnown
  <2>3. QED
    BY <2>2 DEF CallKnown
<1>5. \A k \in 1 .. Len(frames') : CallKnown(frames'[k], eolEnds')
  BY <1>1, <1>2, <1>3, <1>4 DEF CallKnown
<1>6. \A k \in 1 .. (Len(frames') - 1) : frames'[k].command = "ProcParInclude"
  BY <1>1 DEF CallsKnown
<1>7. QED
  BY <1>5, <1>6 DEF CallsKnown

LEMMA TopKnown == ReaderTypeOK /\ CallsKnown => CallKnown(Top, eolEnds)
<1> SUFFICES ASSUME ReaderTypeOK, CallsKnown PROVE CallKnown(Top, eolEnds)
  OBVIOUS
<1>1. Len(frames) \in 1 .. Len(frames)
  BY DEF ReaderTypeOK
<1>2. QED
  BY <1>1 DEF CallsKnown, Top

\* The queue without its first token.
LEMMA QueueTaken ==
  ASSUME ReaderTypeOK, TextOK, QueueKnown, Take, Top'.inLine, ~Top'.fresh
  PROVE  QueueKnown' /\ (QueuePlain => pending' = << >>)
<1>1. /\ pending \in Seq(Word \cup {End}) /\ pending # << >> /\ pending' = Tail(pending)
      /\ pending' \in Seq(Word \cup {End}) /\ read' = read
  BY TakeType DEF Take
<1>2. /\ Len(pending) \in Nat \ {0} /\ Len(pending') = Len(pending) - 1
      /\ \A j \in 1 .. Len(pending') : j + 1 \in 1 .. Len(pending) /\ pending'[j] = pending[j + 1]
  BY <1>1
<1>3. QueuePlain => pending' = << >>
  BY <1>1 DEF QueuePlain
<1>4. Len(pending') <= 1 \/ pending'[Len(pending')] = End
  <2>1. CASE Len(pending') > 1
    <3>1. Len(pending') \in 1 .. Len(pending') /\ Len(pending') + 1 = Len(pending) /\ Len(pending) > 1
      BY <1>2, <2>1
    <3>2. QED
      BY <1>2, <3>1 DEF QueueKnown
  <2>2. QED
    BY <1>2, <2>1
<1>5. \A j \in 1 .. Len(pending') : pending'[j] = End \/ \E i \in DOMAIN read' : pending'[j] = read'[i]
  BY <1>1, <1>2 DEF QueueKnown
<1>6. QueuePlain' \/ \A j \in 1 .. Len(pending') : pending'[j] # "DEFINE"
  BY <1>2, <1>3 DEF QueueKnown, QueuePlain
<1>7. QED
  BY <1>3, <1>4, <1>5, <1>6 DEF QueueKnown

\* A token of a definition is the word read last, and after ENDDEFINE it is a command.
LEMMA DefinitionToken ==
  ASSUME ReaderTypeOK, TextOK, Clean, Known, Working, Top.command = "ProcParDefine"
  PROVE  /\ pending = << Token >> /\ Token \in Word /\ Token # End
         /\ Len(read) \in 2 .. Len(read) /\ Token = read[Len(read)] /\ Place = Len(read) - 1
         /\ Top.mandatory = 0 => Token \in Command
<1>1. pending # << >> /\ read \in Seq(Word) /\ Len(read) \in Nat
  BY DEF Working, Drained, TextOK
<1>2. read # << >> /\ pending = << read[Len(read)] >>
  BY <1>1 DEF Known, DefinitionKnown, QueuePlain
<1>3. Token = read[Len(read)] /\ Len(pending) = 1
  BY <1>2 DEF Token
<1>4. Place = Len(read) - 1 /\ Place >= 1
  BY <1>1, <1>3 DEF Known, DefinitionKnown, Place
<1>5. Token \in Word /\ Token # End
  BY <1>1, <1>2, <1>3, ConfigReaderAssumption
<1>6. Len(read) \in 2 .. Len(read) /\ Place \in 1 .. (Len(read) - 1) /\ Place + 1 = Len(read)
  BY <1>1, <1>4
<1>7. ASSUME Top.mandatory = 0 PROVE Token \in Command
  <2>1. read[Place] = "ENDDEFINE"
    BY <1>7 DEF Known, DefinitionKnown
  <2>2. QED
    BY <1>3, <1>6, <2>1 DEF Clean, StrayAfterDefine
<1>8. QED
  BY <1>2, <1>3, <1>4, <1>5, <1>6, <1>7

\* Only DEFINE has the row of DEFINE.
LEMMA RowOfDefine ==
  \A w \in DOMAIN CodeTable :
    CodeTable[w].processor = "ProcParDefine" =>
      w = "DEFINE" /\ w \in Command /\ CodeTable[w].parameters = 1 /\ CodeTable[w].initiator = "none"
BY DEF CodeTable, CodeOf, Command

LEMMA CurrentKnown ==
  ASSUME Token \notin Command \/ ~LookedUp, Current.processor = "ProcParDefine"
  PROVE  Top.current.processor = "ProcParDefine"
BY RowOfDefine DEF Current

\* A step of a command other than DEFINE.
LEMMA OutsideStep ==
  ASSUME ReaderTypeOK, TextOK, Known, Take, NEW frame \in Frame, SetTop(frame),
         frame.inLine, ~frame.fresh, frame.command # "ProcParDefine", onNew, UNCHANGED onNew,
         eolEnds => eolEnds', CallKnown(frame, eolEnds')
  PROVE  Known'
<1>1. Top' = frame
  BY SetTopType
<1>2. CallsKnown'
  BY CallsSet DEF Known
<1>3. QueueKnown'
  BY <1>1, QueueTaken DEF Known
<1>4. DefinitionKnown'
  BY <1>1 DEF DefinitionKnown
<1>5. QED
  BY <1>2, <1>3, <1>4 DEF Known

LEMMA DefinitionStays ==
  ASSUME DefinitionKnown, UNCHANGED << read, ends, macros, onNew, eolEnds, pending >>,
         Top'.command = Top.command, Top'.mandatory = Top.mandatory
  PROVE  DefinitionKnown'
BY DEF DefinitionKnown, DefinedAt, QueuePlain, Place, WrittenBefore

\* One more word read, or one more end of a line.
LEMMA DefinitionGoesOn ==
  ASSUME ReaderTypeOK, TextGrows, DefinitionKnown, UNCHANGED << macros, onNew >>, pending = << >>,
         Top'.command = Top.command, Top'.mandatory = Top.mandatory,
         QueuePlain', Place' = Place
  PROVE  DefinitionKnown'
<1>0. macros # << >> => Len(macros) \in DOMAIN macros
  BY DEF ReaderTypeOK
<1>1. ASSUME Top.command = "ProcParDefine" PROVE Place \in 1 .. Len(read) /\ read'[Place] = read[Place]
  <2>1. Len(read) \in Nat /\ Place = Len(read)
    BY DEF Place, TextGrows, TextOK
  <2>2. Place >= 1
    BY <1>1 DEF DefinitionKnown
  <2>3. Place \in 1 .. Len(read)
    BY <2>1, <2>2
  <2>4. QED
    BY <2>3 DEF TextGrows
<1>2. ASSUME Top.command = "ProcParDefine", ~onNew
      PROVE  \E i \in DOMAIN read' : DefinedAt(Len(macros), i)' /\ Place = i + 1 + Len(macros[Len(macros)].body)
  <2>1. PICK i \in DOMAIN read :
          DefinedAt(Len(macros), i) /\ Place = i + 1 + Len(macros[Len(macros)].body)
    BY <1>2 DEF DefinitionKnown
  <2>2. PICK k \in DOMAIN macros : k = Len(macros)
    BY <1>0, <1>2 DEF ReaderTypeOK
  <2>3. i \in DOMAIN read' /\ DefinedAt(k, i)'
    BY <2>1, <2>2, DefinedStays
  <2>4. DefinedAt(Len(macros), i)'
    BY <2>2, <2>3
  <2>5. QED
    BY <2>1, <2>3, <2>4
<1>3. Top'.command = "ProcParDefine" =>
        /\ QueuePlain' /\ Place' >= 1
        /\ Top'.mandatory = 0 => read'[Place'] = "ENDDEFINE"
        /\ Top'.mandatory = 1 /\ onNew' => read'[Place'] = "DEFINE"
  BY <1>1 DEF DefinitionKnown
<1>7. ASSUME NEW p, WrittenBefore(p), onNew PROVE WrittenBefore(p)'
  <2>1. ASSUME NEW k \in DOMAIN macros PROVE \E i \in DOMAIN read' : i < p /\ DefinedAt(k, i)'
    <3>1. PICK i \in DOMAIN read : i < p /\ DefinedAt(k, i)
      BY <1>7 DEF WrittenBefore
    <3>2. i \in DOMAIN read' /\ DefinedAt(k, i)'
      BY <1>7, <3>1, DefinedStays
    <3>3. QED
      BY <3>1, <3>2
  <2>2. QED
    BY <2>1 DEF WrittenBefore
<1>8. Top'.command = "ProcParDefine" /\ Top'.mandatory = 1 /\ onNew' => WrittenBefore(Place)'
  <2>1. PICK p : p = Place
    OBVIOUS
  <2>2. Top'.command = "ProcParDefine" /\ Top'.mandatory = 1 /\ onNew' => WrittenBefore(p)'
    BY <1>7, <2>1 DEF DefinitionKnown
  <2>3. QED
    BY <2>1, <2>2
<1>4. ASSUME Top'.command = "ProcParDefine", ~onNew'
      PROVE  (\E i \in DOMAIN read :
                DefinedAt(Len(macros), i) /\ Place = i + 1 + Len(macros[Len(macros)].body))'
  BY <1>2, <1>4
<1>5. ~onNew' => Top'.command = "ProcParDefine" /\ Top'.mandatory = 1
  BY DEF DefinitionKnown
<1>6. QED
  BY <1>3, <1>4, <1>5, <1>8 DEF DefinitionKnown

\* A line, a word and the end of a line.
LEMMA LineKnown ==
  ASSUME ReaderTypeOK, TextGrows, Known, NEW l \in Line, ReadLine(l)
  PROVE  Known'
<1>0. Top \in Frame /\ CallKnown(Top, eolEnds)
  BY TopType, TopKnown DEF Known
<1> DEFINE frame == [Top EXCEPT !.line = l, !.inLine = TRUE]
<1>1. /\ frame \in Frame /\ frame.command = Top.command /\ frame.mandatory = Top.mandatory
      /\ frame.current = Top.current /\ frame.fresh = Top.fresh
  BY <1>0, ConfigReaderAssumption DEF Frame
<1>2. SetTop(frame) /\ ~Top.inLine /\ UNCHANGED << read, ends, macros, onNew, eolEnds, pending >>
  BY DEF ReadLine, histories
<1> HIDE DEF frame
<1>3. Top' = frame
  BY <1>1, <1>2, SetTopType
<1>4. CallsKnown'
  <2>1. CallKnown(frame, eolEnds')
    BY <1>0, <1>1, <1>2 DEF CallKnown
  <2>2. QED
    BY <1>1, <1>2, <2>1, CallsSet DEF Known
<1>5. QueueKnown'
  BY <1>1, <1>2, <1>3 DEF Known, QueueKnown, QueuePlain
<1>6. DefinitionKnown'
  BY <1>1, <1>2, <1>3, DefinitionStays DEF Known
<1>7. QED
  BY <1>4, <1>5, <1>6 DEF Known

LEMMA WordKnown ==
  ASSUME ReaderTypeOK, TextGrows, Known, NextWord
  PROVE  Known'
<1>0. Top \in Frame /\ CallKnown(Top, eolEnds)
  BY TopType, TopKnown DEF Known
<1> DEFINE frame == [Top EXCEPT !.line = Tail(@), !.fresh = FALSE]
           w == Head(Top.line)
<1>1. w \in Word /\ Tail(Top.line) \in Seq(Word) /\ Top.inLine
  BY <1>0 DEF NextWord, Frame
<1>2. /\ frame \in Frame /\ frame.command = Top.command /\ frame.mandatory = Top.mandatory
      /\ frame.current = Top.current /\ ~frame.fresh /\ frame.inLine
  BY <1>0, <1>1 DEF Frame
<1>3. /\ SetTop(frame) /\ UNCHANGED << macros, onNew, eolEnds >>
      /\ pending' = Append(pending, w) /\ read' = Append(read, w) /\ Drained
  BY DEF NextWord
<1> HIDE DEF frame, w
<1>4. Top' = frame
  BY <1>2, <1>3, SetTopType
<1>5. pending = << >>
  BY <1>3 DEF Drained, Known, QueueKnown
<1>6. /\ pending' = << w >> /\ Len(pending') = 1 /\ pending'[1] = w
      /\ read \in Seq(Word) /\ Len(read') = Len(read) + 1 /\ Len(read) \in Nat
      /\ read'[Len(read')] = w /\ Len(read') \in DOMAIN read' /\ read' # << >>
  BY <1>1, <1>3, <1>5 DEF TextGrows, TextOK
<1>7. CallsKnown'
  <2>1. CallKnown(frame, eolEnds')
    BY <1>0, <1>2, <1>3 DEF CallKnown
  <2>2. QED
    BY <1>2, <1>3, <2>1, CallsSet DEF Known
<1>8. QueuePlain' /\ Place' = Place
  BY <1>5, <1>6 DEF QueuePlain, Place
<1>9. QueueKnown'
  <2>1. \A j \in 1 .. Len(pending') : pending'[j] = read'[Len(read')]
    BY <1>6
  <2>2. QED
    BY <1>2, <1>4, <1>6, <1>8, <2>1 DEF QueueKnown
<1>10. DefinitionKnown'
  BY <1>2, <1>3, <1>4, <1>5, <1>8, DefinitionGoesOn DEF Known
<1>11. QED
  BY <1>7, <1>9, <1>10 DEF Known

LEMMA EndOfLineKnown ==
  ASSUME ReaderTypeOK, TextGrows, Known, EndOfLine
  PROVE  Known'
<1>0. Top \in Frame /\ CallKnown(Top, eolEnds)
  BY TopType, TopKnown DEF Known
<1> DEFINE frame == LineEnded(Top)
<1>1. frame \in Frame /\ ~frame.inLine /\ frame.current = Top.current
  BY <1>0 DEF LineEnded, Frame, Processor
<1>2. eolEnds => frame.command = "none" /\ frame.mandatory = 0
  BY <1>0 DEF LineEnded, Frame
<1>3. ~eolEnds => frame.command = Top.command /\ frame.mandatory = Top.mandatory
  BY <1>0 DEF LineEnded, Frame
<1>4. /\ SetTop(frame) /\ UNCHANGED << macros, read, eolEnds, pending >>
      /\ onNew' = (onNew \/ eolEnds) /\ Drained
  BY DEF EndOfLine
<1> HIDE DEF frame
<1>5. Top' = frame
  BY <1>1, <1>4, SetTopType
<1>6. pending = << >>
  BY <1>4 DEF Drained, Known, QueueKnown
<1>7. CallsKnown'
  <2>1. CallKnown(frame, eolEnds')
    BY <1>0, <1>1, <1>2, <1>3, <1>4 DEF CallKnown
  <2>2. QED
    BY <1>1, <1>4, <2>1, CallsSet DEF Known
<1>8. QueuePlain' /\ Place' = Place
  BY <1>4, <1>6 DEF QueuePlain, Place
<1>9. QueueKnown'
  BY <1>4, <1>6, <1>8 DEF QueueKnown
<1>10. DefinitionKnown'
  <2>1. CASE eolEnds
    BY <1>2, <1>4, <1>5, <2>1 DEF DefinitionKnown
  <2>2. CASE ~eolEnds
    <3>1. onNew' = onNew
      BY <1>4, <2>2 DEF ReaderTypeOK
    <3>2. QED
      BY <1>3, <1>4, <1>5, <1>6, <1>8, <2>2, <3>1, DefinitionGoesOn DEF Known
  <2>3. QED
    BY <2>1, <2>2
<1>11. QED
  BY <1>7, <1>9, <1>10 DEF Known

\* A line that ends a definition is where the words of its macro end.
LEMMA EndOfLineWritten ==
  ASSUME ReaderTypeOK, TextGrows, Written, NoEnds, Known, EndOfLine
  PROVE  Written' /\ NoEnds'
<1>1. /\ UNCHANGED << macros, read, eolEnds >> /\ onNew' = (onNew \/ eolEnds) /\ Drained
      /\ ends' = ends \cup {<< Len(read), Eol >>}
  BY DEF EndOfLine
<1>2. CASE onNew' = onNew
  BY <1>1, <1>2, WrittenStays
<1>3. CASE ~onNew /\ eolEnds
  <2>1. pending = << >> /\ Place = Len(read)
    <3>1. pending = << >>
      BY <1>1 DEF Drained, Known, QueueKnown
    <3>2. QED
      BY <3>1 DEF Place, TextGrows, TextOK
  <2>2. PICK i \in DOMAIN read :
          DefinedAt(Len(macros), i) /\ Place = i + 1 + Len(macros[Len(macros)].body)
    BY <1>3 DEF Known, DefinitionKnown
  <2>3. DefinedAt(Len(macros), i)'
    BY <1>1, <1>3, <2>1, <2>2 DEF DefinedAt
  <2>4. ASSUME NEW k \in DOMAIN macros', k # Len(macros) PROVE \E j \in DOMAIN read' : DefinedAt(k, j)'
    <3>1. PICK j \in DOMAIN read : DefinedAt(k, j)
      BY <1>1 DEF Written
    <3>2. j \in DOMAIN read' /\ DefinedAt(k, j)'
      BY <1>1, <2>4, <3>1, DefinedStays
    <3>3. QED
      BY <3>2
  <2>5. Written'
    BY <1>1, <2>3, <2>4 DEF Written
  <2>6. QED
    BY <1>1, <2>5 DEF NoEnds, Words
<1>4. QED
  BY <1>1, <1>2, <1>3 DEF ReaderTypeOK

\* The end of an included file: no definition goes on behind it.
LEMMA EndOfFileKnown ==
  ASSUME ReaderTypeOK, TextGrows, Clean', NoEnds, Known, EndOfFile, outcome' = "reading"
  PROVE  Known'
<1>1. /\ Len(frames) # 1 /\ ~Top.inLine /\ ends' = ends \cup {<< Len(read), Eof >>}
      /\ UNCHANGED << read, macros, onNew, eolEnds, pending >>
  BY DEF EndOfFile
<1> DEFINE below == frames[Len(frames) - 1]
           frame == [below EXCEPT !.mandatory = LessOne(@)]
<1>2. /\ frames' \in Seq(Frame) /\ Len(frames') = Len(frames) - 1
      /\ Len(frames) - 1 \in 1 .. Len(frames) /\ below \in Frame /\ Top' = frame
      /\ \A k \in 1 .. (Len(frames) - 2) : frames'[k] = frames[k]
  BY <1>1, CallEnded
<1>3. /\ Len(frames) \in Nat /\ Len(frames) - 1 \in 1 .. (Len(frames) - 1)
      /\ \A k \in 1 .. (Len(frames) - 1) : k \in 1 .. Len(frames)
      /\ \A k \in 1 .. Len(frames') : k \in 1 .. (Len(frames) - 2) \/ k = Len(frames')
      /\ \A k \in 1 .. (Len(frames) - 2) : k \in 1 .. (Len(frames) - 1)
  BY <1>2 DEF ReaderTypeOK
<1>4. CallKnown(below, eolEnds) /\ below.command = "ProcParInclude"
  BY <1>2, <1>3 DEF Known, CallsKnown
<1>5. /\ frame.command = "ProcParInclude" /\ frame.current = below.current
      /\ frame.mandatory = LessOne(below.mandatory)
  BY <1>2, <1>4 DEF Frame
<1> HIDE DEF frame, below
<1>6. CallKnown(frame, eolEnds')
  BY <1>1, <1>4, <1>5 DEF CallKnown, LessOne
<1>7. CallsKnown'
  <2>1. \A k \in 1 .. (Len(frames) - 2) : CallKnown(frames'[k], eolEnds')
    BY <1>1, <1>2, <1>3 DEF Known, CallsKnown, CallKnown
  <2>2. frames'[Len(frames')] = frame
    BY <1>2 DEF Top
  <2>3. \A k \in 1 .. Len(frames') : CallKnown(frames'[k], eolEnds')
    BY <1>3, <1>6, <2>1, <2>2 DEF CallKnown
  <2>4. \A k \in 1 .. (Len(frames') - 1) : k \in 1 .. (Len(frames) - 2)
    BY <1>2, <1>3
  <2>5. \A k \in 1 .. (Len(frames') - 1) : frames'[k].command = "ProcParInclude"
    BY <1>2, <1>3, <2>4 DEF Known, CallsKnown
  <2>6. QED
    BY <2>3, <2>5 DEF CallsKnown
<1>8. pending = << >> /\ Place = Len(read)
  <2>1. pending = << >>
    BY <1>1 DEF Known, QueueKnown
  <2>2. QED
    BY <2>1 DEF Place, TextGrows, TextOK
<1>9. QueueKnown'
  BY <1>1, <1>8 DEF QueueKnown, QueuePlain
<1>10. onNew
  <2> SUFFICES ASSUME ~onNew PROVE FALSE
    OBVIOUS
  <2>1. PICK i \in DOMAIN read :
          DefinedAt(Len(macros), i) /\ Place = i + 1 + Len(macros[Len(macros)].body)
    BY DEF Known, DefinitionKnown
  <2>2. PICK k \in DOMAIN macros : k = Len(macros)
    BY DEF ReaderTypeOK
  <2>3. /\ macros[k].body \in Seq(Word) /\ macros[k].name # "ENDDEFINE"
        /\ "ENDDEFINE" \notin Words(macros[k].body) /\ Len(read) \in Nat /\ DOMAIN read = 1 .. Len(read)
    BY MacrosType DEF NoEnds, TextGrows, TextOK
  <2>4. /\ read[i] = "DEFINE" /\ read[i + 1] = macros[k].name
        /\ \A m \in DOMAIN macros[k].body : read[i + 1 + m] = macros[k].body[m]
        /\ Len(read) = i + 1 + Len(macros[k].body)
    BY <1>8, <2>1, <2>2 DEF DefinedAt
  <2>5. ASSUME NEW j \in (i + 1) .. Len(read) PROVE read[j] # "ENDDEFINE"
    <3>1. CASE j = i + 1
      BY <2>3, <2>4, <3>1
    <3>2. CASE j # i + 1
      <4>1. PICK m \in 1 .. Len(macros[k].body) : j = i + 1 + m
        <5>1. j - (i + 1) \in 1 .. Len(macros[k].body) /\ j = i + 1 + (j - (i + 1))
          BY <2>3, <2>4, <3>2
        <5>2. QED
          BY <5>1
      <4>2. m \in DOMAIN macros[k].body
        BY <2>3
      <4>3. read[j] = macros[k].body[m]
        BY <2>4, <4>1, <4>2
      <4>4. QED
        BY <2>3, <4>2, <4>3 DEF Words
    <3>3. QED
      BY <3>1, <3>2
  <2>6. << Len(read), Eof >> \in ends' /\ i <= Len(read)
    BY <1>1, <2>3
  <2>7. CutShort'
    <3> DEFINE e == << Len(read), Eof >>
    <3>1. e \in ends' /\ e[1] = Len(read) /\ e[2] = Eof
      BY <2>6
    <3> HIDE DEF e
    <3>2. \A j \in i + 1 .. e[1] : read[j] # "ENDDEFINE"
      BY <2>5, <3>1
    <3>3. QED
      BY <1>1, <2>4, <2>6, <3>1, <3>2 DEF CutShort
  <2>8. QED
    BY <2>7 DEF Clean
<1>11. DefinitionKnown'
  BY <1>1, <1>2, <1>5, <1>10 DEF DefinitionKnown
<1>12. QED
  BY <1>7, <1>9, <1>11 DEF Known

\* The tokens that are no words of a definition.
LEMMA MacroEndKnown ==
  ASSUME ReaderTypeOK, TextGrows, Clean, Known, MacroEnd
  PROVE  Known'
<1>0. Top \in Frame /\ CallKnown(Top, eolEnds) /\ TextOK
  BY TopType, TopKnown DEF Known, TextGrows
<1> DEFINE frame == [Top EXCEPT !.stack = RemoveLast(@)]
<1>1. Take /\ Token = End /\ SetTop(frame) /\ UNCHANGED << onNew, eolEnds >>
  BY DEF MacroEnd
<1>2. Working
  BY <1>1 DEF Take
<1>3. RemoveLast(Top.stack) \in Seq(Word) /\ Top.inLine /\ ~Top.fresh
  BY <1>0, <1>1, TakeType DEF RemoveLast, Frame
<1>4. /\ frame \in Frame /\ frame.inLine /\ ~frame.fresh /\ frame.command = Top.command
      /\ frame.mandatory = Top.mandatory /\ frame.current = Top.current
  BY <1>0, <1>3 DEF Frame
<1> HIDE DEF frame
<1>5. Top.command # "ProcParDefine"
  BY <1>0, <1>1, <1>2, DefinitionToken
<1>6. onNew
  BY <1>5 DEF Known, DefinitionKnown
<1>7. CallKnown(frame, eolEnds')
  BY <1>0, <1>1, <1>4 DEF CallKnown
<1>8. QED
  BY <1>0, <1>1, <1>4, <1>5, <1>6, <1>7, OutsideStep

LEMMA StartKnown ==
  ASSUME ReaderTypeOK, TextGrows, Known, Take, LookedUp, NEW row \in Row, StartCommand(row),
         row.processor # "ProcParDefine"
  PROVE  Known'
<1>0. Top \in Frame /\ TextOK
  BY TopType DEF TextGrows
<1> DEFINE frame == [Top EXCEPT !.command = row.processor, !.mandatory = row.parameters,
                                !.current = row]
<1>1. /\ SetTop(frame) /\ onNew' = onNew /\ (eolEnds => eolEnds')
  BY DEF StartCommand
<1>2. /\ row.processor \in Processor /\ row.parameters \in {0, 1} /\ row.parameters \in Nat
      /\ Top.inLine /\ ~Top.fresh
  BY TakeType DEF Row
<1>3. /\ frame \in Frame /\ frame.inLine /\ ~frame.fresh /\ frame.command = row.processor
      /\ frame.mandatory = row.parameters /\ frame.current = row
  BY <1>0, <1>2 DEF Frame
<1> HIDE DEF frame
<1>4. CallKnown(frame, eolEnds')
  BY <1>2, <1>3 DEF CallKnown
<1>5. onNew
  BY DEF Known, DefinitionKnown, LookedUp
<1>6. QED
  BY <1>0, <1>1, <1>3, <1>4, <1>5, OutsideStep

LEMMA CommandKnown ==
  ASSUME ReaderTypeOK, TextGrows, Written, Known, DoCommand
  PROVE  Known'
<1>0. Top \in Frame /\ TextOK /\ Len(read) \in Nat /\ DOMAIN read = 1 .. Len(read)
  BY TopType DEF TextGrows, TextOK
<1>1. /\ Take /\ LookedUp /\ Token \in Command /\ StartCommand(CodeTable[Token])
      /\ Token \in DOMAIN CodeTable
  BY CommandsInTable DEF DoCommand
<1> DEFINE row == CodeTable[Token]
           frame == [Top EXCEPT !.command = row.processor, !.mandatory = row.parameters,
                                !.current = row]
<1>2. row \in Row
  BY <1>1, CodeTableType
<1>3. CASE row.processor # "ProcParDefine"
  BY <1>1, <1>2, <1>3, StartKnown
<1>4. CASE row.processor = "ProcParDefine"
  <2>1. Token = "DEFINE" /\ row.parameters = 1
    BY <1>1, <1>4, RowOfDefine
  <2>2. SetTop(frame) /\ UNCHANGED << onNew, macros, read, ends >> /\ (eolEnds => eolEnds')
    BY <1>1 DEF StartCommand, Take
  <2>3. /\ frame \in Frame /\ frame.inLine /\ ~frame.fresh /\ frame.command = "ProcParDefine"
        /\ frame.mandatory = 1
    <3>1. row.processor \in Processor /\ Top.inLine /\ ~Top.fresh /\ row.parameters \in Nat
      BY <1>1, <1>2, TakeType DEF Row
    <3>2. QED
      BY <1>0, <1>2, <1>4, <2>1, <3>1 DEF Frame
  <2> HIDE DEF frame, row
  <2>4. Top' = frame
    BY <2>2, <2>3, SetTopType
  <2>5. CallsKnown'
    <3>1. CallKnown(frame, eolEnds')
      BY <2>3 DEF CallKnown
    <3>2. QED
      BY <2>2, <2>3, <3>1, CallsSet DEF Known
  <2>6. pending # << >> /\ 1 \in 1 .. Len(pending) /\ pending[1] = "DEFINE"
    <3>1. pending \in Seq(Word \cup {End}) /\ pending # << >> /\ Head(pending) = "DEFINE"
      BY <1>1, <2>1, TakeType DEF Token
    <3>2. QED
      BY <3>1
  <2>7. QueuePlain
    BY <2>6 DEF Known, QueueKnown
  <2>8. QueueKnown' /\ pending' = << >>
    BY <1>0, <1>1, <2>3, <2>4, <2>7, QueueTaken DEF Known
  <2>9. read # << >> /\ read[Len(read)] = "DEFINE" /\ Place' = Len(read) /\ Len(read) >= 1
    <3>1. read # << >> /\ pending = << read[Len(read)] >>
      BY <2>6, <2>7 DEF QueuePlain
    <3>2. QED
      BY <1>0, <2>2, <2>6, <2>8, <3>1 DEF Place
  <2>10. onNew /\ onNew'
    BY <1>1, <2>2 DEF Known, DefinitionKnown, LookedUp
  <2>11. ASSUME NEW k \in DOMAIN macros'
         PROVE  \E i \in DOMAIN read' : i < Len(read) /\ DefinedAt(k, i)'
    <3>1. k \in DOMAIN macros
      BY <2>2
    <3>2. PICK i \in DOMAIN read : DefinedAt(k, i)
      BY <3>1 DEF Written
    <3>3. i < Len(read)
      <4>1. Len(macros[k].body) \in Nat /\ i + 1 + Len(macros[k].body) <= Len(read)
        BY <3>1, <3>2, MacrosType DEF DefinedAt
      <4>2. QED
        BY <1>0, <4>1
    <3>4. i \in DOMAIN read' /\ DefinedAt(k, i)'
      BY <2>2, <2>10, <3>1, <3>2, DefinedStays
    <3>5. QED
      BY <3>3, <3>4
  <2>12. WrittenBefore(Place)'
    BY <2>9, <2>11 DEF WrittenBefore
  <2>13. DefinitionKnown'
    BY <2>2, <2>3, <2>4, <2>8, <2>9, <2>10, <2>12 DEF DefinitionKnown, QueuePlain
  <2>14. QED
    BY <2>5, <2>8, <2>13 DEF Known
<1>5. QED
  BY <1>3, <1>4

\* A day of the week is in the way only where a line has ended a definition.
LEMMA DayKnown ==
  ASSUME ReaderTypeOK, TextGrows, Clean, Known, DoDay
  PROVE  Known'
<1>0. Top \in Frame /\ CallKnown(Top, eolEnds) /\ TextOK
  BY TopType, TopKnown DEF Known, TextGrows
<1>1. Take /\ LookedUp /\ Token \in Day /\ StartCommand(Top.current) /\ Working
  BY DEF DoDay, Take
<1>2. Top.current \in Row
  BY <1>0 DEF Frame
<1>3. Top.command # "ProcParDefine"
  <2>1. Token \notin Command
    BY <1>1, ConfigReaderAssumption, CommandsInTable
  <2>2. Top.mandatory = 0
    BY <1>1 DEF LookedUp
  <2>3. QED
    BY <1>0, <1>1, <2>1, <2>2, DefinitionToken
<1>4. ~eolEnds \/ \A i \in DOMAIN read : read[i] # Token
  BY <1>1 DEF Clean, DayAfterLine
<1>5. \E i \in DOMAIN read : read[i] = Token
  <2>1. /\ pending \in Seq(Word \cup {End}) /\ pending # << >> /\ Token # End
    BY <1>1, TakeType DEF LookedUp
  <2>2. 1 \in 1 .. Len(pending) /\ pending[1] = Token
    BY <2>1 DEF Token
  <2>3. QED
    BY <2>1, <2>2 DEF Known, QueueKnown
<1>6. Top.current.processor # "ProcParDefine"
  BY <1>0, <1>3, <1>4, <1>5 DEF CallKnown
<1>7. QED
  BY <1>1, <1>2, <1>6, StartKnown

\* A step that only sets CurrentToken, or a parameter of another command.
LEMMA ParameterKnown ==
  ASSUME ReaderTypeOK, TextGrows, Known, Take, onNew, UNCHANGED << onNew, eolEnds >>,
         Top.command # "ProcParDefine", Token \notin Command \/ ~LookedUp,
         NEW m \in {0, 1}, SetTop([Top EXCEPT !.current = Current, !.mandatory = m])
  PROVE  Known'
<1>0. Top \in Frame /\ CallKnown(Top, eolEnds) /\ TextOK /\ Current \in Row
  BY TopType, CurrentType, TopKnown DEF Known, TextGrows
<1> DEFINE frame == [Top EXCEPT !.current = Current, !.mandatory = m]
<1>1. Top.inLine /\ ~Top.fresh /\ m \in Nat
  BY TakeType
<1>2. /\ frame \in Frame /\ frame.inLine /\ ~frame.fresh /\ frame.command = Top.command
      /\ frame.mandatory = m /\ frame.current = Current
  BY <1>0, <1>1 DEF Frame
<1>3. SetTop(frame)
  OBVIOUS
<1> HIDE DEF frame
<1>4. CallKnown(frame, eolEnds')
  BY <1>0, <1>2, CurrentKnown DEF CallKnown
<1>5. QED
  BY <1>0, <1>2, <1>3, <1>4, OutsideStep

LEMMA OwnMacroKnown ==
  ASSUME ReaderTypeOK, TextGrows, Clean, Known, DoOwnMacro, outcome' = "reading"
  PROVE  Known'
<1>0. Top \in Frame /\ CallKnown(Top, eolEnds) /\ TextOK
  BY TopType, TopKnown DEF Known, TextGrows
<1>1. /\ Take /\ LookedUp /\ Token \in OwnMacro /\ SetTop([Top EXCEPT !.current = Current])
      /\ UNCHANGED << onNew, eolEnds >>
  BY DEF DoOwnMacro, Fatal
<1>2. Working /\ Token \notin Command /\ Top.mandatory = 0
  BY <1>1, ConfigReaderAssumption DEF Take, LookedUp
<1>3. Top.command # "ProcParDefine"
  BY <1>0, <1>2, DefinitionToken
<1>4. onNew
  BY <1>3 DEF Known, DefinitionKnown
<1>5. [Top EXCEPT !.current = Current] = [Top EXCEPT !.current = Current, !.mandatory = 0]
  BY <1>0, <1>2 DEF Frame
<1>6. SetTop([Top EXCEPT !.current = Current, !.mandatory = 0])
  BY <1>1, <1>5
<1>7. QED
  BY <1>1, <1>2, <1>3, <1>4, <1>6, ParameterKnown

LEMMA PlainKnown ==
  ASSUME ReaderTypeOK, TextGrows, Known, PlainParameter
  PROVE  Known'
<1>0. Top \in Frame /\ CallKnown(Top, eolEnds)
  BY TopType, TopKnown DEF Known
<1>1. /\ Take /\ IsParameter /\ Top.command # "ProcParDefine" /\ ParameterDone(0)
      /\ UNCHANGED << onNew, eolEnds >>
  BY DEF PlainParameter
<1>2. onNew
  BY <1>1 DEF Known, DefinitionKnown
<1>3. Token \notin Command \/ ~LookedUp
  BY <1>0, <1>1 DEF IsParameter, LookedUp, Frame
<1>4. LessOne(Top.mandatory + 0) \in {0, 1}
  BY <1>0 DEF CallKnown, LessOne
<1>5. SetTop([Top EXCEPT !.current = Current, !.mandatory = LessOne(Top.mandatory + 0)])
  BY <1>1 DEF ParameterDone
<1>6. QED
  BY <1>1, <1>2, <1>3, <1>4, <1>5, ParameterKnown

\* The words of a macro in the queue.
LEMMA ExpandKnown ==
  ASSUME ReaderTypeOK, TextGrows, Clean, Written, Known, Expand
  PROVE  Known'
<1>0. Top \in Frame /\ CallKnown(Top, eolEnds) /\ TextOK /\ Current \in Row /\ read \in Seq(Word)
  BY TopType, CurrentType, TopKnown DEF Known, TextGrows, TextOK
<1>1. /\ Working /\ Token \in Names /\ Token \notin Command /\ Token # End /\ Top.mandatory = 0
      /\ pending' = Spliced(Body(Token), Tail(pending))
      /\ SetTop([Top EXCEPT !.current = Current, !.stack = Append(@, Token)])
      /\ UNCHANGED << onNew, eolEnds, macros, read >>
  BY DEF Expand, IsMacro, LookedUp
<1>2. Top.command # "ProcParDefine"
  BY <1>0, <1>1, DefinitionToken
<1>3. onNew
  BY <1>2 DEF Known, DefinitionKnown
<1>4. PICK k \in DOMAIN macros : Body(Token) = macros[k].body
  <2>1. \E m \in {macros[j] : j \in DOMAIN macros} : m.name = Token
    BY <1>1 DEF Names
  <2>2. QED
    BY <2>1 DEF Body
<1>5. Token \in Word
  <2>1. PICK j \in DOMAIN macros : macros[j].name = Token
    BY <1>1 DEF Names
  <2>2. QED
    BY <2>1, MacrosType
<1> DEFINE frame == [Top EXCEPT !.current = Current, !.stack = Append(@, Token)]
<1>6. /\ frame \in Frame /\ frame.inLine /\ ~frame.fresh /\ frame.command = Top.command
      /\ frame.mandatory = Top.mandatory /\ frame.current = Current
  <2>1. Append(Top.stack, Token) \in Seq(Word) /\ Top.inLine /\ ~Top.fresh
    BY <1>0, <1>1, <1>5 DEF Frame, Working, Drained
  <2>2. QED
    BY <1>0, <2>1 DEF Frame
<1>7. SetTop(frame)
  BY <1>1
<1> HIDE DEF frame
<1>8. Top' = frame
  BY <1>6, <1>7, SetTopType
<1>9. CallsKnown'
  <2>1. CallKnown(frame, eolEnds')
    BY <1>0, <1>1, <1>6, CurrentKnown DEF CallKnown
  <2>2. QED
    BY <1>1, <1>6, <1>7, <2>1, CallsSet DEF Known
<1> DEFINE T == Words(read) \ {"DEFINE"}
<1>10. Body(Token) \in Seq(T)
  <2>1. PICK i \in DOMAIN read : DefinedAt(k, i)
    BY DEF Written
  <2>2. macros[k].body \in Seq(Word) /\ DOMAIN read = 1 .. Len(read) /\ Len(read) \in Nat
    BY <1>0, MacrosType
  <2>3. ASSUME NEW m \in 1 .. Len(macros[k].body) PROVE macros[k].body[m] \in T
    <3>1. i + 1 + m \in DOMAIN read /\ read[i + 1 + m] = macros[k].body[m]
      BY <2>1, <2>2 DEF DefinedAt
    <3>2. macros[k].body[m] \in Words(macros[k].body)
      BY <2>2 DEF Words
    <3>3. QED
      BY <3>1, <3>2 DEF Clean, Words
  <2> HIDE DEF T
  <2>4. macros[k].body \in Seq(T)
    BY <2>2, <2>3
  <2>5. QED
    BY <1>4, <2>4
<1>11. pending \in Seq(Word \cup {End}) /\ pending # << >>
  BY <1>1 DEF Working, Drained, ReaderTypeOK
<1>12. Tail(pending) \in Seq(T \cup {End})
  <2>1. ASSUME NEW j \in 1 .. Len(Tail(pending)) PROVE Tail(pending)[j] \in T \cup {End}
    <3>1. j + 1 \in 1 .. Len(pending) /\ Tail(pending)[j] = pending[j + 1] /\ Len(pending) > 1
      BY <1>11
    <3>2. ~QueuePlain
      <4>1. \A x : Len(<< x >>) = 1
        OBVIOUS
      <4>2. ASSUME NEW x, pending = << x >> PROVE FALSE
        BY <3>1, <4>1, <4>2
      <4>3. QED
        BY <1>11, <4>2 DEF QueuePlain
    <3>3. pending[j + 1] # "DEFINE"
      BY <3>1, <3>2 DEF Known, QueueKnown
    <3>4. pending[j + 1] = End \/ pending[j + 1] \in Words(read)
      BY <3>1 DEF Known, QueueKnown, Words
    <3>5. QED
      BY <3>1, <3>3, <3>4
  <2> HIDE DEF T
  <2>2. PICK rest : rest = Tail(pending)
    OBVIOUS
  <2>3. rest \in Seq(Word \cup {End}) /\ \A j \in 1 .. Len(rest) : rest[j] \in T \cup {End}
    BY <1>11, <2>1, <2>2
  <2>4. rest \in Seq(T \cup {End})
    BY <2>3
  <2>5. QED
    BY <2>2, <2>4
<1>13. pending' \in Seq(T \cup {End})
  <2> HIDE DEF T
  <2>1. QED
    BY <1>1, <1>10, <1>12, SplicedType
<1>14. Len(pending') \in Nat /\ pending'[Len(pending')] = End
  <2> HIDE DEF T
  <2>1. PICK body, rest : body = Body(Token) /\ rest = Tail(pending)
    OBVIOUS
  <2>2. Spliced(body, rest)[Len(Spliced(body, rest))] = End
    BY <1>10, <1>12, <2>1, SplicedType
  <2>3. pending' = Spliced(body, rest)
    BY <1>1, <2>1
  <2>4. QED
    BY <1>13, <2>2, <2>3
<1>15. \A j \in 1 .. Len(pending') : pending'[j] = End \/ pending'[j] \in T
  <2> HIDE DEF T
  <2>1. QED
    BY <1>13
<1>16. /\ \A j \in 1 .. Len(pending') : pending'[j] = End \/ \E i \in DOMAIN read' : pending'[j] = read'[i]
       /\ \A j \in 1 .. Len(pending') : pending'[j] # "DEFINE"
  BY <1>1, <1>15 DEF Words, End
<1>17. QueueKnown'
  BY <1>6, <1>8, <1>14, <1>16 DEF QueueKnown
<1>18. DefinitionKnown'
  BY <1>1, <1>2, <1>3, <1>6, <1>8 DEF DefinitionKnown
<1>19. QED
  BY <1>9, <1>17, <1>18 DEF Known

\* An included file begins with an empty queue.
LEMMA IncludeKnown ==
  ASSUME ReaderTypeOK, StackMatches, TextGrows, Clean, Clean', Known, Include, outcome' = "reading"
  PROVE  Known'
<1>0. Top \in Frame /\ CallKnown(Top, eolEnds) /\ TextOK /\ Current \in Row
  BY TopType, CurrentType, TopKnown DEF Known, TextGrows
<1>1. /\ Take /\ IsParameter /\ Top.command = "ProcParInclude"
      /\ frames' = Append([frames EXCEPT ![Len(frames)].current = Current], NewFrame)
      /\ UNCHANGED << macros, onNew, eolEnds, read >>
      /\ crossed' = (crossed \/ Top.stack # << >>)
  BY DEF Include, Fatal, Take
<1>2. /\ pending \in Seq(Word \cup {End}) /\ pending # << >> /\ pending' = Tail(pending)
      /\ Token # End /\ Token = Head(pending)
  BY <1>1, TakeType DEF IsParameter, Token
<1>3. Count(pending, End) = 0
  <2>1. ~crossed /\ Top.stack = << >>
    BY <1>1 DEF Clean
  <2>2. Len(Top.stack) = Count(pending, End)
    BY <2>1 DEF StackMatches, Paired
  <2>3. QED
    BY <2>1, <2>2
<1>4. \A j \in 1 .. Len(pending) : pending[j] # End
  <2>1. IsFiniteSet(Places(pending, End))
    BY <1>2, PlacesFinite
  <2>2. Places(pending, End) = {}
    BY <1>3, <2>1, FS_EmptySet DEF Count
  <2>3. QED
    BY <1>2, <2>2 DEF Places
<1>5. pending' = << >>
  <2>1. Len(pending) \in Nat \ {0} /\ Len(pending) \in 1 .. Len(pending)
    BY <1>2
  <2>2. Len(pending) = 1
    <3>1. pending[Len(pending)] # End
      BY <1>4, <2>1
    <3>2. Len(pending) <= 1
      BY <3>1 DEF Known, QueueKnown
    <3>3. \A n \in Nat \ {0} : n <= 1 => n = 1
      OBVIOUS
    <3>4. QED
      BY <2>1, <3>2, <3>3
  <2>3. QED
    BY <1>2, <2>2
<1>6. /\ frames' \in Seq(Frame) /\ Len(frames') = Len(frames) + 1 /\ Top' = NewFrame
      /\ frames'[Len(frames)] = [Top EXCEPT !.current = Current]
      /\ \A k \in 1 .. (Len(frames) - 1) : frames'[k] = frames[k]
  BY <1>1, CallAdded
<1>7. /\ NewFrame.command = "none" /\ NewFrame.mandatory = 0 /\ NewFrame.current.processor = "none"
  BY DEF NewFrame, CodeOf
<1> DEFINE frame == [Top EXCEPT !.current = Current]
<1>8. frame.command = Top.command /\ frame.mandatory = Top.mandatory /\ frame.current = Current
  BY <1>0 DEF Frame
<1> HIDE DEF frame
<1>9. CallKnown(frame, eolEnds') /\ CallKnown(NewFrame, eolEnds')
  <2>1. Token \notin Command \/ ~LookedUp
    BY <1>0, <1>1 DEF IsParameter, LookedUp, Frame
  <2>2. QED
    BY <1>0, <1>1, <1>7, <1>8, <2>1, CurrentKnown DEF CallKnown
<1>10. CallsKnown'
  <2>1. /\ Len(frames) \in Nat \ {0}
        /\ \A k \in 1 .. Len(frames') : k \in 1 .. (Len(frames) - 1) \/ k = Len(frames) \/ k = Len(frames')
        /\ \A k \in 1 .. (Len(frames') - 1) : k \in 1 .. (Len(frames) - 1) \/ k = Len(frames)
        /\ \A k \in 1 .. (Len(frames) - 1) : k \in 1 .. Len(frames)
    BY <1>6 DEF ReaderTypeOK
  <2>2. frames'[Len(frames')] = NewFrame /\ frames'[Len(frames)] = frame
    BY <1>6 DEF Top, frame
  <2>3. \A k \in 1 .. (Len(frames) - 1) : CallKnown(frames'[k], eolEnds')
    BY <1>1, <1>6, <2>1 DEF Known, CallsKnown
  <2>4. \A k \in 1 .. Len(frames') : CallKnown(frames'[k], eolEnds')
    BY <1>9, <2>1, <2>2, <2>3
  <2>5. ASSUME NEW k \in 1 .. (Len(frames') - 1) PROVE frames'[k].command = "ProcParInclude"
    <3>1. CASE k = Len(frames)
      BY <1>1, <1>8, <2>2, <3>1
    <3>2. CASE k \in 1 .. (Len(frames) - 1)
      BY <1>6, <3>2 DEF Known, CallsKnown
    <3>3. QED
      BY <2>1, <3>1, <3>2
  <2>6. QED
    BY <2>4, <2>5 DEF CallsKnown
<1>11. QueueKnown'
  BY <1>5 DEF QueueKnown, QueuePlain
<1>12. DefinitionKnown'
  BY <1>1, <1>6, <1>7 DEF Known, DefinitionKnown
<1>13. QED
  BY <1>10, <1>11, <1>12 DEF Known

\* A word of a definition: the macro it goes to has just been read.
LEMMA WordWritten ==
  ASSUME ReaderTypeOK, TextGrows, Clean, Written, NoEnds, Known, Working,
         Top.command = "ProcParDefine", Token # "ENDDEFINE", ~onNew, AddToMacros(Token),
         UNCHANGED read
  PROVE  /\ Written' /\ NoEnds' /\ ~onNew'
         /\ \E i \in DOMAIN read' :
              DefinedAt(Len(macros), i)' /\ Len(read) = i + 1 + Len(macros'[Len(macros')].body)
<1>0. /\ Token \in Word /\ Token = read[Len(read)] /\ Place = Len(read) - 1 /\ Len(read) \in Nat
      /\ TextOK
  BY DefinitionToken DEF TextGrows, TextOK
<1>1. PICK last : last = Len(macros)
  OBVIOUS
<1>2. /\ last \in DOMAIN macros /\ DOMAIN macros' = DOMAIN macros /\ Len(macros') = last /\ ~onNew'
      /\ macros'[last].name = macros[last].name
      /\ macros'[last].body = Append(macros[last].body, Token)
      /\ \A k \in DOMAIN macros : k # last => macros'[k] = macros[k]
  BY <1>0, <1>1, WordAdded
<1>3. /\ macros[last].body \in Seq(Word) /\ Len(macros[last].body) \in Nat
      /\ DOMAIN macros[last].body = 1 .. Len(macros[last].body)
  BY <1>2, MacrosType
<1>4. /\ Len(macros'[last].body) = Len(macros[last].body) + 1
      /\ DOMAIN macros'[last].body = 1 .. (Len(macros[last].body) + 1)
      /\ macros'[last].body[Len(macros[last].body) + 1] = Token
      /\ \A m \in 1 .. Len(macros[last].body) : macros'[last].body[m] = macros[last].body[m]
  BY <1>0, <1>2, <1>3
<1>5. PICK i \in DOMAIN read : DefinedAt(last, i) /\ Place = i + 1 + Len(macros[last].body)
  BY <1>1 DEF Known, DefinitionKnown
<1>6. i \in Nat /\ Len(read) = i + 1 + Len(macros'[last].body)
  BY <1>0, <1>3, <1>4, <1>5 DEF TextOK
<1>7. /\ read[i] = "DEFINE" /\ read[i + 1] = macros[last].name
      /\ \A m \in DOMAIN macros[last].body : read[i + 1 + m] = macros[last].body[m]
  BY <1>5 DEF DefinedAt
<1>8. \A m \in DOMAIN macros'[last].body : read'[i + 1 + m] = macros'[last].body[m]
  <2>1. \A m \in 1 .. (Len(macros[last].body) + 1) :
          m \in 1 .. Len(macros[last].body) \/ m = Len(macros[last].body) + 1
    BY <1>3
  <2>2. read[i + 1 + (Len(macros[last].body) + 1)] = Token
    BY <1>0, <1>4, <1>6
  <2>3. QED
    BY <1>3, <1>4, <1>7, <2>1, <2>2
<1>9. DefinedAt(last, i)'
  BY <1>0, <1>2, <1>6, <1>7, <1>8 DEF DefinedAt
<1>10. ASSUME NEW k \in DOMAIN macros, k # last PROVE \E j \in DOMAIN read' : DefinedAt(k, j)'
  <2>1. PICK j \in DOMAIN read : DefinedAt(k, j)
    BY DEF Written
  <2>2. j \in DOMAIN read' /\ DefinedAt(k, j)'
    BY <1>1, <1>2, <1>10, <2>1, DefinedStays
  <2>3. QED
    BY <2>2
<1>11. Written'
  BY <1>2, <1>9, <1>10 DEF Written
<1>12. NoEnds'
  <2>1. "ENDDEFINE" \notin Words(macros'[last].body)
    <3>1. \A m \in DOMAIN macros'[last].body : macros'[last].body[m] # "ENDDEFINE"
      BY <1>2, <1>3, <1>4 DEF NoEnds, Words
    <3>2. QED
      BY <3>1 DEF Words
  <2>2. QED
    BY <1>2, <2>1 DEF NoEnds, Words
<1>13. DefinedAt(Len(macros), i)'
  BY <1>2, <1>9
<1>14. QED
  BY <1>2, <1>6, <1>11, <1>12, <1>13

\* The name of a macro stands after its DEFINE.
LEMMA NameWritten ==
  ASSUME ReaderTypeOK, TextGrows, Clean, Written, NoEnds, Known, Working, Top.mandatory = 1,
         Top.command = "ProcParDefine", Token # "ENDDEFINE", onNew, Token \notin Names,
         AddToMacros(Token), UNCHANGED read
  PROVE  /\ Written' /\ NoEnds' /\ ~onNew'
         /\ \E i \in DOMAIN read' :
              DefinedAt(Len(macros), i)' /\ Len(read) = i + 1 + Len(macros'[Len(macros')].body)
<1>0. /\ Token \in Word /\ Token = read[Len(read)] /\ Len(read) \in 2 .. Len(read)
      /\ Place = Len(read) - 1 /\ TextOK /\ Len(read) \in Nat /\ DOMAIN read = 1 .. Len(read)
  BY DefinitionToken DEF TextGrows, TextOK
<1>1. PICK new : new = Len(macros) + 1
  OBVIOUS
<1>2. /\ DOMAIN macros = 1 .. Len(macros) /\ DOMAIN macros' = 1 .. new /\ Len(macros) \in Nat
      /\ Len(macros') = new /\ ~onNew'
      /\ macros'[new] = [name |-> Token, body |-> << >>]
      /\ \A k \in DOMAIN macros : macros'[k] = macros[k]
  BY <1>0, <1>1, NameAdded
<1>3. PICK i : i = Place
  OBVIOUS
<1>4. i \in DOMAIN read /\ i + 1 = Len(read)
  BY <1>0, <1>3
<1>5. read[i] = "DEFINE"
  BY <1>3 DEF Known, DefinitionKnown
<1>6. macros'[new].name = Token /\ macros'[new].body = << >>
  BY <1>2
<1>7. Len(<< >>) = 0 /\ DOMAIN << >> = {}
  OBVIOUS
<1>8. DefinedAt(new, i)' /\ Len(read) = i + 1 + Len(macros'[new].body)
  BY <1>0, <1>2, <1>4, <1>5, <1>6, <1>7 DEF DefinedAt
<1>9. ASSUME NEW k \in DOMAIN macros PROVE \E j \in DOMAIN read' : DefinedAt(k, j)'
  <2>1. PICK j \in DOMAIN read : DefinedAt(k, j)
    BY DEF Written
  <2>2. j \in DOMAIN read' /\ DefinedAt(k, j)'
    BY <1>2, <2>1, DefinedStays
  <2>3. QED
    BY <2>2
<1>10. \A k \in DOMAIN macros' : k \in DOMAIN macros \/ k = new
  BY <1>1, <1>2
<1>11. Written'
  BY <1>4, <1>8, <1>9, <1>10 DEF Written
<1>12. NoEnds'
  <2>1. Words(macros'[new].body) = {}
    BY <1>6, <1>7 DEF Words
  <2>2. QED
    BY <1>2, <1>6, <1>10, <2>1 DEF NoEnds, Words
<1>13. DefinedAt(Len(macros), i)'
  BY <1>2, <1>8
<1>14. QED
  BY <1>2, <1>4, <1>8, <1>11, <1>12, <1>13

\* ENDDEFINE is read right behind the words of the macro.
LEMMA EndWritten ==
  ASSUME ReaderTypeOK, TextGrows, Clean, Written, NoEnds, Known, Working,
         Top.command = "ProcParDefine", Token = "ENDDEFINE", AddToMacros(Token), UNCHANGED read
  PROVE  Written' /\ NoEnds' /\ onNew'
<1>0. /\ Token = read[Len(read)] /\ Place = Len(read) - 1 /\ Len(read) \in Nat
      /\ DOMAIN read = 1 .. Len(read)
  BY DefinitionToken DEF TextGrows, TextOK
<1>1. onNew' /\ macros' = macros
  BY DEF AddToMacros
<1>2. ASSUME NEW k \in DOMAIN macros PROVE \E i \in DOMAIN read' : DefinedAt(k, i)'
  <2>1. CASE k = Len(macros) /\ ~onNew
    <3>1. PICK i \in DOMAIN read : DefinedAt(k, i) /\ Place = i + 1 + Len(macros[k].body)
      BY <2>1 DEF Known, DefinitionKnown
    <3>2. Place < Len(read) /\ Place + 1 = Len(read)
      BY <1>0
    <3>3. DefinedAt(k, i)'
      BY <1>0, <1>1, <3>1, <3>2 DEF DefinedAt
    <3>4. QED
      BY <3>1, <3>3
  <2>2. CASE ~(k = Len(macros) /\ ~onNew)
    <3>1. PICK i \in DOMAIN read : DefinedAt(k, i)
      BY DEF Written
    <3>2. i \in DOMAIN read' /\ DefinedAt(k, i)'
      BY <1>1, <2>2, <3>1, DefinedStays
    <3>3. QED
      BY <3>2
  <2>3. QED
    BY <2>1, <2>2
<1>3. QED
  BY <1>1, <1>2 DEF Written, NoEnds, Words

LEMMA DefineWritten ==
  ASSUME ReaderTypeOK, TextGrows, Clean, Written, NoEnds, Known, Define
  PROVE  Written' /\ NoEnds' /\ Known'
<1>0. Top \in Frame /\ CallKnown(Top, eolEnds) /\ TextOK /\ Current \in Row
  BY TopType, CurrentType, TopKnown DEF Known, TextGrows
<1>1. /\ Take /\ Working /\ IsParameter /\ Top.command = "ProcParDefine" /\ AddToMacros(Token)
      /\ ParameterDone(IF NeedsExtraPar(Token) THEN 1 ELSE 0)
      /\ UNCHANGED << eolEnds, read, ends >>
  BY DEF Define, Take
<1>2. /\ Token \in Word /\ Len(read) \in 2 .. Len(read) /\ Token = read[Len(read)]
      /\ Place = Len(read) - 1 /\ (Top.mandatory = 0 => Token \in Command)
      /\ pending = << Token >> /\ Len(read) \in Nat /\ DOMAIN read = 1 .. Len(read)
  BY <1>0, <1>1, DefinitionToken DEF TextOK
<1>3. Top.mandatory = 1
  BY <1>0, <1>1, <1>2 DEF CallKnown, IsParameter
<1>4. Current = Top.current
  BY <1>3 DEF Current, LookedUp
<1> DEFINE due == IF NeedsExtraPar(Token) THEN 1 ELSE 0
           frame == [Top EXCEPT !.current = Current, !.mandatory = due]
<1>5. LessOne(Top.mandatory + due) = due /\ due \in {0, 1} /\ due \in Nat
  BY <1>3 DEF LessOne
<1>6. SetTop(frame)
  <2>1. SetTop([Top EXCEPT !.current = Current, !.mandatory = LessOne(Top.mandatory + due)])
    BY <1>1 DEF ParameterDone
  <2> HIDE DEF due
  <2>2. QED
    BY <1>5, <2>1
<1>7. /\ frame \in Frame /\ frame.inLine /\ ~frame.fresh /\ frame.command = "ProcParDefine"
      /\ frame.mandatory = due /\ frame.current = Top.current
  <2> HIDE DEF due
  <2>1. Top.inLine /\ ~Top.fresh
    BY <1>1, TakeType
  <2>2. QED
    BY <1>0, <1>1, <1>4, <1>5, <2>1 DEF Frame
<1> HIDE DEF frame
<1>8. Top' = frame
  BY <1>6, <1>7, SetTopType
<1>9. CallsKnown'
  <2>1. CallKnown(frame, eolEnds')
    BY <1>5, <1>7 DEF CallKnown
  <2>2. QED
    BY <1>1, <1>6, <1>7, <2>1, CallsSet DEF Known
<1>10. QueueKnown' /\ pending' = << >>
  <2>1. QueuePlain
    BY <1>1 DEF Known, DefinitionKnown
  <2>2. QED
    BY <1>0, <1>1, <1>7, <1>8, <2>1, QueueTaken DEF Known
<1>11. QueuePlain' /\ Place' = Len(read) /\ Len(read) >= 1
  BY <1>1, <1>2, <1>10 DEF QueuePlain, Place
<1>12. CASE Token = "ENDDEFINE"
  <2>1. Written' /\ NoEnds' /\ onNew'
    BY <1>1, <1>12, EndWritten
  <2>2. due = 0 /\ read[Len(read)] = "ENDDEFINE"
    BY <1>2, <1>12 DEF NeedsExtraPar
  <2>3. DefinitionKnown'
    BY <1>1, <1>7, <1>8, <1>11, <2>1, <2>2 DEF DefinitionKnown
  <2>4. QED
    BY <1>9, <1>10, <2>1, <2>3 DEF Known
<1>13. ASSUME onNew, Token \in Names, Token # "ENDDEFINE" PROVE FALSE
  <2>1. read[Place] = "DEFINE" /\ WrittenBefore(Place)
    BY <1>1, <1>3, <1>13 DEF Known, DefinitionKnown
  <2>2. PICK k \in DOMAIN macros : macros[k].name = Token
    BY <1>13 DEF Names
  <2>3. PICK i \in DOMAIN read : i < Place /\ DefinedAt(k, i)
    BY <2>1, <2>2 DEF WrittenBefore
  <2>4. read[i] = "DEFINE" /\ read[i + 1] = Token
    BY <2>2, <2>3 DEF DefinedAt
  <2>5. /\ i \in 1 .. (Len(read) - 1) /\ Place \in 1 .. (Len(read) - 1) /\ Place + 1 = Len(read)
    BY <1>2, <2>3
  <2>6. NamedTwice
    BY <1>2, <2>1, <2>3, <2>4, <2>5 DEF NamedTwice
  <2>7. QED
    BY <2>6 DEF Clean
<1>14. CASE Token # "ENDDEFINE" /\ (~onNew \/ Token \notin Names)
  <2>1. /\ Written' /\ NoEnds' /\ ~onNew'
        /\ \E i \in DOMAIN read' :
             DefinedAt(Len(macros), i)' /\ Len(read) = i + 1 + Len(macros'[Len(macros')].body)
    <3>1. CASE ~onNew
      BY <1>1, <1>14, <3>1, WordWritten
    <3>2. CASE onNew
      BY <1>1, <1>3, <1>14, <3>2, NameWritten
    <3>3. QED
      BY <3>1, <3>2
  <2>2. due = 1
    BY <1>14 DEF NeedsExtraPar
  <2>3. DefinitionKnown'
    BY <1>1, <1>7, <1>8, <1>11, <2>1, <2>2 DEF DefinitionKnown
  <2>4. QED
    BY <1>9, <1>10, <2>1, <2>3 DEF Known
<1>15. QED
  BY <1>12, <1>13, <1>14

LEMMA MacroInvInit == ReaderInit => TextOK /\ MacroInv
<1> SUFFICES ASSUME ReaderInit PROVE TextOK /\ MacroInv
  OBVIOUS
<1>1. TextOK
  BY DEF ReaderInit, TextOK
<1>2. Written /\ NoEnds
  BY DEF ReaderInit, Written, NoEnds
<1>3. Len(frames) = 1 /\ frames[1] = NewFrame /\ Top = NewFrame
  BY DEF ReaderInit, Top
<1>4. /\ NewFrame.command = "none" /\ NewFrame.mandatory = 0 /\ NewFrame.current.processor = "none"
      /\ NewFrame.fresh
  BY DEF NewFrame, CodeOf
<1>5. CallsKnown
  <2>1. CallKnown(NewFrame, eolEnds)
    BY <1>4 DEF CallKnown
  <2>2. \A k \in 1 .. Len(frames) : frames[k] = NewFrame
    BY <1>3
  <2>3. QED
    BY <1>3, <2>1, <2>2 DEF CallsKnown
<1>6. QueueKnown
  BY DEF ReaderInit, QueueKnown, QueuePlain
<1>7. DefinitionKnown
  BY <1>3, <1>4 DEF ReaderInit, DefinitionKnown
<1>8. QED
  BY <1>1, <1>2, <1>5, <1>6, <1>7 DEF MacroInv, Known

LEMMA MacroInvNext ==
  ReaderTypeOK /\ StackMatches /\ TextOK /\ MacroInv /\ [ReaderNext]_readerVars => TextOK' /\ MacroInv'
<1> SUFFICES ASSUME ReaderTypeOK, StackMatches, TextOK, MacroInv, [ReaderNext]_readerVars
             PROVE  TextOK' /\ MacroInv'
  OBVIOUS
<1>1. TextGrows /\ MacrosGrow
  BY TextGrowing, MacrosGrowing
<1> SUFFICES ASSUME Clean' PROVE Written' /\ NoEnds' /\ (outcome' = "reading" => Known')
  BY <1>1 DEF TextGrows, MacroInv
<1>2. Clean
  BY <1>1, CleanBefore
<1>3. Written /\ NoEnds /\ (outcome = "reading" => Known)
  BY <1>2 DEF MacroInv
<1>4. ASSUME UNCHANGED << macros, onNew >> PROVE Written' /\ NoEnds'
  BY <1>1, <1>3, <1>4, WrittenStays
<1>5. ASSUME NEW l \in Line, ReadLine(l) PROVE Written' /\ NoEnds' /\ Known'
  BY <1>1, <1>3, <1>4, <1>5, LineKnown DEF ReadLine
<1>6. CASE NextWord
  BY <1>1, <1>3, <1>4, <1>6, WordKnown DEF NextWord
<1>7. CASE EndOfLine
  BY <1>1, <1>3, <1>7, EndOfLineKnown, EndOfLineWritten DEF EndOfLine
<1>8. CASE EndOfFile
  BY <1>1, <1>3, <1>4, <1>8, EndOfFileKnown DEF EndOfFile
<1>9. CASE MacroEnd
  BY <1>1, <1>2, <1>3, <1>4, <1>9, MacroEndKnown DEF MacroEnd, Take, Working
<1>10. CASE DoCommand
  BY <1>1, <1>3, <1>4, <1>10, CommandKnown DEF DoCommand, StartCommand, Take, Working
<1>11. CASE DoDay
  BY <1>1, <1>2, <1>3, <1>4, <1>11, DayKnown DEF DoDay, StartCommand, Take, Working
<1>12. CASE DoOwnMacro
  BY <1>1, <1>2, <1>3, <1>4, <1>12, OwnMacroKnown DEF DoOwnMacro, Fatal, Take, Working
<1>13. CASE Expand
  BY <1>1, <1>2, <1>3, <1>4, <1>13, ExpandKnown DEF Expand, Working
<1>14. CASE Circular
  BY <1>4, <1>14 DEF Circular, Fatal
<1>15. CASE PlainParameter
  BY <1>1, <1>3, <1>4, <1>15, PlainKnown DEF PlainParameter, Take, Working
<1>16. CASE Define
  BY <1>1, <1>2, <1>3, <1>16, DefineWritten DEF Define, Take, Working
<1>17. CASE Include
  BY <1>1, <1>2, <1>3, <1>4, <1>17, IncludeKnown DEF Include, Fatal, Take, Working
<1>18. CASE UNCHANGED readerVars
  <2>1. UNCHANGED << frames, pending, macros, onNew, eolEnds, outcome, read, ends >> /\ Top' = Top
    BY <1>18 DEF readerVars, histories, Top
  <2>2. Written' /\ NoEnds'
    BY <1>4, <2>1
  <2>3. ASSUME Known PROVE CallsKnown' /\ QueueKnown'
    BY <2>1, <2>3 DEF Known, CallsKnown, CallKnown, QueueKnown, QueuePlain
  <2>4. ASSUME Known PROVE DefinitionKnown'
    BY <2>1, <2>4, DefinitionStays DEF Known
  <2>5. QED
    BY <1>3, <2>1, <2>2, <2>3, <2>4 DEF Known
<1>19. QED
  BY <1>5, <1>6, <1>7, <1>8, <1>9, <1>10, <1>11, <1>12, <1>13, <1>14, <1>15, <1>16, <1>17, <1>18
     DEF ReaderNext, ReadRouteFile

\* Where the files keep to what the manual says of DEFINE, every macro has the words
\* between its name and ENDDEFINE, or the end of its line under EOLENDSCOMMAND.
THEOREM MacrosWritten == ReaderSpec => []MacrosAsWritten
<1> DEFINE IInv == ReaderTypeOK /\ BetweenLines /\ StackMatches /\ TextOK /\ MacroInv
<1>1. ReaderInit => IInv
  BY ReaderTypeInit, StackMatchesInit, MacroInvInit
<1>2. IInv /\ [ReaderNext]_readerVars => IInv'
  BY ReaderTypeNext, BetweenLinesNext, StackMatchesNext, MacroInvNext
<1>3. IInv => MacrosAsWritten
  BY DEF MacroInv, MacrosAsWritten, Clean, Written
<1>4. QED
  BY <1>1, <1>2, <1>3, PTL DEF ReaderSpec
=============================================================================
