# cfroute in TLA+

cfroute is a packer for FidoNet netmail. Started by the event loop of a node,
it reads a route file, goes through the messages that tossers and editors have
left in the netmail directory, decides for each one which system it is packed
for and with which flavour, and puts it in the outbound directories from which
a mailer sends it. It is one sequential C++ program; what makes it hard to get
right is the order of words in a route file, two loops over the routing table
with different rules of precedence, and a file system it shares with programs
that do not wait for it.

This directory models that program, checks the models with TLC on small
instances and proves theorems about them with TLAPS. All source paths below are
those of the repository (`src/` is its program directory, `doc/manual.eng` its
manual).

## 1. The system

### Components

| component | source | state it keeps | operations | modelled |
|---|---|---|---|---|
| Routing table | `routing.cpp` | the vias (one per route sentence); `OnFrom`, `OnExcept`, `TopPriority`, `AssumePoints`, `AssumeWaypoints` | `SetupNewVia`, `Process`, `SetOnFrom`, `SwitchExcept`, `SetAttrib`, `SetEncryption`, `SetTopDownMode`, ...; `NoPack`, `FindPackSystem` | yes, all but the day of the week |
| Route file commands | `handlers.cpp` | the handler of the words that follow | one `InitCom*` and one `ProcPar*` per keyword | routing, addresses, passwords, macros, `INCLUDE`; options that set one variable only as constants |
| Configuration reader | `cfroute.cpp` (`ReadRouteFile`), `macro.cpp`, `config.cpp` | pending tokens, a stack of macros per file, the current command and the parameters due | `ReadRouteFile`, `GetTokenInfo`, `ProcessMacro`, `C_MacroHandler::Process` | yes |
| Addresses and wildcards | `basic.cpp`, `akas.cpp`, `password.cpp`, `structs.cpp` | the address a short word is completed from, one per list; our addresses, passwords | `GetFullQualifiedAddress`, `SplitWildcardedAddress`, `CompareAddress`, `ParseAddress`, `StoreAKA`, `AKAMatch` | yes |
| Message analysis | `netmail.cpp` (first half), `squish.cpp` (`GetVisibleInfoSquish`) | what is known of one message | `GetVisibleInfo`, `ProcessLine`, `PostAnalysis`, `GetSendType`, `DetermineRouteToSystem` | yes |
| Outbound | `netmail.cpp` (`AnalyzeNet`, `MSGToPKT`, ...) | the `.BSY` flags, packets, attach and request lists, the `.MSG` | `CheckAndCreateSem`, `MSGToPKT`, `SubjectToFile`, `FlagAsSent`, `ReleaseSem` | yes |
| Netmail directory scan | `cfroute.cpp` (`ProcessNetmail`), `dirute.c` | `LASTRUN.CFR`, the list of names | list the directory, skip what is old, analyze the rest | yes |
| Squish and JAM bases | `squish.cpp` | the position in a message base | `ProcessSquish`, `AnalyzeSquishNet`, `SquishToPKT` | yes |
| Log and lists | `log.cpp`, `lists.cpp`, `buffer.cpp` | the queues of words and names | insert, remove, sort | as the queue and the stack of the reader and the queue of the scan |
| Formats, character sets, FastEcho, inbounds, fc2cfr | `structs.cpp`, `recode.cpp`, `datetime.cpp`, `fastecho.cpp`, `inbounds.cpp`, `fc2cfr.c`, ... | none that decides anything | input and output | no: see section 8 |

### How they interact

* The reader turns the file into words and calls, through the handler of the
  current command, one method of `CRouteHandler` per word. The words of a macro
  are put into the same queue as those of the file; `INCLUDE` is a recursive call
  with locals of its own and the same queue. The table is complete before the
  first message is looked at and does not change afterwards.
* Address words go through one of two parsers. Our own addresses and waypoints are
  completed and read as numbers, entries of lists become patterns; each list
  keeps the last address, from which the next short word is completed.
* `ProcessNetmail` reads the date of `LASTRUN.CFR` and touches that file, lists
  the directory, and calls `AnalyzeNet` for each message that is new.
* `AnalyzeNet` calls `GetVisibleInfo` and `PostAnalysis`, which ask the table:
  `NoPack` with the destination of the message, then `FindPackSystem` with the
  address it is routed by (the two differ for gated messages). A waypoint found,
  it works through the files of that system in the outbound.
* `ProcessSquish` does the same for a message base, by message number; a message
  deleted moves those behind it, so the loop stays at its number.
* The outbound is shared with the mailer, the netmail directory with tossers and
  editors. The only protocol is the `.BSY` flag of a system; nothing protects
  the netmail directory.

### What is hard

Words of a sentence may come in any order, a sentence may be abandoned, and
`OnFrom`, `OnExcept` and an unfinished via survive from one word to the next; so do the addresses short words are completed from.
A macro can start a command, define a macro or include a file, and what ends it
is a token in the queue that another call of the reader may take. The numbers of
messages in a base shift while a run holds on to one.
The control lines of a message come in any order too, each overwrites part of
what another has told, and a loop shows only in the order of its via lines.
The loops overwrite one set of locals from match to match. The file operations
of `AnalyzeNet` interleave with the mailer (who may connect between the check
for a `.BSY` and its creation), with authors who delete messages, and with power
failures, and most of their errors do not stop it. `LASTRUN.CFR` is written
before the work it stands for is done. `PROJECT.json` lists these hazards at
their lines, with the properties that speak about them.

For each component, correctness means:

* routing table: the table is the list of the sentences written, complete and in
  order, and no via is left that the loops would misread;
* decisions: the last rule that matches decides (the first under `TOPDOWN`), and
  mail is only packed for a system a matching rule names;
* reader: every word of a line and of a macro reaches exactly one handler, macros
  have the words they were defined with, can be used again and come to an end, and
  with `EOLENDSCOMMAND` a line leaves nothing behind;
* addresses: a short word means what it says completed from the word before it,
  both parsers agree on it, a pattern matches the systems the manual says, and
  none of our addresses is there twice;
* analysis: addresses, attributes, path and loops are what the text of the message
  says, whatever the order of its lines; attributes go before routes, nothing is
  packed for ourselves, and the packet bears a suitable address of ours;
* outbound: a message is packed before it is flagged or deleted, unless writing it
  failed, and not more often than power failures and failed deletions and flags
  explain; its files go with it; a connected system's files are left alone, and its
  `.BSY` is not left behind;
* message bases: none is skipped while messages come and go, none is marked that
  was not packed for its waypoint, unless its conversion failed;
* scan: a message that still waits is looked at again, and is handled in the end.

## 2. The modules

```
ConfigReader -- ConfigReaderProofs          from the lines of a file to the words of commands

AddressWords -- Addresses -- AddressesProofs   the parsers as functions; what the words become

RouteRules ---- RuleList                    what a rule is; the abstract list of rules
    |
RouteTable ---- RouteSentences              the table, word by word; beside the file as written
    |     \
    |      RouteDecision                    NoPack and FindPackSystem over that table
    |
RouteTableProofs, RouteDecisionProofs, RouteSentencesProofs

Analysis ------ AnalysisProofs              from the text of a message to its waypoint

MessageFate                                 the abstract fate of a message
    |
Outbound ------ NetmailRun                  AnalyzeNet; ProcessNetmail, run after run, over it
    |               |
    OutboundProofs                          (of both)

MessageBase --- MessageBaseProofs           ProcessSquish: the netmail of a message base

MCConfigReader, MCAddresses, MCRouteTable, MCRouteSentences, MCRouteDecision,
MCAnalysis, MCOutbound, MCNetmailRun, MCMessageBase          instances for TLC
```

* **ConfigReader** is `ReadRouteFile`. A line is a sequence of words, `pending` is
  `PendingTokens`; a step takes one token from it, and which action that is
  follows from `GetTokenInfo` and from the parameters due. `frames` has the
  locals of the active calls, one more for each `INCLUDE`; among them are
  `CurrentToken`, which is not set before the first keyword of a file, and the
  stack of macros. The handlers that change what the reader does (`DEFINE`,
  `INCLUDE`, `EOLENDSCOMMAND`, `ENDDEFINE`) are modelled, the others are sets of
  commands: what they do with their words is in RouteTable and Addresses.
  `read`, `ends`, `queued`, `handled`, `used` and `crossed` are histories: `read` has
  the words of the files, `ends` after how many of them a line or a file has ended.
* **AddressWords** has the two parsers of `basic.cpp` and `CompareAddress` as
  operators on words, given by their separators and the parts between them.
  Numbers have 16 bits. Where the code reads the byte before an empty part, or
  completes a word from a null pointer or prints into a literal, the operators
  say so (`junk`, `SplitUndefined`, `QualifyUndefined`).
* **Addresses** is the state the words go through: `inited`, `main` and `akas` of
  `AddressHandler`, whose sentinel for no main address, 65535 in each part, is an
  address a file can give, too; one `previous` address per kind of list, the via and the
  lists; an action per command and one per word of each. `own` and `begins`
  are histories.
* **RouteRules** has the data: addresses, address words, vias (`CViaHandler`),
  and `DoesMatch`, whether a via applies to a message. An address is a pair of
  a node (zone, net and node) and a point, a wildcard is the whole of either: the
  loops only ask whether an address matches, and `AddressWords` says when.
* **RouteTable** is `CRouteHandler` while the file is read. `vias`, `onFrom`,
  `onExcept` and `switches` are its members; `reader` says whom the next word
  belongs to, which in the code is the pointer `CommandProcessor`. `SetupNewVia`
  is a verb, `SetWaypoint`, `BadWaypoint` and `AddTarget` are the branches of
  `Process`, the other actions are the handler of one keyword each. A via that
  never got its waypoint is used again by the next verb, as in the code.
* **RuleList** is the abstract specification: a list of rules to which a word
  either adds a rule, adds to the last one, or does nothing. `RouteTable!Table`,
  the vias that `GetViaCount` lets the loops see, implements it.
* **RouteSentences** runs the table beside `written`, the list of sentences with
  the meaning the manual gives their words, and compares the two.
* **RouteDecision** asks the finished table about messages, one after the other;
  a step is an iteration of one of the two loops. `ignore`, `got`, `storage` and
  `attrib` are the locals `Ignore`, `GotAMatch`, `ShouldGo` and `AttribPack`.
* **Analysis** is what happens to a message before: one action per control line
  of `ProcessLine` (the branches of the kludges), one per step of `PostAnalysis`.
  `info` is `S_Visu`, `vias` and `path` are `SL_Via` and `SL_Path`; `sendType`,
  `shouldGo`, `attribPack`, `ourAKA`, `qqq` the members of `S_Control` of these
  names. `lines` keeps the text read so far; the program has no such thing, and
  the properties compare it with `info`. `config` is the set of the
  keywords of the configuration that are tested here. The formats differ in the
  header (a `.MSG` has neither zones nor points in it) and in that nothing is
  logged for a message base. The answers of `NoPack` and `FindPackSystem` are left
  open: `RouteDecision` has them, for each address they can be asked about. A via
  line is parsed twice, the second time with the rest of the line and without a
  look at the result; when that is longer than 79 characters the address is
  whatever the local held before, and `Leftovers` stands for it. Properties that
  depend on the via lines say `Legible` to leave such texts out.
* **Outbound** is `AnalyzeNet` from the moment a waypoint is known, one file
  operation per action, with `step` for the place in the function. `Connect`,
  `Transmit`, `HangUp` are the mailer, `Withdraw` the author, `Crash` a power
  failure, `Sweep` the removal of a stale `.BSY`; these are not part of the
  repository and are modelled from what the code and the manual expect of them.
  The content of the outbound is counted per message: copies in a packet, lines
  in a list. A file opened by cfroute and deleted by the mailer is `"unlinked"`:
  what is written to it is lost. `Failing` names what may fail: a packet or a list
  that does not open (`OpenFailOut`, `SubjectToFile`); `"write"`, a message half
  written or not at all (`WriteFails`: `ECONV_SHORTIN`, `NOMEMORY`, a full disk, none
  of which `AnalyzeNet` looks at); `"mark"`, a `remove()` or `FlagAsSent` that fails
  on a message that is there (`MarkFails`). A packet that ends within a message, after
  `NOMEMORY`, a full disk or a power failure, is `torn`: the next message goes behind
  the unfinished one and may become part of its text (`Written`). `unpacked` is a
  history of the messages that came into no packet when they were last written.
* **MessageFate** is the abstract specification of that: a message waits, is
  packed any number of times, and is handled (flagged or deleted) only after it
  was packed, or after it was last packed in vain (`Fail`). `Outbound!AtLeastOnce`
  is the refinement.
* **NetmailRun** composes `Outbound` with `ProcessNetmail` and a clock in ticks
  of two seconds, the resolution of the file times the code compares. The seconds
  of `LASTRUN.CFR` are not doubled where those of a message are, and the model
  does the same (`LastRunSeconds`, `FileSeconds`). `List` includes that a name
  whose `stat` fails ends the listing.

* **MessageBase** is `ProcessSquish` with `AnalyzeSquishNet`: `count` is the number
  the run has come to, `base` the base by numbers, which other programs add to
  and delete from at any step. `GetVisibleInfoSquish`, `SquishToPKT` and the
  deletion open the message by its number each time. What is done to the `.BSY`
  and the lists is that of Outbound and left out. The base is a library; it is
  modelled from the calls made of it. `NoMemory` are the `NOMEMORY` returns of
  `SquishToPKT` and a message that does not open, after which the message is deleted
  or flagged all the same; `KillFails` and `MarkFails` the calls of the library whose
  result nobody looks at. They may fail without limit: `failures` and the copies of a
  message are counted up to `MaxFailures` and `MaxCopies` and stay there.

Operators marked `Mutant:` in front of an action are that action with a
plausible bug; nothing refers to them. They document, for each property, a change
of the code that it detects.

## 3. The runs

| run | question | bounds | result |
|---|---|---|---|
| ConfigReader | does every word reach one handler, do macros keep their words, come to an end and leave nothing behind? | four lines out of 15 in any order, one included file, six uses of macros; 525 thousand states | holds |
| Addresses | are words completed, stored and matched as they are written? | nine words, three of them to a file, two commands, 48 systems; 270 thousand states | holds |
| Sentences | do all orders of words build a table that is well formed, implements `RuleList`, and has the sentences as written? | two vias, one entry each, one flavour, `ENC`, `NONENC`, `ASSUMEWAYPOINTS`; 3.4 million states | holds |
| RouteDecision | is the decision that of the last (or first) matching rule? | every table of up to three vias with one entry, three messages, with and without `TOPDOWN`; 7.6 million states | holds |
| Analysis | is a message understood as it is written, and does its waypoint follow? | three control lines out of 17 in any order, six headers, three configurations, two addresses of ours; 850 thousand states | holds |
| Outbound | at least once, bounded copies, files travel along, `.BSY` honoured and not left behind? | three messages for two systems, failing packets, lists and writes, one failed deletion or flag, one deletable message, one power failure; 3 million states | holds |
| NetmailRun | is a waiting message seen again, and handled in the end? | two messages for one system, three ticks, one power failure, one failed deletion or flag, one deletable message; 990 thousand states | holds |
| MessageBase | is no message skipped or marked unpacked while the base changes under the run? | two messages and one to come, two systems, a deletion by others, failed deletions, flags and conversions without limit, a power failure; 4 million states | holds |
| BusyRace | `.BSY` honoured if a mailer may connect at any moment? | as Outbound, no failures | violated |
| ForgottenNoPacket | are only processed messages skipped, if a packet cannot be opened? | two messages, two ticks | violated |
| ZonegateInOwnZone | is mail flying ZON routed by the gate in our zone? | one header, five kinds of lines | violated |
| MacroOrder | do the words of a macro come in its place, in their order? | a macro of three words and its use | violated |

Why the bounds are enough. *ConfigReader*: what goes wrong with macros takes two
definitions, a line that uses them and one that comes after, and an included
file brings its own first line; the lines define macros of no, one and several
words, nested ones, ones that name themselves or each other, and definitions the
next line goes on with; a lone `DEFINE`, whose name is in the next line, and a day
of the week are among them. Histories stop after six uses, so that a circle of macros
is a finite graph; `NothingLost` speaks of the states before that. *Addresses*: a
word is completed from the one before it on its list, and whether a list begins
or goes on takes a second command; the words are one of each form the parsers
tell apart. The systems differ in every part and have numbers of one and two
digits. *MessageBase*: a deletion before, at and behind the number a run has come
to, by it or by others, takes three messages, of which one may come later. Two failures
counted and four copies let the bound of `PackedFirst` be reached and passed, and a
counter that has come to its end makes the endless run a circle that TLC can find.
*Sentences*: what happens to a sentence depends on
itself and on the via left by the sentence before it, so two vias have every
case of abandoning, reusing and completing; one entry is enough for the lists,
which only grow at the end. (For every size see section 5.) *RouteDecision*: the
effects are those of a match, of a NOPACK match and of a later match on what
these left, three rules; the messages are one to a node, one to a point that is
gated to that node and one to that node gated elsewhere, so that the two loops
disagree. *Outbound*: two messages share a system and a packet, one is alone;
between them they have every flag, and m1, which has the files, may be withdrawn.
One power failure and one message that cannot be marked are enough for a second and a
third copy, `CopiesBounded` is proved for any number (`MaxCrashes`, `MaxUnmarked`);
writes fail as often as they like. *NetmailRun*: with two messages
one can be delayed or deleted while the other is listed; three ticks let a
message be older than, as old as and newer than `LASTRUN.CFR`. *Analysis*: three
lines are a via line of ours, one of another system and any line before, between
or after them, or two lines that set the same address and a third that flags or
routes it; the headers are to a point of another node, a point of ours, ourselves
and a foreign zone, and have between them the attributes each format can have in
its header. The two addresses of ours differ in zone and network, so that neither
the first nor the last is always the right one.

`CHECK_DEADLOCK FALSE` is given where the program may stop: a route file ends, is
refused or has come to the bound on its words, or the clock has come to its
bound. Analysis, Outbound and MessageBase are checked for deadlock.

### Properties

* `NothingLost`: a word queued, and a word of a macro used, is handled exactly once,
  however macros are nested: counted over the histories and the queue.
* `MacrosReusable`: an empty queue leaves no macro on a stack, where it would make
  its next use a circular reference.
* `MacrosAsWritten`: each macro has a place in the text where it is defined with just
  its words, closed by `ENDDEFINE` or, under `EOLENDSCOMMAND`, by the end of the
  line: for files without the mistakes `NamedTwice`, `StrayAfterDefine`, `CutShort`
  and `DayAfterLine`, whose macros define no macros and include no files. Each of
  these conditions is needed: without it TLC finds a counterexample (for the last
  one on an instance with three files).
* `LineEndsCommand` (action property): with `EOLENDSCOMMAND` no line starts with a
  command, a parameter or a definition that is due from the one before.
* `Terminates`: reading a file comes to an end, with macros that name themselves
  too, if none lead to each other in a circle (section 6 has what happens then).
* `OwnOnce`: no address of ours is there twice, if `MAIN` comes first.
* `ReadingsAgree`: the two parsers say the same of a plain word: of an address of
  ours, and of the waypoint that begins the sentence read last.
* `EntriesAsWritten`: an entry of a list matches the systems that its word,
  completed from the word before it on the same list, means.
* `WildcardsAsDocumented`: `CompareBit` against the manual's meaning of `*` and `#`,
  written as a recursive function over both strings.
* `SomeKindRouted`: however `ENC` and `NONENC` are combined over abandoned
  sentences, no via ends up refusing both kinds of mail.
* `RulesSpec` (refinement) and `SentencesAsWritten`: see section 2.
* `LastRuleDecides`, `FirstRuleDecides`: which rule decides, stated over the set of
  matching rules and without the loops' locals.
* `LoopDetected`, `ViasLogged`, `PathFollowed`, `AddressesAsWritten`: what the
  program has gathered line by line is what the text, read as a whole, says. The two
  about lists name the places in the text that count (`Logged`, `Moves`), and that
  the list has what stands there and in that order (`Extract`).
* `LoopNotPacked`, `NotToOurselves`, `AttributesFirst`: what is packed, stated over
  the text and not over the kind of routing chosen.
* `OurAkaFits`: the address of ours in the packet is of the network and zone of
  the waypoint, and of its net, if we have such an address.
* `AtLeastOnce` (refinement): a message is flagged or deleted only when a copy of it
  is in a packet or has been sent, or when its last writing failed. That second case
  is not a promise but a fault of the program: section 6. What is excluded is
  every other way to lose a message, by a mailer, an author, a power failure or any
  other file that fails.
* `CopiesBounded`: each copy after the first is paid for by a power failure or by a
  message that could not be deleted or flagged.
* `FilesTravelAlong`, `NoBusyLeft`, `BusyHonoured`: see section 1. `BusyHonoured` is
  an action property: no step of cfroute changes the packet or the lists of a system
  in a session.
* `NotForgotten`: between two runs each waiting message is new for the next run,
  as long as power does not fail, nobody deletes messages, and what was packed could
  be deleted or flagged.
* `EventuallyHandled`: from some point on no `.BSY` but cfroute's own stays and
  deletions and flags do not fail; then every message that waits is handled (or
  withdrawn) in the end.
* `NoneSkipped`: a run over a base has come to each of its messages, the ones added
  meanwhile included, and to none twice without a failure, unless another
  program has deleted one at or before its number.
* `PackedFirst`: a message of a base is marked or deleted after it was packed for its
  own waypoint or after its last conversion failed, packed for no other system, and no
  more often than failures explain, unless the deletion of another has put it in the
  place of the one that was analyzed.
* `RunEnds`: a run over a base comes to its end, however messages come and go, unless
  deletions go on failing.

Some more are defined and proved without a run of their own: `OnlyLastIncomplete`
and `TableComplete` (RouteTable), `PackedSomewhere` (RouteDecision) and
`QqqBulkOnly` (Analysis).

## 4. Fairness

Safety needs none. `EventuallyHandled` is checked under `DailyRunSpec`:
weak fairness of the steps of a run (cfroute is a program with no waits: started,
it comes to the end of its loop); weak fairness of `BeginRun(FALSE)`, which says
that the node goes on starting it, as it must for any netmail to be packed; and
strong fairness of `BeginRun(TRUE)`, a run with `-I`, which the manual recommends
to have once a day (`doc/manual.eng`, switch -I). Strong, because the runs in between disable it again and
again. Without the daily run the property is false: a power failure or a broken
listing leaves messages older than `LASTRUN.CFR`. Two more assumptions are premises
of the property: that the sessions of the mailer end, and that `remove()` and
`FlagAsSent` fail no more from some point on (`<>[][~MarkFails]_outboundVars`). The code
justifies neither: a message that can never be deleted is packed by every run with
`-I`. (In the run `MaxUnmarked` bounds these failures; the premise says the same.)

`Terminates` is checked under `FairReaderSpec` and `RunEnds` under `FairSpec` of
MessageBase: weak fairness of the steps of cfroute. Both are loops that wait for
nobody. `RunEnds` assumes that deletions stop failing (`<>[][~KillFails]_vars`): the result
of `MsgKillMsg` is not looked at, and `ProcessSquish` comes to the same number again.
Without that premise it is false, and TLC finds the circle of `Analyze`, `Pack` and
`KillFails`, which the model does not bound. Nothing is assumed of the other programs. They may add only the finitely
many messages of `Msg`: a tosser that adds one for each that is packed would
indeed keep a run going.

## 5. What is proved

For every value of the constants, under the assumptions named in the modules:

* **ConfigReaderProofs**. `ReaderTyped`: among the types is that no two macros have
  the same name, and that there is a macro to add words to while one is being
  defined. `LinesEndCommands`, from an invariant about the state between lines
  (`BetweenLines`): the first line of an included file is the exception, for
  `onNew` is shared where the locals are not. `WordsHandledOnce` counts: for each
  word, its places among those handled and pending are as many as among those
  queued and in the bodies used (`Balanced`). How a count changes when a word is
  appended, taken or a body is spliced in are lemmas about `Count` and `Spliced`.
  `MacrosWorkedOff` needs that ends of macros and macros on the stack come in
  pairs (`Paired`), and that stacks are empty where a line begins.

  `MacrosWritten` takes the largest invariant of the project, `MacroInv`, under the
  conditions of the property (`Clean`; `CleanBefore` shows that what is clean has
  been clean before). `Written` alone is not inductive, for where a word goes
  depends on the calls, the queue and the definition that is open. `CallsKnown`: the row of `DEFINE`
  is in `CurrentToken` only while `DEFINE` is the command or after a line has ended
  one, and all calls but the innermost are in an `INCLUDE`. `QueueKnown`: what is
  queued has been read, a `DEFINE` just now and alone, and words of a macro come with their end.
  `DefinitionKnown`: while a definition is read the queue has no words of a macro,
  the word handled last (`Place`) is its `DEFINE`, its `ENDDEFINE` or the last word
  of the macro so far, and all macros before it were defined in front of it
  (`WrittenBefore`, which is what excludes a second definition of a name). The end of an included file within a
  definition is the step that needs `CutShort`, and `INCLUDE` needs `StackMatches`:
  no end of a macro is in the queue, so nothing is.
* **RouteTableProofs**. `TableTyped` and `TableWellFormed`: `TypeOK`, `OnlyLastIncomplete`,
  `TableComplete` and `SomeKindRouted`, from the inductive invariant `TableInv`.
  `OnlyLastIncomplete` alone is not inductive: a word of a sentence rewrites the
  last via, so the invariant also says that a sentence being read has a via, that
  a via without a waypoint is one of a routing verb with no entries, and that a
  routing via with one has an address. `TableIsRuleList`: the table implements
  `RuleList`. Each step that rewrites the last via is one more rule, an amendment
  of the last rule or a stutter, according to whether the via had, gets or still
  lacks its waypoint (`ReplacingRefines`).
* **RouteDecisionProofs**. `LastRuleWins`, `FirstRuleWins`, `PackedWhereNamed`
  and `QueryTyped`, from `DecisionInv`: what the locals of the loops know of the
  first `count` vias (`PackSoFar`, `FirstSoFar`, `NoPackLast`), and that the table
  stays while they run. The lemmas about `Matching` say how one more via changes
  the last match.
* **RouteSentencesProofs**. `TableAsWritten`: `SentencesAsWritten` for files of
  any length, from `SentencesInv`.
* **OutboundProofs**. `OutboundTyped`; `CopiesBound` and `BusyReleased`, without
  conditions. `CopiesInv` counts what has gone wrong (`Cost`): a message that waits,
  and is not the one just written, has no more copies than that; `BusyRespected` and `DeliveredAtLeastOnce` under `Guarded`: no
  mailer connects between check and creation of a `.BSY`, `IGNOREBSY` is not
  used, and the outbound directories exist (in a missing directory no `.BSY` can
  be created, and nothing says so); `BusyRespected` also asks that nothing is left to
  FastEcho (`Qqq`), whose packet is written without a look at the `.BSY`. `LockInv` says that between creation and
  release the `.BSY` is cfroute's and its system is in no session, so that the
  packet being written is never taken away; `DeliveryInv` adds that a message is
  in a packet, or known to be in none (`unpacked`), before it is flagged. Without `Guarded` both properties are false,
  as the run BusyRace shows for one of its parts.

  `FilesGoAlong`, under `Guarded`, too: `TravelInv` says that a packet is ahead of
  its list only between the two steps that write them, where the `.BSY` is
  cfroute's, and that a message about to be flagged has its files listed, so that
  an earlier power failure is no excuse after that.
  The same module has the theorems of NetmailRun. `RunIsOutbound`: the runs take only
  steps of Outbound, so that all of the above holds of `ProcessNetmail`. `RunTyped`,
  and `NothingForgotten`: if packets can be opened, and while what was packed can be
  marked, a waiting message is new for the next run or still ahead of this one (`Remembered`), and the queue is of
  messages that have been there. Arithmetic comes in once: a file time with its
  seconds not doubled is never ahead of the clock (`LastRunNotAhead`).
* **MessageBaseProofs**. `BaseTyped`, `CopiesFirst`, `NothingSkipped`. What a step
  knows of the message at its number (`AtMessage`), of the copies there are
  (`CopyFirst`: what is about to be marked has one or failed to get one; `CopyCount`), and of the messages before the number (`Counting`:
  all of them seen, those behind it not, if nothing has moved) is inductive
  together only.
* **AnalysisProofs**, for texts of any length and any addresses and links:
  `AnalysisTyped`, `LoopsDetected`, `LoopsNotPacked`, `NothingToOurselves`,
  `AttributesGoFirst`, `OurAkaFitting` and `QqqForBulk`. `AnalysisInv` says what
  `info` knows of the lines read so far (`TextInv`: the attributes are those of the
  header and all `FLAGS` lines; a message was processed here if a line of ours is
  among the lines, and loops if a foreign one follows it), then that the kind of
  routing follows from the attributes (`KindInv`) and the waypoint from the kind
  (`WaypointInv`). `LoopDetected` alone is not inductive: a foreign line makes a
  loop only if `processedHere` knows of the line of ours before it. For
  `OurAkaFitting`, that the search finds an address at all is a least-element
  argument over the indices, and that the level of a match orders network, zone
  and net in this order is a lemma about `MatchLevel`.

  `AddressesRead`, `PathRead` and `ViasRead` compare `info`, `path` and `vias` with
  the text as a whole. `AddressInv` has what is known of the addresses between the
  lines, where zones and points still wait for the end of the text; a line
  changes the last line of its kind and no other. `PathInv` also knows the last
  entry of the path, which is what the next via line is compared with. That a list
  has just the entries at the places that count, in order, is `Extract`: an order-preserving
  map between places, which one more line extends by one or leaves alone.
* **AddressesProofs**, for any words in any order. `AddressesTyped` and `OursOnce`,
  `ReadingsTheSame`, `EntriesMatch` and `WildcardsMatch`. `OwnInv` knows which of
  the words of ours was stored last, for the next one is completed from it;
  `PreviousInv` that a list completes its words from its own last word or from none;
  `ListInv` keeps what each entry was made of. Below that are lemmas about
  AddressWords: what a number is printed as and what digits are read as, splitting a plain
  word and qualifying it give the same four parts, and `CompareBit` goes through a
  part as its meaning does. `Decimal`, `Value` and `from` are recursive functions;
  what they need of induction is done by the least counterexample
  (`Smallest`: a nonempty set of naturals has a least element).

With these, every invariant and every action property of the passing runs is a
theorem, and so are both refinements (those of Outbound that need it under
`Guarded`, those of NetmailRun if packets can be opened). Each of them, and each inductive invariant,
was checked with TLC before it was proved. `EventuallyHandled`, `Terminates` and
`RunEnds` are only model-checked: liveness is out of the prover's reach. So are
the properties of the runs that end in a counterexample, of course, and those of section 6.

Some proofs failed for a good reason, and what they showed was then found by TLC
on an instance that had not had the case. The properties say it since:

* "4/\*5" as an entry gets every point, although its node does not end in a wildcard:
  `Proper` leaves such words out.
* The waypoint of an earlier sentence says nothing of the via read now:
  "02:3/5" and then "5" are read from different places. `WaypointReadings` speaks of
  the last word that begins a sentence.
* The main address 65535:65535/65535.65535 is the one that stands for none; so
  whether there is one is `inited`, as in the code.
* A name is defined twice by lines that each end with `DEFINE` and have the name at the
  beginning of the next. `NamedTwice` goes by the words, whatever the lines are.
* Under `EOLENDSCOMMAND` a day of the week in the line after a definition starts
  another `DEFINE`, as the keyword before it was one (`DayAfterLine`).
* A macro with `INCLUDE` twice leaves the second one in the queue while the first
  file is read, where the words of the macro then go into a definition of that file.
  Hence `crossed` among the conditions of `MacrosAsWritten`.

## 6. Findings

Places where the program does something else than its manual says; each is a run
whose counterexample shows it.

1. **The `.BSY` check is not atomic** (BusyRace). `fopen(..., "wt")` succeeds on
   a flag that a mailer has created since the check.
2. **A message whose packet cannot be opened is forgotten** (ForgottenNoPacket):
   unlike a delayed one it is not touched, and is older than `LASTRUN.CFR` from
   then on, until a run with `-I`.
3. **A zone gate is looked for in the wrong zone** (ZonegateInOwnZone). Mail from
   zone 2 to zone 1 is routed as to 1:1/2, where the manual and the comment
   above the assignment say 2:2/1.
4. **The words of a macro come in another order** (MacroOrder). They are put behind
   the first token of the queue, one by one and the last one first; into an
   empty queue the last one goes to its head.

More disagreements were met in modelling. These are stated as properties, without
a run of their own:

| property | what the code does |
|---|---|
| `RouteDecision!TopDownFirstRule` | `NoPack` never looks at `TopPriority`: with `TOPDOWN` the last matching rule still decides whether a message stays |
| `RouteSentences!FromListAsWritten` | `SetOnFrom` does not reset `OnExcept`: after `to EXCEPT ... FROM` the from addresses are excluded |
| `RouteSentences!FlavourAsWritten` | the flavour of an abandoned sentence passes to the next one |
| `RouteTable!NoWildcardWaypoint` | a wildcard for the point of a waypoint is accepted |
| `Outbound!FilesKilledAsAsked` | `KILLTRANSITFILES` marks the files of every attach for deletion |
| `Analysis!BossFileRequest` | under `VIABOSSDIRECT` file requests to points go to the boss: `&&` binds before `\|\|` |
| `Addresses!PointsAssumed` | `ASSUMEPOINTS` looks for the dot of a point in the domain, too |
| `Addresses!QuestionMarkAsDocumented` | `?` stands for one character, where the manual says zero or one |
| `ConfigReader!NotCircular` | a macro on the stack is taken for a circular reference whether or not it leads back to itself |
| `ConfigReader!DaysStartNothing` | a day of the week ends the current command and runs the handler of the keyword before it |

Other observations, which follow from the actions:

* **Messages are lost after a failed conversion.** Of the errors of `MSGToPKT` and
  `SquishToPKT` only `ECONV_OPENFAILOUT` is looked at (`netmail.cpp:1449`,
  `squish.cpp:379`). After `ECONV_SHORTIN`, `NOMEMORY`, a message that does not open, or a
  write to a full disk the message is deleted or flagged, and is in no packet. No
  line of the manual promises otherwise, so no run is spent on it;
  `AtLeastOnce` and `PackedFirst` name the case, and without it both are false.
* A packet left within a message spoils the next one: its header is written
  behind the unfinished text. The two zeros that would end the packet are not
  there, and that is all the code looks at.
* A message of a base whose deletion fails for ever keeps the run going for ever,
  with one more copy of it in the packet each time round (`cfroute.cpp:374`).
* A `.MSG` that can be neither deleted nor flagged is packed again by each run
  that sees it, which is each run with `-I`: unlike a delayed one it is not touched.
* A circle of macros that is entered from a third macro is expanded without end:
  the end of the outer macro comes first in the queue and takes the inner one off
  the stack. `doc/HISTORY` says circular references terminate cfroute. That is the
  premise `Cyclic` of `Terminates`.
* A macro defined a second time is not refused: the rest of its definition is
  executed. A word after `ENDDEFINE` that is no command names a new macro.
* An address of ours that is given twice is not stored, and the next AKA is completed
  from the one stored last, not from the word before it. Addresses before `MAIN` are
  not compared.
* `AKA .5` before there is a node prints into a string literal; a first password for
  `:341/70` is completed from a null pointer.
* With a macro such as `MYZONES`, a word the command only warns about is fatal.
* Included files are never closed.

## 7. Plan

Done: the reader, addresses, the routing table and its decisions, the analysis of a
message, the outbound, the netmail run and message bases, with their proofs. What
would come next:

1. **Composition** of `Analysis` with `RouteDecision` in place of the open answers,
   and an editor that rewrites a message between the two readings of `AnalyzeNet`;
   `ConfigReader` handing its words to `RouteTable`, whose `reader` it refines.
2. The tail of `AnalyzeSquishNet` in the outbound next to that of `AnalyzeNet`, which
   it repeats with differences.
3. Proofs about that composition: `RouteDecision` answers `Analysis` for every table, so
   that `LastRuleWins` speaks of the messages `Analysis` lets through; and the safety part of the
   two liveness properties of a run, a measure that each step of a message decreases.

## 8. What is not modelled

* The day of the week of a via: no route file can set it (a day is read as a
  command of its own), so every via has the seven days it is made with.
* Byte layouts, character sets, dates, the log: conversions without control.
* `fastecho.cpp`, `inbounds.cpp`, `encdet.cpp`: they read foreign configuration
  files or bytes of a message and keep no state; what they answer is an input
  (`Qqq` of Outbound, `encrypted` of a message).
* `fc2cfr.c`: a converter of its own, one pass from one file to another.
* Domains in the routing table: its loops compare four numbers and no domain.
  `Addresses` and `Analysis` have them where our own addresses are matched.
* Quotes, comments and environment variables in a line of the route file, the keywords
  that set an option no modelled code reads, and the growing of arrays.
* A message whose text `GetVisibleInfo` cannot read (`netmail.cpp:1433`) is passed over
  and is older than `LASTRUN.CFR` the next time, as after `OpenFailOut`; a `FlagAsSent`
  that has written part of the header; `ControlText` after a failed `realloc`, a null
  pointer the next conversion may use.
* The number that orders the netmail directory: `NetmailRun` leaves the order of
  the queue open, which covers it.

## 9. Running

```
tlc -workers 2 -config Sentences.cfg MCRouteSentences
tlc -workers 2 -config Outbound.cfg MCOutbound
tlc -workers 2 -config ConfigReader.cfg MCConfigReader
tlapm RouteDecisionProofs.tla
```

Each `.cfg` belongs to the MC module named for it in `PROJECT.json`.
