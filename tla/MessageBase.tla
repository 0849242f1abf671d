------------------------------ MODULE MessageBase ------------------------------
(***************************************************************************)
(* ProcessSquish of cfroute.cpp and AnalyzeSquishNet of squish.cpp: the    *)
(* netmail of a Squish or JAM base.  Its messages have no names of their   *)
(* own, only their places in the base, and a message that goes moves those *)
(* behind it up by one, while the run holds on to the number it has come   *)
(* to.  Tossers add messages and editors delete them meanwhile; what a     *)
(* message means is Analysis, what becomes of its packet Outbound.         *)
(***************************************************************************)
EXTENDS Naturals, Sequences, SequencesExt, FiniteSets

CONSTANTS
  Msg,          \* the messages that may come to be in the base
  Stored,       \* the base when cfroute is first started
  System,       \* the waypoints
  Waypoint,     \* ShouldGo of each message
  Kept,         \* messages PostAnalysis leaves alone
  Killing,      \* messages deleted when packed: kill/sent, or in transit
                \* under KILLINTRANSIT
  MaxDeletions, \* bound: messages other programs delete
  MaxCopies,    \* bound: copies of a message counted, more are as many
  MaxFailures,  \* bound: failed deletions and flags counted, more are as many
  MaxCrashes    \* bound: power failures

ASSUME BaseAssumption ==
  /\ Msg # {}
  /\ Stored \in Seq(Msg) /\ \A i, j \in DOMAIN Stored : Stored[i] = Stored[j] => i = j
  /\ Waypoint \in [Msg -> System]
  /\ Kept \subseteq Msg /\ Killing \subseteq Msg
  /\ MaxDeletions \in Nat /\ MaxCopies \in Nat \ {0}
  /\ MaxFailures \in Nat \ {0} /\ MaxCrashes \in Nat

VARIABLES
  base,       \* the base, by message number
  sent,       \* messages flagged as sent
  packed,     \* copies of each message packed for each system
  step,       \* "idle", "next", "open", "mark": the place in AnalyzeSquishNet
  count,      \* the number of the message
  info,       \* the message GetVisibleInfoSquish has read
  killed,     \* history: messages cfroute has deleted
  arrived,    \* history: messages that have been in the base
  seen,       \* history: the messages the run has come to
  again,      \* history: ... and come to again
  shifted,    \* history: a message up to this one has been deleted by another
              \* program during the call
  moved,      \* history: ... during the run
  mistaken,   \* history: messages marked in such a call
  unpacked,   \* history: messages that came into no packet when last converted
  deletions, failures, crashes

content == << base, sent, arrived >>
histories == << killed, seen, again, shifted, moved, mistaken, unpacked >>
bounds == << deletions, failures, crashes >>
vars == << content, packed, step, count, info, histories, bounds >>

\* A counter stays where it can count no further.
CountUp(n, max) == IF n < max THEN n + 1 ELSE n

Goto(from, to) == step = from /\ step' = to

Init ==
  /\ base = Stored /\ sent = {} /\ arrived = Range(Stored)
  /\ packed = [m \in Msg |-> [s \in System |-> 0]]
  /\ step = "idle" /\ count = 1
  /\ info = CHOOSE m \in Msg : TRUE
  /\ killed = {} /\ mistaken = {} /\ unpacked = {}
  /\ seen = {} /\ again = {}
  /\ shifted = FALSE /\ moved = FALSE
  /\ deletions = 0 /\ failures = 0 /\ crashes = 0

\* MsgGetNumMsg
NumMsg == Len(base)

\* Mutant: the loop counts from 0.
StartRunAtZero ==
  /\ Goto("idle", "next")
  /\ count' = 0
  /\ seen' = {} /\ again' = {} /\ moved' = FALSE
  /\ UNCHANGED << content, packed, info, killed, shifted, mistaken, unpacked, bounds >>

\* cfroute is started and opens the base.  There is no LASTRUN.CFR for it.
StartRun ==
  /\ Goto("idle", "next")
  /\ count' = 1
  /\ seen' = {} /\ again' = {} /\ moved' = FALSE
  /\ UNCHANGED << content, packed, info, killed, shifted, mistaken, unpacked, bounds >>

\* The loop asks for the number of messages each time.
EndRun ==
  /\ count > NumMsg /\ Goto("next", "idle")
  /\ UNCHANGED << content, packed, count, info, histories, bounds >>

\* GetVisibleInfoSquish reads message count.
Come(m) ==
  /\ count <= NumMsg /\ m = base[count]
  /\ info' = m /\ shifted' = FALSE
  /\ seen' = seen \cup {m} /\ again' = again \cup (seen \cap {m})

\* Mutant: a delayed message makes the loop start over.
DelayFromStart ==
  /\ Goto("next", "next")
  /\ Come(info') /\ info' \notin sent \cup Kept
  /\ count' = 1
  /\ UNCHANGED << content, packed, killed, moved, mistaken, unpacked, bounds >>

\* PostAnalysis leaves a message that was sent, or ...
LeaveAlone ==
  /\ Goto("next", "next")
  /\ Come(info') /\ info' \in sent \cup Kept
  /\ count' = count + 1
  /\ UNCHANGED << content, packed, killed, moved, mistaken, unpacked, bounds >>

\* ... its system is busy ...
Delay ==
  /\ Goto("next", "next")
  /\ Come(info') /\ info' \notin sent \cup Kept
  /\ count' = count + 1
  /\ UNCHANGED << content, packed, killed, moved, mistaken, unpacked, bounds >>

\* ... or it is to be packed for ShouldGo.
Analyze ==
  /\ Goto("next", "open")
  /\ Come(info') /\ info' \notin sent \cup Kept
  /\ UNCHANGED << content, packed, count, killed, moved, mistaken, unpacked, bounds >>

\* SquishToPKT opens message count again and converts it.
Pack ==
  /\ count <= NumMsg /\ Goto("open", "mark")
  /\ packed' = [packed EXCEPT ![base[count]][Waypoint[info]] = CountUp(@, MaxCopies)]
  /\ unpacked' = IF base[count] = info THEN unpacked \ {info} ELSE unpacked
  /\ UNCHANGED << content, count, info, killed, seen, again, shifted, moved, mistaken, bounds >>

\* NOMEMORY, for the control lines or for the text, or a message that is there and
\* does not open: nobody asks, and the message will be deleted or flagged.
NoMemory ==
  /\ count <= NumMsg /\ Goto("open", "mark")
  /\ unpacked' = unpacked \cup {base[count]}
  /\ UNCHANGED << content, packed, count, info, killed, seen, again, shifted, moved,
                  mistaken, bounds >>

\* ECONV_OPENFAILIN: there is no such message any more.  Nobody asks.
OpenFailIn ==
  /\ count > NumMsg /\ Goto("open", "mark")
  /\ UNCHANGED << content, packed, count, info, histories, bounds >>

\* Mutant: a packet that fails to open is ignored like a message that does.
OpenFailOutIgnored ==
  /\ count <= NumMsg /\ Goto("open", "mark")
  /\ UNCHANGED << content, packed, count, info, histories, bounds >>

\* ECONV_OPENFAILOUT
OpenFailOut ==
  /\ count <= NumMsg /\ Goto("open", "next")
  /\ count' = count + 1
  /\ UNCHANGED << content, packed, info, histories, bounds >>

NoteMistake == mistaken' = IF shifted THEN mistaken \cup {base[count]} ELSE mistaken

\* Mutant: the loop goes on to the next number.
KillAndSkip ==
  /\ info \in Killing /\ count <= NumMsg /\ Goto("mark", "next")
  /\ base' = RemoveAt(base, count)
  /\ killed' = killed \cup {base[count]} /\ NoteMistake
  /\ count' = count + 1
  /\ UNCHANGED << sent, arrived, packed, info, seen, again, shifted, moved, unpacked, bounds >>

\* MsgKillMsg; ENH_KILLED makes the loop come to the same number again.
Kill ==
  /\ info \in Killing /\ count <= NumMsg /\ Goto("mark", "next")
  /\ base' = RemoveAt(base, count)
  /\ killed' = killed \cup {base[count]} /\ NoteMistake
  /\ UNCHANGED << sent, arrived, packed, count, info, seen, again, shifted, moved,
                  unpacked, bounds >>

\* So it does when there is no such message any more, ...
KillNothing ==
  /\ info \in Killing /\ count > NumMsg /\ Goto("mark", "next")
  /\ UNCHANGED << content, packed, count, info, histories, bounds >>

\* ... and when MsgKillMsg fails, as often as it fails: its result is not looked
\* at.
KillFails ==
  /\ info \in Killing /\ count <= NumMsg /\ Goto("mark", "next")
  /\ failures' = CountUp(failures, MaxFailures)
  /\ UNCHANGED << content, packed, count, info, histories, deletions, crashes >>

MarkSent ==
  /\ info \notin Killing /\ count <= NumMsg /\ Goto("mark", "next")
  /\ sent' = sent \cup {base[count]} /\ NoteMistake
  /\ count' = count + 1
  /\ UNCHANGED << base, arrived, packed, info, killed, seen, again, shifted, moved,
                  unpacked, bounds >>

\* MsgWriteMsg fails, and nobody asks either.
MarkFails ==
  /\ info \notin Killing /\ count <= NumMsg /\ Goto("mark", "next")
  /\ failures' = CountUp(failures, MaxFailures)
  /\ count' = count + 1
  /\ UNCHANGED << content, packed, info, histories, deletions, crashes >>

\* MsgReadMsg and MsgWriteMsg of a message that could not be opened: they are
\* called through a null pointer, which ends the program.
MarkNothing ==
  /\ info \notin Killing /\ count > NumMsg /\ Goto("mark", "idle")
  /\ UNCHANGED << content, packed, count, info, histories, bounds >>

ProcessSquish ==
  \/ EndRun \/ LeaveAlone \/ Delay \/ Analyze
  \/ Pack \/ NoMemory \/ OpenFailIn \/ OpenFailOut
  \/ Kill \/ KillNothing \/ KillFails \/ MarkSent \/ MarkFails \/ MarkNothing

-----------------------------------------------------------------------------
(***************************************************************************)
(* The other programs, and a power failure                                 *)
(***************************************************************************)
\* A tosser or an editor adds a message.
Arrive(m) ==
  /\ m \notin arrived
  /\ base' = Append(base, m) /\ arrived' = arrived \cup {m}
  /\ UNCHANGED << sent, packed, step, count, info, histories, bounds >>

\* An editor deletes message i.
Delete(i) ==
  /\ deletions < MaxDeletions /\ deletions' = deletions + 1
  /\ base' = RemoveAt(base, i)
  /\ shifted' = (shifted \/ i <= count)
  /\ moved' = (moved \/ i < count \/ (i = count /\ step # "next"))
  /\ UNCHANGED << sent, arrived, packed, step, count, info, killed, seen, again,
                  mistaken, unpacked, failures, crashes >>

Crash ==
  /\ step # "idle" /\ step' = "idle"
  /\ crashes < MaxCrashes /\ crashes' = crashes + 1
  /\ UNCHANGED << content, packed, count, info, histories, deletions, failures >>

Environment ==
  \/ \E m \in Msg : Arrive(m)
  \/ \E i \in DOMAIN base : Delete(i)
  \/ Crash

Next == StartRun \/ ProcessSquish \/ Environment

Spec == Init /\ [][Next]_vars

\* ProcessSquish waits for nobody.  Nothing makes MsgKillMsg succeed in the end.
FairSpec == Spec /\ WF_vars(ProcessSquish)

-----------------------------------------------------------------------------
(***************************************************************************)
(* Properties                                                              *)
(***************************************************************************)
\* The type invariant: no message is twice in the base, and what is flagged or
\* in the base has come into it.
BaseTypeOK ==
  /\ base \in Seq(Msg) /\ \A i, j \in DOMAIN base : base[i] = base[j] => i = j
  /\ step \in {"idle", "next", "open", "mark"} /\ count \in Nat \ {0}
  /\ info \in Msg /\ packed \in [Msg -> [System -> 0 .. MaxCopies]]
  /\ unpacked \subseteq Msg /\ failures \in 0 .. MaxFailures
  /\ again \subseteq seen /\ seen \subseteq arrived
  /\ Range(base) \cup sent \cup killed \subseteq arrived /\ arrived \subseteq Msg
  /\ killed \cap Range(base) = {}

Copies(m) == packed[m][Waypoint[m]]

\* Deleting messages while counting through them skips none: when the loop ends
\* it has come to every message of the base, the ones added meanwhile included,
\* and to none twice unless it could not be deleted.  Only a deletion behind its
\* back by another program breaks this.
NoneSkipped ==
  (step = "next" /\ count > NumMsg /\ ~moved) =>
    /\ Range(base) \subseteq seen
    /\ failures = 0 => again \cap Range(base) = {}

\* A message is flagged or deleted only when a copy of it is in a packet for its
\* waypoint, as with .MSG files (MessageFate), or when its last conversion had no
\* memory; it is packed for no other system, and a power failure, or a deletion or
\* a flag that failed, costs one more copy at most.  The number of a message is
\* used three times: if another program deletes one before it in between, another
\* message is packed for this one's waypoint, and marked.
PackedFirst ==
  \A m \in Msg \ mistaken :
    /\ m \in sent \cup killed => Copies(m) > 0 \/ m \in unpacked
    /\ deletions = 0 =>
         /\ \A s \in System : packed[m][s] > 0 => s = Waypoint[m]
         /\ failures < MaxFailures => Copies(m) <= 1 + crashes + failures

\* Unless a deletion fails again and again, each run comes to its end, however
\* messages come and go: a delayed message is left for the next one, and what is
\* deleted is not there any more.  If it does fail for ever, so does the run, with
\* one more copy in the packet each time.
RunEnds == <>[][~KillFails]_vars => (step # "idle" ~> step = "idle")
=============================================================================
