------------------------------- MODULE Outbound -------------------------------
(***************************************************************************)
(* AnalyzeNet of netmail.cpp from the moment a message has its waypoint:   *)
(* the .BSY flag, the packet, the attach and request queues and the flag   *)
(* or the deletion of the .MSG, one file operation at a time, next to the  *)
(* programs that share these files: the mailer that empties the outbound,  *)
(* the author who may delete a message, and a power failure.               *)
(*                                                                         *)
(* The files of a system in the outbound (the packet of each flavour, the  *)
(* attach list, the request list) are what the model says of the messages  *)
(* routed to it: how many copies its packet holds, which lines its lists   *)
(* hold.                                                                   *)
(***************************************************************************)
EXTENDS Naturals, FiniteSets

CONSTANTS
  Msg,                 \* the messages of the netmail directory
  System,              \* the waypoints
  Waypoint,            \* ShouldGo of each message
  Attaching,           \* messages with the file attach flag
  Requesting,          \* messages with the file request flag
  KillSent,            \* messages with the kill/sent flag
  InTransit,           \* messages with the in-transit flag
  KillFileSent,        \* messages with the KFS flag
  Qqq,                 \* messages DoQQQPack gives to FastEcho
  IgnoreBSY, KillInTransit, KillInTransitFiles,   \* keywords of the route file
  NoDirectory,         \* systems whose outbound directory is yet to be made
  Failing,             \* what may fail: a "packet" or "queue" that does not
                       \* open, "write": a message half written or not at
                       \* all, "mark": one that is not deleted or flagged
  Withdrawable,        \* messages their author may delete
  Race,                \* a mailer may connect between check and creation of .BSY
  MaxUnmarked,         \* bound: messages that cannot be deleted or flagged
  MaxCrashes           \* bound: power failures

ASSUME OutboundAssumption ==
  /\ Waypoint \in [Msg -> System]
  /\ Attaching \subseteq Msg /\ Requesting \subseteq Msg
  /\ KillSent \subseteq Msg /\ InTransit \subseteq Msg
  /\ KillFileSent \subseteq Msg /\ Qqq \subseteq Msg
  /\ IgnoreBSY \in BOOLEAN /\ KillInTransit \in BOOLEAN
  /\ KillInTransitFiles \in BOOLEAN
  /\ NoDirectory \subseteq System
  /\ Failing \subseteq {"packet", "queue", "write", "mark"}
  /\ Withdrawable \subseteq Msg
  /\ Race \in BOOLEAN
  /\ MaxUnmarked \in Nat /\ MaxCrashes \in Nat

VARIABLES
  file,        \* the .MSG: "waiting", "sent", "killed" or "withdrawn"
  packed,      \* copies of each message in packets on disk
  torn,        \* systems whose packet ends within a message
  lines,       \* lines of the attach and request lists
  bsy,         \* whether the .BSY of each system exists
  directory,   \* whether the outbound directory of each system exists
  warned,      \* messages whose queue failed, as the log says
  unpacked,    \* history: messages that came into no packet when last written
  unmarked,    \* history: how often a message could not be deleted or flagged
  step,        \* where AnalyzeNet is
  msg,         \* the message it is called for
  packet,      \* its packet: "closed", "open", or "unlinked" under it
  subject,     \* names left in the subject
  session,     \* systems the mailer is connected to
  delivered,   \* copies of each message the mailer has sent
  crashes      \* power failures so far

netmail == << file, packed, torn, lines, warned, unpacked, unmarked >>
run == << step, msg, packet, subject >>
others == << session, delivered, crashes >>
outboundVars == << netmail, bsy, directory, run, others >>

After == {"keep", "delete"}

Line == [msg : Msg, list : {"attach", "request"}, after : After]

\* The system whose files this call works on.
Here == Waypoint[msg]

\* The .BSY of a QQQ file has the random name of that file: nobody else looks
\* for it, and it is left out.
Locks(m) == ~IgnoreBSY /\ m \notin Qqq

-----------------------------------------------------------------------------
OutboundInit ==
  /\ file = [m \in Msg |-> "waiting"]
  /\ packed = [m \in Msg |-> 0]
  /\ torn = {}
  /\ lines = {}
  /\ warned = {}
  /\ unpacked = {} /\ unmarked = 0
  /\ bsy = [s \in System |-> FALSE]
  /\ directory = [s \in System |-> s \notin NoDirectory]
  /\ step = "idle"
  /\ msg \in Msg
  /\ packet = "closed"
  /\ subject = FALSE
  /\ session = {}
  /\ delivered = [m \in Msg |-> 0]
  /\ crashes = 0

Goto(from, to) == step = from /\ step' = to

\* GetVisibleInfo reads the message and PostAnalysis finds its waypoint.
Analyze(m) ==
  /\ file[m] = "waiting"
  /\ Goto("idle", IF Locks(m) THEN "check" ELSE "open")
  /\ msg' = m /\ subject' = TRUE
  /\ UNCHANGED << netmail, bsy, directory, packet, others >>

\* Mutant: the .BSY of a connected mailer is not seen.
CheckSemBlind ==
  /\ Goto("check", "create")
  /\ UNCHANGED << netmail, bsy, directory, msg, packet, subject, others >>

\* CheckAndCreateSem: adaptcase finds no .BSY ...
CheckSem ==
  /\ ~bsy[Here]
  /\ Goto("check", "create")
  /\ UNCHANGED << netmail, bsy, directory, msg, packet, subject, others >>

\* ... or finds one, and AnalyzeNet returns ENH_DELAYED.
Delay ==
  /\ bsy[Here]
  /\ Goto("check", "idle")
  /\ UNCHANGED << netmail, bsy, directory, msg, packet, subject, others >>

\* The fopen that follows says nothing if it fails, and takes over a .BSY that
\* has appeared meanwhile.
CreateSem ==
  /\ Goto("create", "open")
  /\ bsy' = [bsy EXCEPT ![Here] = @ \/ directory[Here]]
  /\ UNCHANGED << netmail, directory, msg, packet, subject, others >>

\* makedirandfopen makes what is missing of the path of a file to be created; a
\* file that fails to open may have its directory then.
MakeDirectory == directory' = [directory EXCEPT ![Here] = TRUE]

MayMakeDirectory == MakeDirectory \/ UNCHANGED directory

\* MSGToPKT opens both files.
OpenPacket ==
  /\ file[msg] # "withdrawn"
  /\ Goto("open", "write")
  /\ packet' = "open"
  /\ IF msg \in Qqq THEN UNCHANGED directory ELSE MakeDirectory
  /\ UNCHANGED << netmail, bsy, msg, subject, others >>

\* ECONV_OPENFAILIN: the message is gone, and AnalyzeNet carries on.  One that is
\* there and does not open ends as in WriteFails.
OpenFailIn ==
  /\ file[msg] = "withdrawn"
  /\ Goto("open", "attach")
  /\ UNCHANGED << netmail, bsy, directory, msg, packet, subject, others >>

RemoveSem == bsy' = IF Locks(msg) THEN [bsy EXCEPT ![Here] = FALSE] ELSE bsy

\* Mutant: a packet that fails to open is ignored like the other errors.
OpenFailOutIgnored ==
  /\ "packet" \in Failing
  /\ file[msg] # "withdrawn"
  /\ Goto("open", "attach")
  /\ UNCHANGED << netmail, bsy, directory, msg, packet, subject, others >>

\* Mutant: returning for a packet that fails to open leaves the .BSY.
OpenFailOutLocked ==
  /\ "packet" \in Failing
  /\ file[msg] # "withdrawn"
  /\ Goto("open", "idle")
  /\ UNCHANGED << netmail, bsy, directory, msg, packet, subject, others >>

\* ECONV_OPENFAILOUT: the only error that stops AnalyzeNet.
OpenFailOut ==
  /\ "packet" \in Failing
  /\ file[msg] # "withdrawn"
  /\ Goto("open", "idle")
  /\ IF msg \in Qqq THEN UNCHANGED directory ELSE MayMakeDirectory
  /\ RemoveSem
  /\ UNCHANGED << netmail, msg, packet, subject, others >>

\* What is written behind an unfinished message cannot be told from its text.  A
\* packet of another flavour need not be torn.
Written ==
  IF packet = "open"
  THEN \/ /\ packed' = [packed EXCEPT ![msg] = @ + 1]
          /\ unpacked' = unpacked \ {msg}
       \/ /\ Here \in torn /\ msg \notin Qqq
          /\ unpacked' = unpacked \cup {msg}
          /\ UNCHANGED packed
  ELSE UNCHANGED << packed, unpacked >>

\* Mutant: the .BSY goes once the packet is closed, before the lists.
WritePacketReleasing ==
  /\ Goto("write", "attach")
  /\ Written
  /\ packet' = "closed"
  /\ RemoveSem
  /\ UNCHANGED << file, torn, lines, warned, unmarked, directory, msg, subject, others >>

\* The message, its via line and the end of the packet are written and the
\* packet is closed; into an unlinked file they are written in vain.
WritePacket ==
  /\ Goto("write", "attach")
  /\ Written
  /\ packet' = "closed"
  /\ UNCHANGED << file, torn, lines, warned, unmarked, bsy, directory, msg, subject, others >>

\* A packet cfroute leaves within a message.  That of a QQQ file is its own.
MayTear ==
  \/ UNCHANGED torn
  \/ "write" \in Failing /\ packet = "open" /\ msg \notin Qqq /\ torn' = torn \cup {Here}

\* ECONV_SHORTIN before a byte of the message is written, NOMEMORY behind its
\* header, or a write to a full disk that nobody looks at: AnalyzeNet carries on.
WriteFails ==
  /\ "write" \in Failing
  /\ Goto("write", "attach")
  /\ unpacked' = unpacked \cup {msg}
  /\ MayTear
  /\ packet' = "closed"
  /\ UNCHANGED << file, packed, lines, warned, unmarked, bsy, directory, msg, subject, others >>

\* SubjectToFile writes the names of the subject and takes them out of it.  A
\* line keeps its file or deletes it when sent; truncating it (TFS) counts as
\* keeping it.
SubjectToFile(list, after) ==
  \/ /\ lines' = IF subject THEN lines \cup {[msg |-> msg, list |-> list, after |-> after]}
                            ELSE lines
     /\ subject' = FALSE
     /\ MakeDirectory
     /\ UNCHANGED warned
  \/ /\ "queue" \in Failing
     /\ warned' = warned \cup {msg}
     /\ MayMakeDirectory
     /\ UNCHANGED << lines, subject >>

\* Mutant: a file that is truncated when sent gets a mark of its own.
AttachTruncating ==
  /\ Goto("attach", "request")
  /\ IF msg \in Attaching THEN SubjectToFile("attach", "truncate")
                          ELSE UNCHANGED << lines, subject, directory, warned >>
  /\ UNCHANGED << file, packed, torn, unpacked, unmarked, bsy, msg, packet, others >>

Attach ==
  /\ Goto("attach", "request")
  /\ IF msg \in Attaching
     THEN SubjectToFile("attach", IF msg \in KillFileSent \/ KillInTransitFiles
                                  THEN "delete" ELSE "keep")
     ELSE UNCHANGED << lines, subject, directory, warned >>
  /\ UNCHANGED << file, packed, torn, unpacked, unmarked, bsy, msg, packet, others >>

Request ==
  /\ Goto("request", "mark")
  /\ IF msg \in Requesting THEN SubjectToFile("request", "keep")
                           ELSE UNCHANGED << lines, subject, directory, warned >>
  /\ UNCHANGED << file, packed, torn, unpacked, unmarked, bsy, msg, packet, others >>

\* Mutant: a message without kill/sent flag is left as it is.
MarkKillsOnly ==
  /\ Goto("mark", "release")
  /\ file' = [file EXCEPT ![msg] =
                IF @ # "withdrawn" /\ msg \in KillSent THEN "killed" ELSE @]
  /\ UNCHANGED << packed, torn, lines, warned, unpacked, unmarked, bsy, directory, msg,
                  packet, subject, others >>

\* The message is deleted or flagged as sent; if its author was faster, it is
\* gone already.
Mark ==
  /\ Goto("mark", "release")
  /\ file' = [file EXCEPT ![msg] =
                IF @ = "withdrawn" THEN @
                ELSE IF msg \in KillSent \/ (msg \in InTransit /\ KillInTransit)
                     THEN "killed" ELSE "sent"]
  /\ UNCHANGED << packed, torn, lines, warned, unpacked, unmarked, bsy, directory, msg,
                  packet, subject, others >>

\* remove() or FlagAsSent fails on a message that is there: the log has a warning,
\* and the message goes on waiting.
MarkFails ==
  /\ "mark" \in Failing /\ file[msg] # "withdrawn"
  /\ Goto("mark", "release")
  /\ unmarked < MaxUnmarked /\ unmarked' = unmarked + 1
  /\ UNCHANGED << file, packed, torn, lines, warned, unpacked, bsy, directory, msg,
                  packet, subject, others >>

\* ReleaseSem deletes the .BSY whoever made it.
Release ==
  /\ Goto("release", "idle")
  /\ RemoveSem
  /\ UNCHANGED << netmail, directory, msg, packet, subject, others >>

AnalyzeNet ==
  \/ \E m \in Msg : Analyze(m)
  \/ CheckSem \/ Delay \/ CreateSem
  \/ OpenPacket \/ OpenFailIn \/ OpenFailOut \/ WritePacket \/ WriteFails
  \/ Attach \/ Request \/ Mark \/ MarkFails \/ Release

-----------------------------------------------------------------------------
(***************************************************************************)
(* The other programs.  The mailer takes the .BSY at once, never one that  *)
(* is there, and needs the directory to make it in.                        *)
(***************************************************************************)
Connect(s) ==
  /\ ~bsy[s] /\ directory[s] /\ s \notin session
  /\ Race \/ ~(step = "create" /\ Here = s)
  /\ bsy' = [bsy EXCEPT ![s] = TRUE]
  /\ session' = session \cup {s}
  /\ UNCHANGED << netmail, directory, run, delivered, crashes >>

Sent(m, s) == Waypoint[m] = s /\ m \notin Qqq

\* The mailer sends and deletes what the outbound has for the system.
Transmit(s) ==
  /\ s \in session
  /\ delivered' = [m \in Msg |-> delivered[m] + IF Sent(m, s) THEN packed[m] ELSE 0]
  /\ packed' = [m \in Msg |-> IF Sent(m, s) THEN 0 ELSE packed[m]]
  /\ torn' = torn \ {s}
  /\ lines' = {l \in lines : Waypoint[l.msg] # s}
  /\ packet' = IF packet = "open" /\ Sent(msg, s) THEN "unlinked" ELSE packet
  /\ UNCHANGED << file, warned, unpacked, unmarked, bsy, directory, step, msg, subject,
                  session, crashes >>

HangUp(s) ==
  /\ s \in session
  /\ session' = session \ {s}
  /\ bsy' = [bsy EXCEPT ![s] = FALSE]
  /\ UNCHANGED << netmail, directory, run, delivered, crashes >>

\* The author deletes a message that still waits.
Withdraw(m) ==
  /\ m \in Withdrawable /\ file[m] = "waiting"
  /\ file' = [file EXCEPT ![m] = "withdrawn"]
  /\ UNCHANGED << packed, torn, lines, warned, unpacked, unmarked, bsy, directory, run,
                  others >>

\* Power failure: cfroute is gone, what it did to the files stays, a message
\* half written included.
Crash ==
  /\ crashes < MaxCrashes
  /\ MayTear
  /\ step' = "idle" /\ packet' = "closed"
  /\ crashes' = crashes + 1
  /\ UNCHANGED << file, packed, lines, warned, unpacked, unmarked, bsy, directory, msg,
                  subject, session, delivered >>

\* Between check and release the .BSY of this system is cfroute's.
Holding(s) ==
  /\ step \in {"open", "write", "attach", "request", "mark", "release"}
  /\ Locks(msg) /\ Here = s

\* A .BSY nobody holds is cleared, by hand or when the mailer starts.
Sweep(s) ==
  /\ bsy[s] /\ s \notin session /\ ~Holding(s)
  /\ bsy' = [bsy EXCEPT ![s] = FALSE]
  /\ UNCHANGED << netmail, directory, run, others >>

Environment ==
  \/ \E s \in System : Connect(s) \/ Transmit(s) \/ HangUp(s) \/ Sweep(s)
  \/ \E m \in Msg : Withdraw(m)
  \/ Crash

OutboundNext == AnalyzeNet \/ Environment

OutboundSpec == OutboundInit /\ [][OutboundNext]_outboundVars

-----------------------------------------------------------------------------
(***************************************************************************)
(* Properties                                                              *)
(***************************************************************************)
\* The type invariant.
OutboundTypeOK ==
  /\ file \in [Msg -> {"waiting", "sent", "killed", "withdrawn"}]
  /\ packed \in [Msg -> Nat] /\ delivered \in [Msg -> Nat]
  /\ torn \subseteq System /\ lines \subseteq Line /\ warned \subseteq Msg
  /\ unpacked \subseteq Msg /\ unmarked \in 0 .. MaxUnmarked
  /\ bsy \in [System -> BOOLEAN] /\ directory \in [System -> BOOLEAN]
  /\ step \in {"idle", "check", "create", "open", "write", "attach", "request",
               "mark", "release"}
  /\ msg \in Msg /\ packet \in {"closed", "open", "unlinked"}
  /\ subject \in BOOLEAN
  /\ session \subseteq System /\ crashes \in 0 .. MaxCrashes

Copies(m) == packed[m] + delivered[m]

Handled(m) == file[m] \in {"sent", "killed"}

\* A message is flagged or deleted only when a copy of it is in a packet or has
\* been sent, or when writing it failed and AnalyzeNet did not look: whatever the
\* mailer, the author, power failures and unfinished packets do, no message that
\* was written well is lost, and none is packed after it was handled.
Fate == INSTANCE MessageFate WITH
  fate <- [m \in Msg |-> IF Handled(m) THEN "handled" ELSE file[m]],
  copies <- [m \in Msg |-> Copies(m)],
  failed <- unpacked

AtLeastOnce == Fate!Spec

\* A message is packed twice only when the power failed before it was marked, or
\* it could not be deleted or flagged: each costs one more copy at most.
CopiesBounded == \A m \in Msg : Copies(m) <= 1 + crashes + unmarked

\* When the .BSY of a system is free, so that a mailer may connect, a message
\* in its packet has its files in the attach list, or the log has a warning, or
\* the power failed between the two and the message is still waiting.
FilesTravelAlong ==
  \A m \in Attaching \ Qqq :
    ~bsy[Waypoint[m]] /\ packed[m] > 0 =>
      \/ \E l \in lines : l.msg = m /\ l.list = "attach"
      \/ m \in warned
      \/ file[m] \in {"waiting", "withdrawn"} /\ crashes > 0

\* No path through AnalyzeNet leaves a .BSY behind: only a power failure does.
NoBusyLeft ==
  crashes = 0 =>
    \A s \in System : bsy[s] => s \in session \/ Holding(s)

\* "If there is a message to be sent to a node that is now connected, CFR will
\* not pack the message, but leave it untouched until the .BSY dissapears."
\* (manual.eng, IGNOREBSY): cfroute does not touch the packet and the lists of
\* a system while the mailer is connected to it.
OfSystem(s) ==
  << [m \in Msg |-> IF Sent(m, s) THEN packed[m] ELSE 0],
     s \in torn,
     {l \in lines : Waypoint[l.msg] = s} >>

BusyHonoured ==
  [][AnalyzeNet => \A s \in session : UNCHANGED OfSystem(s)]_outboundVars

\* "By default, CFRoute will only flag files for deletion when the message has
\* a KFS flag.  When you enable this keyword, file-attaches from in-transit
\* netmail will always be flagged for deletion." (manual.eng, KILLTRANSITFILES)
FilesKilledAsAsked ==
  \A l \in lines : l.after = "delete" =>
    l.msg \in KillFileSent \/ (KillInTransitFiles /\ l.msg \in InTransit)
=============================================================================
