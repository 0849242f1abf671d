------------------------------ MODULE NetmailRun ------------------------------
(***************************************************************************)
(* ProcessNetmail of cfroute.cpp, run after run: what LASTRUN.CFR and the  *)
(* dates of the .MSG files make of the netmail directory while other       *)
(* programs add messages to it and delete some, composed with Outbound,    *)
(* which is AnalyzeNet for one message.                                    *)
(*                                                                         *)
(* Time goes in ticks of two seconds, what a DOS file time can tell apart. *)
(***************************************************************************)
EXTENDS Outbound

CONSTANTS
  TicksPerMinute,
  MaxClock          \* bound: ticks

ASSUME NetmailRunAssumption ==
  TicksPerMinute \in Nat \ {0} /\ MaxClock \in Nat \ {0}

VARIABLES
  clock,
  present,   \* messages that have come into the netmail directory
  stamp,     \* file time of each .MSG
  lastrun,   \* file time of LASTRUN.CFR, 0 before the first run
  since,     \* what this run read from it (lrdate and dt)
  phase,     \* "down", "open", "list" or "work"
  names,     \* names the listing has yet to return
  queue      \* NetNames: messages this run has yet to analyze

scan == << since, phase, names, queue >>
times == << clock, present, stamp, lastrun >>
runVars == << outboundVars, times, scan >>

\* The seconds of a file time are doubled for a message, not for LASTRUN.CFR.
FileSeconds(t) == 2 * t
LastRunSeconds(t) == (t \div TicksPerMinute) * 2 * TicksPerMinute + (t % TicksPerMinute)

\* Mutant: a message of the same time is older.
IsNewer(m, last) == LastRunSeconds(last) < FileSeconds(stamp[m])

\* isolder < 0
IsNew(m, last) == LastRunSeconds(last) <= FileSeconds(stamp[m])

InDirectory == {m \in present : file[m] \in {"waiting", "sent"}}

-----------------------------------------------------------------------------
RunInit ==
  /\ OutboundInit
  /\ clock = 1
  /\ present = {}
  /\ stamp = [m \in Msg |-> 0]
  /\ lastrun = 0
  /\ since = 0
  /\ phase = "down"
  /\ names = {} /\ queue = {}

\* Mutant: the file is touched with a time to come.
BeginRunAhead(ignoreDates) ==
  /\ phase = "down" /\ phase' = "open"
  /\ since' = IF ignoreDates THEN 0 ELSE lastrun
  /\ lastrun' = clock + 1
  /\ UNCHANGED << outboundVars, clock, present, stamp, names, queue >>

\* Mutant: -I is forgotten.
BeginRunDated(ignoreDates) ==
  /\ phase = "down" /\ phase' = "open"
  /\ since' = lastrun
  /\ lastrun' = clock
  /\ UNCHANGED << outboundVars, clock, present, stamp, names, queue >>

\* The date of LASTRUN.CFR is read, unless -I is given, and the file touched.
BeginRun(ignoreDates) ==
  /\ phase = "down" /\ phase' = "open"
  /\ since' = IF ignoreDates THEN 0 ELSE lastrun
  /\ lastrun' = clock
  /\ UNCHANGED << outboundVars, clock, present, stamp, names, queue >>

OpenDirectory ==
  /\ phase = "open" /\ phase' = "list"
  /\ names' = InDirectory
  /\ UNCHANGED << outboundVars, times, since, queue >>

\* readdir and stat of one name.  If it has gone since the directory was
\* opened, stat fails, and that ends the listing.
List(m) ==
  /\ phase = "list" /\ m \in names
  /\ IF m \in InDirectory
     THEN /\ names' = names \ {m}
          /\ queue' = IF IsNew(m, since) THEN queue \cup {m} ELSE queue
          /\ UNCHANGED phase
     ELSE phase' = "work" /\ names' = {} /\ UNCHANGED queue
  /\ UNCHANGED << outboundVars, times, since >>

EndOfList ==
  /\ phase = "list" /\ names = {}
  /\ phase' = "work"
  /\ UNCHANGED << outboundVars, times, since, names, queue >>

\* AnalyzeNet for the next message.  The queue is sorted by number; the order
\* is left open here.
Take(m) ==
  /\ phase = "work" /\ step = "idle" /\ m \in queue
  /\ queue' = queue \ {m}
  /\ \/ Analyze(m)
     \/ file[m] # "waiting" /\ UNCHANGED outboundVars
  /\ UNCHANGED << times, since, phase, names >>

Stamped(m) == stamp' = [stamp EXCEPT ![m] = clock]

\* A delayed message is touched, and so is one that is flagged as sent.
Touching ==
  /\ Delay \/ Mark
  /\ Stamped(msg)
  /\ UNCHANGED << clock, present, lastrun, scan >>

Working ==
  /\ \/ CheckSem \/ CreateSem \/ OpenPacket \/ OpenFailIn \/ OpenFailOut
     \/ WritePacket \/ WriteFails \/ Attach \/ Request \/ MarkFails \/ Release
  /\ UNCHANGED << times, scan >>

EndRun ==
  /\ phase = "work" /\ step = "idle" /\ queue = {}
  /\ phase' = "down"
  /\ UNCHANGED << outboundVars, times, since, names, queue >>

Cfroute ==
  \/ \E i \in BOOLEAN : BeginRun(i)
  \/ OpenDirectory \/ EndOfList \/ EndRun
  \/ \E m \in Msg : List(m) \/ Take(m)
  \/ Touching \/ Working

-----------------------------------------------------------------------------
Tick ==
  /\ clock < MaxClock /\ clock' = clock + 1
  /\ UNCHANGED << outboundVars, present, stamp, lastrun, scan >>

\* The tosser or an editor writes a message; a listing under way may have it.
Arrive(m) ==
  /\ m \notin present
  /\ present' = present \cup {m}
  /\ Stamped(m)
  /\ \/ phase = "list" /\ names' = names \cup {m}
     \/ UNCHANGED names
  /\ UNCHANGED << outboundVars, clock, lastrun, since, phase, queue >>

\* The power fails, in AnalyzeNet or between two messages.
PowerFailure ==
  /\ phase # "down" /\ phase' = "down"
  /\ names' = {} /\ queue' = {}
  /\ Crash
  /\ UNCHANGED << times, since >>

Others ==
  \/ /\ \/ \E s \in System : Connect(s) \/ Transmit(s) \/ HangUp(s) \/ Sweep(s)
        \/ \E m \in present : Withdraw(m)
     /\ UNCHANGED << times, scan >>
  \/ Tick
  \/ \E m \in Msg : Arrive(m)
  \/ PowerFailure

RunNext == Cfroute \/ Others

RunSpec == RunInit /\ [][RunNext]_runVars

\* cfroute goes on to the end of a run ...
CfrouteFairness ==
  /\ WF_runVars(OpenDirectory \/ EndOfList \/ EndRun)
  /\ WF_runVars(\E m \in Msg : List(m) \/ Take(m))
  /\ WF_runVars(Touching \/ Working)

\* ... and the event loop of the node starts it again and again, without -I ...
FairRunSpec == RunSpec /\ CfrouteFairness /\ WF_runVars(BeginRun(FALSE))

\* ... and with -I again and again too, as the manual recommends to do every
\* day: strong fairness, for the runs without it disable this one all the time.
DailyRunSpec == FairRunSpec /\ SF_runVars(BeginRun(TRUE))

-----------------------------------------------------------------------------
(***************************************************************************)
(* Properties                                                              *)
(***************************************************************************)
\* The type invariant.
RunTypeOK ==
  /\ OutboundTypeOK
  /\ clock \in 1 .. MaxClock /\ lastrun \in 0 .. MaxClock /\ since \in 0 .. MaxClock
  /\ present \subseteq Msg /\ stamp \in [Msg -> 0 .. MaxClock]
  /\ phase \in {"down", "open", "list", "work"}
  /\ names \subseteq Msg /\ queue \subseteq Msg

\* "This way it can skip messages that are older (thus they have been processed
\* already)" (manual.eng, -I): between two runs, a message that still waits is
\* new for the next run, however it came, was delayed, or tied with the clock.
NeverForgotten ==
  phase = "down" =>
    \A m \in present : file[m] = "waiting" => IsNew(m, lastrun)

\* That is so as long as the power has not failed, no author has deleted a message,
\* and each message that was packed could be deleted or flagged: one that could
\* not waits on with its old date.  (So does one GetVisibleInfo cannot read, which
\* never comes to Analyze.)
NotForgotten ==
  crashes = 0 /\ unmarked = 0 /\ (\A m \in Msg : file[m] # "withdrawn") =>
    NeverForgotten

\* Once nothing but cfroute makes .BSY flags any more, and remove() and FlagAsSent
\* fail no more, every message that waits is handled in the end: being delayed
\* costs it nothing but time.  With -I that holds after power failures, broken
\* listings and messages that could not be deleted or flagged too.
EventuallyHandled ==
  <>[](\A s \in System : bsy[s] => Holding(s)) /\ <>[][~MarkFails]_outboundVars =>
    \A m \in Msg : (m \in present /\ file[m] = "waiting") ~> (file[m] # "waiting")
=============================================================================
