---------------------------- MODULE OutboundProofs -----------------------------
(***************************************************************************)
(* Theorems about Outbound, for any messages, systems and failures, and    *)
(* about NetmailRun, which takes its steps, for any number of runs.        *)
(***************************************************************************)
EXTENDS NetmailRun, TLAPS

-----------------------------------------------------------------------------
\* The type invariant.
LEMMA OutboundTypeInit == OutboundInit => OutboundTypeOK
<1>1. 0 \in Nat /\ MaxCrashes \in Nat /\ MaxUnmarked \in Nat
  BY OutboundAssumption
<1>2. ASSUME OutboundInit PROVE bsy \in [System -> BOOLEAN] /\ directory \in [System -> BOOLEAN]
  BY <1>2, Zenon DEF OutboundInit
<1>3. ASSUME OutboundInit
      PROVE  /\ file \in [Msg -> {"waiting", "sent", "killed", "withdrawn"}]
             /\ packed \in [Msg -> Nat] /\ delivered \in [Msg -> Nat]
             /\ crashes \in 0 .. MaxCrashes /\ unmarked \in 0 .. MaxUnmarked
  BY <1>1, <1>3 DEF OutboundInit
<1>4. QED
  BY <1>2, <1>3 DEF OutboundInit, OutboundTypeOK

\* The lists stay sets of lines.
LEMMA SubjectToFileType ==
  ASSUME OutboundTypeOK, NEW list \in {"attach", "request"}, NEW after \in After,
         SubjectToFile(list, after)
  PROVE  /\ lines' \subseteq Line
         /\ warned' \subseteq Msg
         /\ subject' \in BOOLEAN
         /\ directory' \in [System -> BOOLEAN]
<1>1. [msg |-> msg, list |-> list, after |-> after] \in Line
  BY DEF OutboundTypeOK, Line
<1>2. QED
  BY <1>1 DEF OutboundTypeOK, SubjectToFile, MayMakeDirectory, MakeDirectory

\* A packet may be torn, of a system.
LEMMA MayTearType ==
  ASSUME OutboundTypeOK, MayTear
  PROVE  torn' \subseteq System
BY OutboundAssumption DEF OutboundTypeOK, MayTear, Here

LEMMA OutboundTypeNext ==
  OutboundTypeOK /\ [OutboundNext]_outboundVars => OutboundTypeOK'
<1> SUFFICES ASSUME OutboundTypeOK, [OutboundNext]_outboundVars
             PROVE  OutboundTypeOK'
  OBVIOUS
<1> USE DEF OutboundTypeOK, Goto, netmail, run, others
<1>1. ASSUME NEW m \in Msg, Analyze(m) PROVE OutboundTypeOK'
  BY <1>1 DEF Analyze
<1>2. CASE CheckSem
  BY <1>2 DEF CheckSem
<1>3. CASE Delay
  BY <1>3 DEF Delay
<1>4. CASE CreateSem
  BY <1>4 DEF CreateSem
<1>5. CASE OpenPacket
  BY <1>5 DEF OpenPacket, MakeDirectory
<1>6. CASE OpenFailIn
  BY <1>6 DEF OpenFailIn
<1>7. CASE OpenFailOut
  BY <1>7 DEF OpenFailOut, MayMakeDirectory, MakeDirectory, RemoveSem
<1>8. CASE WritePacket
  BY <1>8 DEF WritePacket, Written
<1>8a. CASE WriteFails
  BY <1>8a, MayTearType DEF WriteFails
<1>9. CASE Attach
  <2>1. CASE msg \in Attaching
    BY <1>9, <2>1, SubjectToFileType DEF Attach, After
  <2>2. CASE msg \notin Attaching
    BY <1>9, <2>2 DEF Attach
  <2>3. QED
    BY <2>1, <2>2
<1>10. CASE Request
  <2>1. CASE msg \in Requesting
    BY <1>10, <2>1, SubjectToFileType DEF Request, After
  <2>2. CASE msg \notin Requesting
    BY <1>10, <2>2 DEF Request
  <2>3. QED
    BY <2>1, <2>2
<1>11. CASE Mark
  BY <1>11 DEF Mark
<1>11a. CASE MarkFails
  BY <1>11a, OutboundAssumption DEF MarkFails
<1>12. CASE Release
  BY <1>12 DEF Release, RemoveSem
<1>13. ASSUME NEW s \in System, Connect(s) PROVE OutboundTypeOK'
  BY <1>13 DEF Connect
<1>14. ASSUME NEW s \in System, Transmit(s) PROVE OutboundTypeOK'
  BY <1>14 DEF Transmit
<1>15. ASSUME NEW s \in System, HangUp(s) PROVE OutboundTypeOK'
  BY <1>15 DEF HangUp
<1>16. ASSUME NEW s \in System, Sweep(s) PROVE OutboundTypeOK'
  BY <1>16 DEF Sweep
<1>17. ASSUME NEW m \in Msg, Withdraw(m) PROVE OutboundTypeOK'
  BY <1>17 DEF Withdraw
<1>18. CASE Crash
  BY <1>18, OutboundAssumption, MayTearType DEF Crash
<1>19. CASE UNCHANGED outboundVars
  BY <1>19 DEF outboundVars
<1>20. QED
  BY <1>1, <1>2, <1>3, <1>4, <1>5, <1>6, <1>7, <1>8, <1>8a, <1>9, <1>10, <1>11,
     <1>11a, <1>12, <1>13, <1>14, <1>15, <1>16, <1>17, <1>18, <1>19
     DEF OutboundNext, AnalyzeNet, Environment

\* The type invariant of AnalyzeNet's files and of the programs next to it.
THEOREM OutboundTyped == OutboundSpec => []OutboundTypeOK
<1>1. QED
  BY OutboundTypeInit, OutboundTypeNext, PTL DEF OutboundSpec

-----------------------------------------------------------------------------
(***************************************************************************)
(* Copies.  The files, and how many copies of each message there are, are  *)
(* all this part of the argument needs to know of a step.                  *)
(***************************************************************************)
\* Transmitting moves copies, and so does nothing else but WritePacket.
LEMMA CopiesKept ==
  ASSUME OutboundTypeOK, [OutboundNext]_outboundVars, ~WritePacket
  PROVE  \A m \in Msg : Copies(m)' = Copies(m)
<1>1. ASSUME NEW s \in System, Transmit(s), NEW m \in Msg PROVE Copies(m)' = Copies(m)
  BY <1>1 DEF Transmit, Copies, OutboundTypeOK
<1>2. ASSUME UNCHANGED << packed, delivered >> PROVE \A m \in Msg : Copies(m)' = Copies(m)
  BY <1>2 DEF Copies
<1>3. (\E s \in System : Transmit(s)) \/ UNCHANGED << packed, delivered >>
  BY DEF OutboundNext, AnalyzeNet, Environment, Analyze, CheckSem, Delay, CreateSem,
     OpenPacket, OpenFailIn, OpenFailOut, WriteFails, Attach, Request, Mark, MarkFails,
     Release, Connect, HangUp, Withdraw, Crash, Sweep, outboundVars, netmail, run, others
<1>4. QED
  BY <1>1, <1>2, <1>3

LEMMA CopiesWritten ==
  ASSUME OutboundTypeOK, WritePacket
  PROVE  /\ \A m \in Msg : m # msg => Copies(m)' = Copies(m)
         /\ Copies(msg)' \in {Copies(msg), Copies(msg) + 1}
<1>1. delivered' = delivered /\ msg' = msg /\ msg \in Msg
  BY DEF WritePacket, others, OutboundTypeOK
<1>2. packed' = packed \/ packed' = [packed EXCEPT ![msg] = @ + 1]
  BY DEF WritePacket, Written
<1>3. QED
  BY <1>1, <1>2 DEF Copies, OutboundTypeOK

Unwritten == {"check", "create", "open", "write"}

\* What has gone wrong so far.
Cost == crashes + unmarked

\* A message that waits, and is not the one just written, has cost no copy but
\* those of earlier power failures and failures to mark it.
CopiesInv ==
  /\ OutboundTypeOK
  /\ \A m \in Msg : Copies(m) <= 1 + Cost
  /\ \A m \in Msg :
       file[m] = "waiting" /\ ~(m = msg /\ step \in {"attach", "request", "mark"}) =>
         Copies(m) <= Cost
  /\ step \in Unwritten => Copies(msg) <= Cost

LEMMA CopiesInvInit == OutboundInit => CopiesInv
<1> SUFFICES ASSUME OutboundInit PROVE CopiesInv
  OBVIOUS
<1>1. OutboundTypeOK
  BY OutboundTypeInit
<1>2. \A m \in Msg : Copies(m) = 0
  BY DEF OutboundInit, Copies
<1>3. Cost = 0 /\ step = "idle"
  BY DEF OutboundInit, Cost
<1>4. QED
  BY <1>1, <1>2, <1>3 DEF CopiesInv, Unwritten

LEMMA CopiesInvNext == CopiesInv /\ [OutboundNext]_outboundVars => CopiesInv'
<1> SUFFICES ASSUME CopiesInv, [OutboundNext]_outboundVars PROVE CopiesInv'
  OBVIOUS
<1>1. OutboundTypeOK /\ OutboundTypeOK'
  BY OutboundTypeNext DEF CopiesInv
<1>2. /\ msg \in Msg /\ Cost \in Nat /\ Cost' \in Nat
      /\ \A m \in Msg : Copies(m) \in Nat
  <2>1. /\ crashes \in Nat /\ unmarked \in Nat
        /\ crashes' \in Nat /\ unmarked' \in Nat
    BY <1>1, OutboundAssumption DEF OutboundTypeOK
  <2>2. Cost \in Nat /\ Cost' \in Nat
    <3>1. Cost = crashes + unmarked /\ Cost' = crashes' + unmarked'
      BY DEF Cost
    <3>2. \A m, n \in Nat : m + n \in Nat
      OBVIOUS
    <3>3. QED
      BY <2>1, <3>1, <3>2, Zenon
  <2>3. msg \in Msg /\ \A m \in Msg : Copies(m) \in Nat
    BY <1>1 DEF OutboundTypeOK, Copies
  <2>4. QED
    BY <2>2, <2>3
<1>3. CASE WritePacket
  <2>1. /\ step = "write" /\ step' = "attach" /\ msg' = msg
        /\ Cost' = Cost /\ file' = file
    BY <1>3 DEF WritePacket, Goto, others, Cost
  <2>2. Copies(msg) <= Cost
    BY <2>1 DEF CopiesInv, Unwritten
  <2>3. QED
    BY <1>1, <1>2, <1>3, <2>1, <2>2, CopiesWritten DEF CopiesInv, Unwritten
<1>4. CASE ~WritePacket
  <2>1. \A m \in Msg : Copies(m)' = Copies(m)
    BY <1>1, <1>4, CopiesKept
  <2>2. ASSUME NEW m \in Msg, Analyze(m) PROVE CopiesInv'
    <3>1. /\ step = "idle" /\ step' \in Unwritten /\ msg' = m
          /\ file[m] = "waiting" /\ file' = file /\ Cost' = Cost
      BY <2>2 DEF Analyze, Goto, Unwritten, netmail, others, Cost
    <3>2. Copies(m) <= Cost
      BY <3>1 DEF CopiesInv
    <3>3. QED
      BY <1>1, <1>2, <2>1, <3>1, <3>2 DEF CopiesInv, Unwritten
  <2>3. CASE Mark
    <3>1. /\ step = "mark" /\ step' = "release" /\ msg' = msg /\ Cost' = Cost
          /\ \A m \in Msg : m # msg => file'[m] = file[m]
          /\ file'[msg] # "waiting"
      BY <1>1, <2>3 DEF Mark, Goto, others, OutboundTypeOK, Cost
    <3>2. QED
      BY <1>1, <1>2, <2>1, <3>1 DEF CopiesInv, Unwritten
  <2>4. CASE MarkFails
    <3>1. /\ step = "mark" /\ step' = "release" /\ msg' = msg /\ file' = file
          /\ Cost' = Cost + 1
      BY <1>1, <2>4, OutboundAssumption DEF MarkFails, Goto, others, OutboundTypeOK, Cost
    <3>2. QED
      BY <1>1, <1>2, <2>1, <3>1 DEF CopiesInv, Unwritten
  <2>5. CASE Crash
    <3>1. step' = "idle" /\ msg' = msg /\ file' = file /\ Cost' = Cost + 1
      BY <1>1, <2>5, OutboundAssumption DEF Crash, OutboundTypeOK, Cost
    <3>2. QED
      BY <1>1, <1>2, <2>1, <3>1 DEF CopiesInv, Unwritten
  <2>6. ASSUME NEW m \in Msg, Withdraw(m) PROVE CopiesInv'
    <3>1. /\ step' = step /\ msg' = msg /\ Cost' = Cost
          /\ \A n \in Msg : file'[n] = "waiting" => file[n] = "waiting"
      BY <1>1, <2>6 DEF Withdraw, run, others, OutboundTypeOK, Cost
    <3>2. QED
      BY <1>1, <1>2, <2>1, <3>1 DEF CopiesInv, Unwritten
  <2>7. ASSUME file' = file, msg' = msg, Cost' = Cost,
               \/ step' = step \/ step' = "idle"
               \/ step \in Unwritten /\ step' \in Unwritten
               \/ step \in {"open", "write"} /\ step' = "attach"
               \/ step = "attach" /\ step' = "request"
               \/ step = "request" /\ step' = "mark",
               step = "idle" => step' = "idle",
               step \in {"attach", "request", "mark"} => step' # "idle"
        PROVE  CopiesInv'
    BY <1>1, <1>2, <2>1, <2>7 DEF CopiesInv, Unwritten
  <2>8. CASE CheckSem \/ Delay \/ CreateSem \/ OpenPacket \/ OpenFailIn \/ OpenFailOut
    BY <2>7, <2>8 DEF CheckSem, Delay, CreateSem, OpenPacket, OpenFailIn, OpenFailOut,
       Goto, Unwritten, netmail, others, Cost
  <2>9. CASE WriteFails \/ Attach \/ Request \/ Release
    BY <2>7, <2>9 DEF WriteFails, Attach, Request, Release, Goto, netmail, others, Cost
  <2>10. CASE \E s \in System : Connect(s) \/ Transmit(s) \/ HangUp(s) \/ Sweep(s)
    <3>1. file' = file /\ msg' = msg /\ Cost' = Cost /\ step' = step
      BY <2>10 DEF Connect, Transmit, HangUp, Sweep, netmail, run, others, Cost
    <3>2. QED
      BY <2>7, <3>1
  <2>11. CASE UNCHANGED outboundVars
    BY <2>7, <2>11 DEF outboundVars, netmail, run, others, Cost
  <2>12. QED
    BY <1>4, <2>2, <2>3, <2>4, <2>5, <2>6, <2>8, <2>9, <2>10, <2>11
       DEF OutboundNext, AnalyzeNet, Environment
<1>5. QED
  BY <1>3, <1>4

\* A message is packed twice only after a power failure or a failure to delete or
\* flag one, whatever the mailers, the authors and the files that fail to open or
\* to be written do.
THEOREM CopiesBound == OutboundSpec => []CopiesBounded
<1>1. CopiesInv => CopiesBounded
  <2> SUFFICES ASSUME CopiesInv, NEW m \in Msg PROVE Copies(m) <= 1 + crashes + unmarked
    BY DEF CopiesBounded
  <2>1. crashes \in Nat /\ unmarked \in Nat /\ Copies(m) <= 1 + Cost
    BY OutboundAssumption DEF CopiesInv, OutboundTypeOK
  <2>2. QED
    BY <2>1 DEF Cost
<1>2. QED
  BY CopiesInvInit, CopiesInvNext, <1>1, PTL DEF OutboundSpec

-----------------------------------------------------------------------------
(***************************************************************************)
(* The .BSY flag.  It keeps a mailer out if cfroute makes it (IgnoreBSY is *)
(* off and the directory is there) and if nobody comes between the check   *)
(* and the creation (Race is off).                                         *)
(***************************************************************************)
Guarded == ~Race /\ ~IgnoreBSY /\ NoDirectory = {}

Inside == {"open", "write", "attach", "request", "mark", "release"}

\* cfroute and the mailer never have the same system, and the packet being
\* written is never taken away.
LockInv ==
  /\ Guarded
  /\ OutboundTypeOK
  /\ \A s \in System : directory[s]
  /\ \A s \in session : bsy[s]
  /\ step \in {"check", "create"} => Locks(msg)
  /\ step = "create" => ~bsy[Here]
  /\ step \in Inside /\ Locks(msg) => bsy[Here] /\ Here \notin session
  /\ packet = IF step = "write" THEN "open" ELSE "closed"

LEMMA LockInvInit == Guarded /\ OutboundInit => LockInv
<1> SUFFICES ASSUME Guarded, OutboundInit PROVE LockInv
  OBVIOUS
<1>1. OutboundTypeOK
  BY OutboundTypeInit
<1>2. \A s \in System : directory[s]
  BY DEF Guarded, OutboundInit
<1>3. session = {} /\ step = "idle" /\ packet = "closed"
  BY DEF OutboundInit
<1>4. QED
  BY <1>1, <1>2, <1>3 DEF LockInv, Inside

\* Directories are made and never removed.
LEMMA DirectoriesStay ==
  ASSUME OutboundTypeOK, [OutboundNext]_outboundVars, \A s \in System : directory[s]
  PROVE  \A s \in System : directory'[s]
<1>1. Here \in System
  BY OutboundAssumption DEF Here, OutboundTypeOK
<1>2. MakeDirectory \/ UNCHANGED directory
  BY DEF OutboundNext, AnalyzeNet, Environment, Analyze, CheckSem, Delay, CreateSem,
     OpenPacket, OpenFailIn, OpenFailOut, WritePacket, WriteFails, Attach, Request, Mark,
     MarkFails, Release, SubjectToFile, MayMakeDirectory, Connect, Transmit, HangUp, Withdraw, Crash,
     Sweep, outboundVars
<1>3. QED
  BY <1>1, <1>2 DEF MakeDirectory, OutboundTypeOK

LEMMA LockInvNext == LockInv /\ [OutboundNext]_outboundVars => LockInv'
<1> SUFFICES ASSUME LockInv, [OutboundNext]_outboundVars PROVE LockInv'
  OBVIOUS
<1>0. Guarded /\ Guarded'
  BY DEF LockInv, Guarded
<1>1. OutboundTypeOK /\ OutboundTypeOK' /\ \A s \in System : directory'[s]
  BY OutboundTypeNext, DirectoriesStay DEF LockInv
<1>2. Here \in System /\ msg \in Msg /\ session \subseteq System
  BY <1>0, <1>1, OutboundAssumption DEF Here, OutboundTypeOK
<1> USE DEF Inside, Goto
<1>3. ASSUME UNCHANGED << bsy, session, msg >>,
             step \in Inside => step' \in Inside \/ step' = "idle",
             step' \in Inside => step \in Inside,
             step' # "create",
             step' = "check" => step = "check",
             packet' = IF step' = "write" THEN "open" ELSE "closed"
      PROVE  LockInv'
  <2>1. Here' = Here /\ Locks(msg)' = Locks(msg)
    BY <1>3 DEF Here, Locks
  <2>2. QED
    BY <1>0, <1>1, <1>3, <2>1 DEF LockInv
<1>4. ASSUME NEW m \in Msg, Analyze(m) PROVE LockInv'
  <2>1. /\ step' = IF Locks(m) THEN "check" ELSE "open"
        /\ msg' = m /\ UNCHANGED << bsy, session, packet >> /\ step = "idle"
    BY <1>4 DEF Analyze, others
  <2>2. Locks(msg)' = Locks(m)
    BY <2>1 DEF Locks
  <2>3. QED
    BY <1>0, <1>1, <2>1, <2>2 DEF LockInv
<1>5. CASE CheckSem
  <2>1. /\ ~bsy[Here] /\ step = "check" /\ step' = "create"
        /\ UNCHANGED << bsy, session, msg, packet >>
    BY <1>5 DEF CheckSem, others
  <2>2. Here' = Here /\ Locks(msg)' = Locks(msg)
    BY <2>1 DEF Here, Locks
  <2>3. QED
    BY <1>0, <1>1, <2>1, <2>2 DEF LockInv
<1>6. CASE CreateSem
  <2>1. /\ step = "create" /\ step' = "open" /\ UNCHANGED << session, msg, packet >>
        /\ bsy' = [bsy EXCEPT ![Here] = @ \/ directory[Here]]
    BY <1>6 DEF CreateSem, others
  <2>2. Here' = Here /\ Locks(msg)' = Locks(msg)
    BY <2>1 DEF Here, Locks
  <2>3. directory[Here] /\ ~bsy[Here] /\ Here \notin session
    BY <1>2, <2>1 DEF LockInv
  <2>4. bsy'[Here] /\ \A s \in System : bsy[s] => bsy'[s]
    BY <1>0, <1>1, <1>2, <2>1, <2>3 DEF OutboundTypeOK
  <2>5. QED
    BY <1>0, <1>1, <1>2, <2>1, <2>2, <2>3, <2>4 DEF LockInv
<1>7. CASE \/ Delay \/ OpenPacket \/ OpenFailIn \/ WritePacket \/ WriteFails
           \/ Attach \/ Request \/ Mark \/ MarkFails
  BY <1>3, <1>7 DEF Delay, OpenPacket, OpenFailIn, WritePacket, WriteFails, Attach, Request,
     Mark, MarkFails, others, LockInv
<1>8. CASE OpenFailOut \/ Release
  <2>1. /\ step \in {"open", "release"} /\ step' = "idle" /\ RemoveSem
        /\ UNCHANGED << session, msg, packet >>
    BY <1>8 DEF OpenFailOut, Release, others
  <2>2. CASE Locks(msg)
    <3>1. Here \notin session /\ bsy' = [bsy EXCEPT ![Here] = FALSE]
      BY <2>1, <2>2 DEF LockInv, RemoveSem
    <3>2. \A s \in session : bsy'[s]
      BY <1>0, <1>1, <1>2, <3>1 DEF LockInv, OutboundTypeOK
    <3>3. QED
      BY <1>0, <1>1, <2>1, <3>2 DEF LockInv
  <2>3. CASE ~Locks(msg)
    <3>1. bsy' = bsy
      BY <2>1, <2>3 DEF RemoveSem
    <3>2. QED
      BY <1>0, <1>1, <2>1, <3>1 DEF LockInv
  <2>4. QED
    BY <2>2, <2>3
<1>9. ASSUME NEW s \in System, Connect(s) PROVE LockInv'
  <2>1. /\ ~bsy[s] /\ bsy' = [bsy EXCEPT ![s] = TRUE] /\ session' = session \cup {s}
        /\ UNCHANGED << step, msg, packet >>
        /\ ~(step = "create" /\ Here = s)
    BY <1>0, <1>9 DEF Connect, run, Guarded
  <2>2. Here' = Here /\ Locks(msg)' = Locks(msg)
    BY <2>1 DEF Here, Locks
  <2>3. /\ \A t \in System : t # s => bsy'[t] = bsy[t]
        /\ bsy'[s]
    BY <1>0, <1>1, <2>1 DEF OutboundTypeOK
  <2>4. QED
    BY <1>0, <1>1, <1>2, <2>1, <2>2, <2>3 DEF LockInv
<1>10. ASSUME NEW s \in System, Transmit(s) PROVE LockInv'
  <2>1. UNCHANGED << bsy, session, step, msg >> /\ s \in session
    BY <1>10 DEF Transmit
  <2>2. Here' = Here /\ Locks(msg)' = Locks(msg)
    BY <2>1 DEF Here, Locks
  <2>3. packet' = packet
    BY <1>0, <1>10, <2>1 DEF Transmit, LockInv, Locks, Sent, Here, Guarded
  <2>4. QED
    BY <1>0, <1>1, <2>1, <2>2, <2>3 DEF LockInv
<1>11. ASSUME NEW s \in System, HangUp(s) \/ Sweep(s) PROVE LockInv'
  <2>1. /\ bsy' = [bsy EXCEPT ![s] = FALSE] /\ session' = session \ {s}
        /\ UNCHANGED << step, msg, packet >>
    BY <1>11 DEF HangUp, Sweep, run, others
  <2>2. Here' = Here /\ Locks(msg)' = Locks(msg)
    BY <2>1 DEF Here, Locks
  <2>3. step \in Inside /\ Locks(msg) => Here # s
    BY <1>11 DEF LockInv, HangUp, Sweep, Holding
  <2>4. /\ \A t \in System : t # s => bsy'[t] = bsy[t]
        /\ ~bsy'[s]
    BY <1>0, <1>1, <2>1 DEF OutboundTypeOK
  <2>5. QED
    BY <1>0, <1>1, <1>2, <2>1, <2>2, <2>3, <2>4 DEF LockInv
<1>12. CASE (\E m \in Msg : Withdraw(m)) \/ Crash \/ UNCHANGED outboundVars
  <2>1. /\ UNCHANGED << bsy, session, msg >>
        /\ \/ UNCHANGED << step, packet >>
           \/ step' = "idle" /\ packet' = "closed"
    BY <1>12 DEF Withdraw, Crash, outboundVars, run, others
  <2>2. Here' = Here /\ Locks(msg)' = Locks(msg)
    BY <2>1 DEF Here, Locks
  <2>3. QED
    BY <1>0, <1>1, <2>1, <2>2 DEF LockInv
<1>13. QED
  BY <1>4, <1>5, <1>6, <1>7, <1>8, <1>9, <1>10, <1>11, <1>12
     DEF OutboundNext, AnalyzeNet, Environment

-----------------------------------------------------------------------------
(***************************************************************************)
(* No .BSY is left behind.                                                 *)
(***************************************************************************)
BusyInv ==
  /\ OutboundTypeOK
  /\ step \in {"check", "create"} => Locks(msg)
  /\ NoBusyLeft

LEMMA BusyInvNext == BusyInv /\ [OutboundNext]_outboundVars => BusyInv'
<1> SUFFICES ASSUME BusyInv, [OutboundNext]_outboundVars PROVE BusyInv'
  OBVIOUS
<1>1. OutboundTypeOK /\ OutboundTypeOK'
  BY OutboundTypeNext DEF BusyInv
<1>2. Here \in System /\ msg \in Msg /\ crashes \in Nat
  BY <1>1, OutboundAssumption DEF Here, OutboundTypeOK
<1> USE DEF Goto
<1>3. ASSUME NEW m \in Msg, Analyze(m) PROVE BusyInv'
  <2>1. /\ step' = IF Locks(m) THEN "check" ELSE "open"
        /\ msg' = m /\ UNCHANGED << bsy, session, crashes >> /\ step = "idle"
    BY <1>3 DEF Analyze, others
  <2>2. Locks(msg)' = Locks(m)
    BY <2>1 DEF Locks
  <2>3. QED
    BY <1>1, <2>1, <2>2 DEF BusyInv, NoBusyLeft, Holding
<1>4. ASSUME UNCHANGED << msg, session, crashes >>,
             \/ step' = step
             \/ step' = "create" /\ step = "check"
             \/ step' \notin {"check", "create"},
             \A s \in System : bsy'[s] => Holding(s)' \/ (bsy[s] /\ ~Holding(s))
      PROVE  BusyInv'
  <2>1. Locks(msg)' = Locks(msg)
    BY <1>4 DEF Locks
  <2>2. QED
    BY <1>1, <1>4, <2>1 DEF BusyInv, NoBusyLeft
<1>5. CASE CheckSem \/ Delay
  BY <1>4, <1>5 DEF CheckSem, Delay, Holding, Here, Locks, others
<1>6. CASE CreateSem
  <2>1. Locks(msg)' /\ Here' = Here
    BY <1>6 DEF CreateSem, BusyInv, Locks, Here
  <2>2. \A s \in System : s = Here => Holding(s)'
    BY <1>6, <2>1 DEF CreateSem, Holding
  <2>3. \A s \in System : s # Here => bsy'[s] = bsy[s]
    BY <1>1, <1>6 DEF CreateSem, OutboundTypeOK
  <2>4. \A s \in System : ~Holding(s)
    BY <1>6 DEF CreateSem, Holding
  <2>5. QED
    BY <1>4, <1>6, <2>2, <2>3, <2>4 DEF CreateSem, others
<1>7. CASE \/ OpenPacket \/ OpenFailIn \/ WritePacket \/ WriteFails
           \/ Attach \/ Request \/ Mark \/ MarkFails
  <2>1. /\ UNCHANGED << msg, session, crashes, bsy >>
        /\ step \in {"open", "write", "attach", "request", "mark"}
        /\ step' \in {"write", "attach", "request", "mark", "release"}
    BY <1>7 DEF OpenPacket, OpenFailIn, WritePacket, WriteFails, Attach, Request, Mark,
       MarkFails, others
  <2>2. \A s \in System : Holding(s)' = Holding(s)
    BY <2>1 DEF Holding, Here, Locks
  <2>3. QED
    BY <1>4, <2>1, <2>2
<1>8. CASE OpenFailOut \/ Release
  <2>1. /\ UNCHANGED << msg, session, crashes >> /\ step \in {"open", "release"}
        /\ step' = "idle" /\ RemoveSem
    BY <1>8 DEF OpenFailOut, Release, others
  <2>2. \A s \in System : bsy'[s] => bsy[s] /\ ~(Locks(msg) /\ Here = s)
    BY <1>1, <1>2, <2>1 DEF RemoveSem, OutboundTypeOK
  <2>3. QED
    BY <1>4, <2>1, <2>2 DEF Holding
<1>9. ASSUME NEW s \in System, Connect(s) \/ HangUp(s) \/ Sweep(s) PROVE BusyInv'
  <2>1. /\ UNCHANGED << msg, step, crashes >>
        /\ \A t \in System : t # s => bsy'[t] = bsy[t] /\ (t \in session => t \in session')
        /\ bsy'[s] => s \in session'
    BY <1>1, <1>9 DEF Connect, HangUp, Sweep, run, others, OutboundTypeOK
  <2>2. /\ Locks(msg)' = Locks(msg)
        /\ \A t \in System : Holding(t)' = Holding(t)
    BY <2>1 DEF Holding, Here, Locks
  <2>3. QED
    BY <1>1, <2>1, <2>2 DEF BusyInv, NoBusyLeft
<1>10. CASE Crash
  <2>1. step' = "idle" /\ crashes' # 0
    BY <1>2, <1>10 DEF Crash
  <2>2. QED
    BY <1>1, <2>1 DEF BusyInv, NoBusyLeft
<1>11. CASE \/ \E s \in System : Transmit(s)
            \/ \E m \in Msg : Withdraw(m)
            \/ UNCHANGED outboundVars
  <2>1. UNCHANGED << step, msg, session, crashes, bsy >>
    BY <1>11 DEF Transmit, Withdraw, outboundVars, run, others
  <2>2. /\ Locks(msg)' = Locks(msg)
        /\ \A t \in System : Holding(t)' = Holding(t)
    BY <2>1 DEF Holding, Here, Locks
  <2>3. QED
    BY <1>1, <2>1, <2>2 DEF BusyInv, NoBusyLeft
<1>12. QED
  BY <1>3, <1>5, <1>6, <1>7, <1>8, <1>9, <1>10, <1>11
     DEF OutboundNext, AnalyzeNet, Environment

\* Whatever path AnalyzeNet takes, a .BSY that stays is the mailer's, or the
\* power has failed: with the race, and without directories, too.
THEOREM BusyReleased == OutboundSpec => []NoBusyLeft
<1>1. OutboundInit => BusyInv
  <2> SUFFICES ASSUME OutboundInit PROVE BusyInv
    OBVIOUS
  <2>1. step = "idle" /\ \A s \in System : ~bsy[s]
    BY DEF OutboundInit
  <2>2. QED
    BY <2>1, OutboundTypeInit DEF BusyInv, NoBusyLeft
<1>2. BusyInv => NoBusyLeft
  BY DEF BusyInv
<1>3. QED
  BY <1>1, <1>2, BusyInvNext, PTL DEF OutboundSpec

-----------------------------------------------------------------------------
(***************************************************************************)
(* .BSY is honoured.                                                       *)
(***************************************************************************)
\* With no message for FastEcho, cfroute writes only to a system it has locked.
LEMMA BusyHonouredStep ==
  ASSUME Qqq = {}, LockInv, AnalyzeNet, NEW s \in session
  PROVE  UNCHANGED OfSystem(s)
<1>1. /\ Here \in System /\ msg \in Msg /\ s \in System
      /\ packed \in [Msg -> Nat]
  BY OutboundAssumption DEF Here, LockInv, OutboundTypeOK
<1>2. CASE UNCHANGED << packed, torn, lines >>
  BY <1>2 DEF OfSystem, Sent
<1>3. ASSUME step \in Inside PROVE Here # s
  BY <1>3 DEF LockInv, Locks, Guarded
<1>4. CASE WritePacket \/ WriteFails
  <2>1. Here # s /\ lines' = lines
    BY <1>3, <1>4 DEF WritePacket, WriteFails, Goto, Inside
  <2>2. \A m \in Msg : Waypoint[m] = s => packed'[m] = packed[m]
    BY <1>1, <1>4, <2>1 DEF WritePacket, WriteFails, Written, Here
  <2>3. s \in torn' <=> s \in torn
    BY <1>4, <2>1 DEF WritePacket, WriteFails, MayTear
  <2>4. QED
    BY <2>1, <2>2, <2>3 DEF OfSystem, Sent
<1>5. ASSUME Here # s, packed' = packed, torn' = torn,
             NEW list, NEW after, SubjectToFile(list, after)
      PROVE  UNCHANGED OfSystem(s)
  <2>1. {l \in lines' : Waypoint[l.msg] = s} = {l \in lines : Waypoint[l.msg] = s}
    BY <1>5 DEF SubjectToFile, Here
  <2>2. QED
    BY <1>5, <2>1 DEF OfSystem, Sent
<1>6. CASE Attach \/ Request
  <2>1. Here # s /\ packed' = packed /\ torn' = torn
    BY <1>3, <1>6 DEF Attach, Request, Goto, Inside
  <2>2. QED
    BY <1>2, <1>5, <1>6, <2>1 DEF Attach, Request
<1>7. QED
  BY <1>2, <1>4, <1>6 DEF AnalyzeNet, Analyze, CheckSem, Delay, CreateSem, OpenPacket,
     OpenFailIn, OpenFailOut, Mark, MarkFails, Release, netmail

\* As long as nobody comes between the check and the creation of a .BSY, cfroute
\* never changes the packet or the lists of a system the mailer is connected to.
THEOREM BusyRespected == Guarded /\ Qqq = {} /\ OutboundSpec => BusyHonoured
<1> DEFINE Inv == Qqq = {} /\ LockInv
<1>1. Guarded /\ Qqq = {} /\ OutboundInit => Inv
  BY LockInvInit
<1>2. Inv /\ [OutboundNext]_outboundVars => Inv'
  BY LockInvNext
<1>3. Inv =>
        [AnalyzeNet => \A s \in session : UNCHANGED OfSystem(s)]_outboundVars
  BY BusyHonouredStep
<1>4. QED
  BY <1>1, <1>2, <1>3, PTL DEF OutboundSpec, BusyHonoured

-----------------------------------------------------------------------------
(***************************************************************************)
(* Delivery at least once.                                                 *)
(***************************************************************************)
DeliveryInv ==
  /\ LockInv
  /\ step \in Unwritten \cup {"attach", "request", "mark"} =>
       file[msg] \in {"waiting", "withdrawn"}
  /\ step \in {"attach", "request", "mark"} /\ file[msg] = "waiting" =>
       Copies(msg) > 0 \/ msg \in unpacked

\* Only writing a message, well or not, changes what is known of its conversion.
LEMMA ConversionKept ==
  ASSUME [OutboundNext]_outboundVars, ~WritePacket, ~WriteFails
  PROVE  unpacked' = unpacked
BY DEF OutboundNext, AnalyzeNet, Environment, Analyze, CheckSem, Delay, CreateSem,
   OpenPacket, OpenFailIn, OpenFailOut, Attach, Request, Mark, MarkFails, Release, Connect,
   Transmit, HangUp, Withdraw, Crash, Sweep, outboundVars, netmail

\* A message is in the packet, or counts as one that is not.
LEMMA PacketWritten ==
  ASSUME LockInv, OutboundTypeOK, WritePacket
  PROVE  \/ /\ \A m \in Msg : Copies(m)' = IF m = msg THEN Copies(m) + 1 ELSE Copies(m)
            /\ unpacked' = unpacked \ {msg}
         \/ /\ \A m \in Msg : Copies(m)' = Copies(m)
            /\ unpacked' = unpacked \cup {msg}
<1>1. /\ packet = "open" /\ delivered' = delivered /\ msg' = msg /\ msg \in Msg
      /\ packed \in [Msg -> Nat] /\ delivered \in [Msg -> Nat]
  BY DEF WritePacket, Goto, others, LockInv, OutboundTypeOK
<1>2. \/ packed' = [packed EXCEPT ![msg] = @ + 1] /\ unpacked' = unpacked \ {msg}
      \/ packed' = packed /\ unpacked' = unpacked \cup {msg}
  BY <1>1 DEF WritePacket, Written
<1>3. QED
  BY <1>1, <1>2 DEF Copies

LEMMA DeliveryInvNext ==
  DeliveryInv /\ [OutboundNext]_outboundVars => DeliveryInv'
<1> SUFFICES ASSUME DeliveryInv, [OutboundNext]_outboundVars PROVE DeliveryInv'
  OBVIOUS
<1>1. LockInv /\ LockInv' /\ OutboundTypeOK /\ OutboundTypeOK'
  BY LockInvNext DEF DeliveryInv, LockInv
<1>2. msg \in Msg /\ \A m \in Msg : Copies(m) \in Nat
  BY <1>1 DEF OutboundTypeOK, Copies
<1> USE DEF Goto, Unwritten
<1>3. CASE WritePacket \/ WriteFails
  <2>1. /\ step = "write" /\ step' = "attach" /\ msg' = msg /\ file' = file
    BY <1>3 DEF WritePacket, WriteFails, others
  <2>2. (Copies(msg) > 0 \/ msg \in unpacked)'
    <3>1. CASE WritePacket
      <4>1. PICK m \in Msg : m = msg
        BY <1>2
      <4>2. Copies(m)' = Copies(m) + 1 \/ msg \in unpacked'
        BY <1>1, <1>2, <3>1, <4>1, PacketWritten
      <4>3. Copies(m)' = Copies(msg)'
        BY <2>1, <4>1 DEF Copies
      <4>4. QED
        BY <1>2, <2>1, <4>1, <4>2, <4>3
    <3>2. CASE WriteFails
      BY <1>2, <2>1, <3>2 DEF WriteFails
    <3>3. QED
      BY <1>3, <3>1, <3>2
  <2>3. QED
    BY <1>1, <2>1, <2>2 DEF DeliveryInv
<1>4. CASE ~WritePacket /\ ~WriteFails
  <2>1. (\A m \in Msg : Copies(m)' = Copies(m)) /\ unpacked' = unpacked
    BY <1>1, <1>4, CopiesKept, ConversionKept
  <2>2. ASSUME msg' = msg,
               file'[msg] = file[msg] \/ (file[msg] = "waiting" /\ file'[msg] = "withdrawn"),
               \/ step' = step \/ step' \in {"idle", "release"}
               \/ step \in Unwritten /\ step' \in Unwritten
               \/ step = "open" /\ file[msg] = "withdrawn" /\ step' = "attach"
               \/ step = "attach" /\ step' = "request"
               \/ step = "request" /\ step' = "mark"
        PROVE  DeliveryInv'
    <3>1. Copies(msg)' = Copies(msg)
      BY <1>2, <2>1, <2>2
    <3>2. QED
      BY <1>1, <2>1, <2>2, <3>1 DEF DeliveryInv
  <2>3. ASSUME NEW m \in Msg, Analyze(m) PROVE DeliveryInv'
    BY <1>1, <2>3 DEF Analyze, netmail, DeliveryInv
  <2>4. CASE Mark
    BY <1>1, <2>4 DEF Mark, DeliveryInv
  <2>5. ASSUME NEW m \in Msg, Withdraw(m) PROVE DeliveryInv'
    <3>1. /\ msg' = msg /\ step' = step
          /\ file'[msg] = file[msg] \/ (file[msg] = "waiting" /\ file'[msg] = "withdrawn")
      BY <1>1, <2>5 DEF Withdraw, run, OutboundTypeOK
    <3>2. QED
      BY <2>2, <3>1
  <2>6. CASE CheckSem \/ Delay \/ CreateSem \/ OpenPacket \/ OpenFailIn \/ OpenFailOut
    BY <2>2, <2>6 DEF CheckSem, Delay, CreateSem, OpenPacket, OpenFailIn, OpenFailOut,
       netmail
  <2>7. CASE Attach \/ Request \/ MarkFails \/ Release
    BY <2>2, <2>7 DEF Attach, Request, MarkFails, Release, netmail
  <2>8. CASE Crash \/ \E s \in System : Connect(s) \/ Transmit(s) \/ HangUp(s) \/ Sweep(s)
    BY <2>2, <2>8 DEF Crash, Connect, Transmit, HangUp, Sweep, netmail, run
  <2>9. CASE UNCHANGED outboundVars
    BY <2>2, <2>9 DEF outboundVars, netmail, run
  <2>10. QED
    BY <1>4, <2>3, <2>4, <2>5, <2>6, <2>7, <2>8, <2>9
       DEF OutboundNext, AnalyzeNet, Environment
<1>5. QED
  BY <1>3, <1>4

\* The state of MessageFate a state of Outbound stands for.
FateOf == [m \in Msg |-> IF Handled(m) THEN "handled" ELSE file[m]]
CopiesOf == [m \in Msg |-> Copies(m)]

LEMMA FateStep ==
  ASSUME DeliveryInv, [OutboundNext]_outboundVars
  PROVE  [Fate!Next]_<< FateOf, CopiesOf, unpacked >>
<1>1. LockInv /\ OutboundTypeOK
  BY DEF DeliveryInv, LockInv
<1>0. msg \in Msg
  BY <1>1 DEF OutboundTypeOK
<1>2. CASE WritePacket \/ WriteFails
  <2>1. /\ step = "write" /\ file[msg] \in {"waiting", "withdrawn"} /\ file' = file
    BY <1>0, <1>1, <1>2 DEF WritePacket, WriteFails, Goto, DeliveryInv, Unwritten
  <2>2. FateOf' = FateOf /\ FateOf[msg] # "handled"
    BY <1>0, <1>1, <2>1 DEF FateOf, Handled
  <2>3. \/ /\ \A m \in Msg : Copies(m)' = IF m = msg THEN Copies(m) + 1 ELSE Copies(m)
           /\ unpacked' = unpacked \ {msg}
        \/ /\ \A m \in Msg : Copies(m)' = Copies(m)
           /\ unpacked' = unpacked \cup {msg}
    BY <1>1, <1>2, PacketWritten DEF WriteFails, Copies, others
  <2>4. ASSUME \A m \in Msg : Copies(m)' = IF m = msg THEN Copies(m) + 1 ELSE Copies(m),
               unpacked' = unpacked \ {msg}
        PROVE  Fate!Next
    <3>1. CopiesOf' = [CopiesOf EXCEPT ![msg] = @ + 1]
      BY <1>0, <2>4 DEF CopiesOf
    <3>2. Fate!Pack(msg)
      BY <2>2, <2>4, <3>1 DEF Fate!Pack, FateOf, CopiesOf
    <3>3. QED
      BY <1>0, <3>2 DEF Fate!Next
  <2>5. ASSUME \A m \in Msg : Copies(m)' = Copies(m), unpacked' = unpacked \cup {msg}
        PROVE  Fate!Next
    <3>1. CopiesOf' = CopiesOf
      BY <2>5 DEF CopiesOf
    <3>2. Fate!Fail(msg)
      BY <2>2, <2>5, <3>1 DEF Fate!Fail, FateOf, CopiesOf
    <3>3. QED
      BY <1>0, <3>2 DEF Fate!Next
  <2>6. QED
    BY <2>3, <2>4, <2>5
<1>3. CASE ~WritePacket /\ ~WriteFails
  <2>1. CopiesOf' = CopiesOf /\ unpacked' = unpacked
    BY <1>0, <1>1, <1>3, CopiesKept, ConversionKept DEF CopiesOf
  <2>2. CASE file' = file
    <3>1. FateOf' = FateOf
      BY <2>2 DEF FateOf, Handled
    <3>2. QED
      BY <2>1, <3>1
  <2>3. CASE Mark
    <3>1. step = "mark" /\ file[msg] \in {"waiting", "withdrawn"}
      BY <2>3 DEF Mark, Goto, DeliveryInv, Unwritten
    <3>2. CASE file[msg] = "withdrawn"
      <4>1. file' = file
        BY <1>0, <1>1, <2>3, <3>2 DEF Mark, OutboundTypeOK
      <4>2. QED
        BY <2>2, <4>1
    <3>3. CASE file[msg] = "waiting"
      <4>1. Copies(msg) > 0 \/ msg \in unpacked
        BY <3>1, <3>3 DEF DeliveryInv
      <4>2. /\ file'[msg] \in {"killed", "sent"}
            /\ \A m \in Msg : m # msg => file'[m] = file[m]
        BY <1>0, <1>1, <2>3, <3>3 DEF Mark, OutboundTypeOK
      <4>3. FateOf' = [FateOf EXCEPT ![msg] = "handled"]
        BY <1>0, <1>1, <4>2 DEF FateOf, Handled
      <4>4. FateOf[msg] = "waiting" /\ (CopiesOf[msg] > 0 \/ msg \in unpacked)
        BY <1>0, <1>1, <3>3, <4>1 DEF FateOf, CopiesOf, Handled
      <4>5. PICK m \in Msg : m = msg
        BY <1>0
      <4>6. Fate!Handle(m)
        BY <2>1, <4>3, <4>4, <4>5 DEF Fate!Handle, FateOf, CopiesOf
      <4>7. QED
        BY <4>6 DEF Fate!Next
    <3>4. QED
      BY <3>1, <3>2, <3>3
  <2>4. ASSUME NEW m \in Msg, Withdraw(m)
        PROVE  [Fate!Next]_<< FateOf, CopiesOf, unpacked >>
    <3>1. /\ file[m] = "waiting" /\ file'[m] = "withdrawn"
          /\ \A n \in Msg : n # m => file'[n] = file[n]
      BY <1>0, <1>1, <2>4 DEF Withdraw, OutboundTypeOK
    <3>2. FateOf' = [FateOf EXCEPT ![m] = "withdrawn"] /\ FateOf[m] = "waiting"
      BY <3>1 DEF FateOf, Handled
    <3>3. Fate!Withdraw(m)
      BY <2>1, <3>2 DEF Fate!Withdraw, FateOf, CopiesOf
    <3>4. QED
      BY <3>3 DEF Fate!Next
  <2>5. QED
    BY <1>3, <2>2, <2>3, <2>4 DEF OutboundNext, AnalyzeNet, Environment, Analyze,
       CheckSem, Delay, CreateSem, OpenPacket, OpenFailIn, OpenFailOut, Attach, Request,
       MarkFails, Release, Connect, Transmit, HangUp, Crash, Sweep, outboundVars, netmail
<1>4. QED
  BY <1>2, <1>3

\* Outbound implements MessageFate: whatever happens around it, and whatever fails,
\* cfroute flags or deletes a message only when a copy of it is in a packet or has
\* been sent, or when writing it has just failed, the one failure AnalyzeNet takes
\* for a success.
THEOREM DeliveredAtLeastOnce == Guarded /\ OutboundSpec => AtLeastOnce
<1>1. Guarded /\ OutboundInit => DeliveryInv
  <2>1. OutboundInit => step = "idle"
    BY DEF OutboundInit
  <2>2. QED
    BY <2>1, LockInvInit DEF DeliveryInv, Unwritten
<1>2. OutboundInit => Fate!Init
  BY DEF OutboundInit, Fate!Init, Handled, Copies
<1>3. DeliveryInv /\ [OutboundNext]_outboundVars =>
        [Fate!Next]_<< FateOf, CopiesOf, unpacked >>
  BY FateStep
<1>4. QED
  BY <1>1, <1>2, <1>3, DeliveryInvNext, PTL
     DEF OutboundSpec, AtLeastOnce, Fate!Spec, FateOf, CopiesOf

-----------------------------------------------------------------------------
(***************************************************************************)
(* Files travel with their messages.                                       *)
(***************************************************************************)
\* The files of a message are in the list, or the log says why not.
Noted(m) == (\E l \in lines : l.msg = m /\ l.list = "attach") \/ m \in warned

Accompanied(m) == Noted(m) \/ (file[m] \in {"waiting", "withdrawn"} /\ crashes > 0)

\* A packet is ahead of its list only while cfroute is between the two, where the
\* .BSY is cfroute's; and a message that is about to be flagged is noted, so that
\* an earlier power failure is no excuse any more.
TravelInv ==
  /\ DeliveryInv
  /\ step \in Unwritten \cup {"attach"} => subject
  /\ \A m \in Attaching \ Qqq :
       packed[m] > 0 => Accompanied(m) \/ (step = "attach" /\ msg = m)
  /\ step \in {"request", "mark"} /\ msg \in Attaching \ Qqq /\ packed[msg] > 0 =>
       Noted(msg)

LEMMA TravelInvInit == Guarded /\ OutboundInit => TravelInv
<1> SUFFICES ASSUME Guarded, OutboundInit PROVE TravelInv
  OBVIOUS
<1>1. step = "idle" /\ \A m \in Msg : packed[m] = 0
  BY DEF OutboundInit
<1>2. LockInv /\ Attaching \subseteq Msg
  BY LockInvInit, OutboundAssumption
<1>3. QED
  BY <1>1, <1>2 DEF TravelInv, DeliveryInv, Unwritten

LEMMA TravelInvNext == TravelInv /\ [OutboundNext]_outboundVars => TravelInv'
<1> SUFFICES ASSUME TravelInv, [OutboundNext]_outboundVars PROVE TravelInv'
  OBVIOUS
<1>1. DeliveryInv /\ DeliveryInv' /\ OutboundTypeOK /\ OutboundTypeOK'
  BY DeliveryInvNext DEF TravelInv, DeliveryInv, LockInv
<1>2. /\ msg \in Msg /\ crashes \in Nat /\ Attaching \subseteq Msg
      /\ packed \in [Msg -> Nat]
  BY <1>1, OutboundAssumption DEF OutboundTypeOK
<1> USE DEF Goto, Unwritten
<1>3. ASSUME UNCHANGED << packed, lines, warned, file, crashes, msg, subject >>,
             step' \in Unwritten \cup {"attach"} => step \in Unwritten \cup {"attach"},
             step' \in {"request", "mark"} => step' = step,
             step = "attach" => step' = "attach"
      PROVE  TravelInv'
  BY <1>1, <1>3 DEF TravelInv, Accompanied, Noted
<1>4. ASSUME NEW m \in Msg, Analyze(m) PROVE TravelInv'
  <2>1. /\ UNCHANGED << packed, lines, warned, file, crashes >>
        /\ step = "idle" /\ step' \in {"check", "open"} /\ subject'
    BY <1>4 DEF Analyze, netmail, others
  <2>2. QED
    BY <1>1, <2>1 DEF TravelInv, Accompanied, Noted
<1>5. CASE CheckSem \/ CreateSem \/ OpenPacket \/ OpenFailIn \/ WriteFails
  BY <1>3, <1>5 DEF CheckSem, CreateSem, OpenPacket, OpenFailIn, WriteFails, netmail, others
<1>6. CASE Delay \/ OpenFailOut \/ MarkFails \/ Release
  BY <1>3, <1>6 DEF Delay, OpenFailOut, MarkFails, Release, netmail, others
<1>7. CASE WritePacket
  <2>1. /\ UNCHANGED << lines, warned, file, crashes, msg, subject >>
        /\ step = "write" /\ step' = "attach"
        /\ \A m \in Msg : m # msg => packed'[m] = packed[m]
    BY <1>1, <1>2, <1>7 DEF WritePacket, Written, others
  <2>2. QED
    BY <1>1, <1>2, <2>1 DEF TravelInv, Accompanied, Noted
<1>8. CASE Attach
  <2>1. /\ UNCHANGED << packed, file, crashes, msg >>
        /\ step = "attach" /\ step' = "request" /\ subject
        /\ lines \subseteq lines' /\ warned \subseteq warned'
    BY <1>8 DEF Attach, SubjectToFile, others, TravelInv
  <2>2. ASSUME msg \in Attaching PROVE Noted(msg)'
    <3>1. PICK after : SubjectToFile("attach", after)
      BY <1>8, <2>2 DEF Attach
    <3>2. CASE msg \in warned'
      BY <2>1, <3>2 DEF Noted
    <3>3. CASE lines' = lines \cup {[msg |-> msg, list |-> "attach", after |-> after]}
      <4>1. PICK l : l = [msg |-> msg, list |-> "attach", after |-> after]
        OBVIOUS
      <4>2. l \in lines' /\ l.msg = msg' /\ l.list = "attach"
        BY <2>1, <3>3, <4>1
      <4>3. QED
        BY <4>2 DEF Noted
    <3>4. QED
      BY <2>1, <3>1, <3>2, <3>3 DEF SubjectToFile
  <2>3. \A m \in Msg : Noted(m) => Noted(m)'
    BY <2>1 DEF Noted
  <2>4. QED
    BY <1>1, <1>2, <2>1, <2>2, <2>3 DEF TravelInv, Accompanied
<1>9. CASE Request
  <2>1. /\ UNCHANGED << packed, file, crashes, msg >>
        /\ step = "request" /\ step' = "mark"
        /\ lines \subseteq lines' /\ warned \subseteq warned'
    BY <1>9 DEF Request, SubjectToFile, others
  <2>2. \A m \in Msg : Noted(m) => Noted(m)'
    BY <2>1 DEF Noted
  <2>3. QED
    BY <1>1, <1>2, <2>1, <2>2 DEF TravelInv, Accompanied
<1>10. CASE Mark
  <2>1. /\ UNCHANGED << packed, lines, warned, crashes, msg >>
        /\ step = "mark" /\ step' = "release"
        /\ \A m \in Msg : m # msg => file'[m] = file[m]
    BY <1>1, <1>2, <1>10 DEF Mark, others, OutboundTypeOK
  <2>2. QED
    BY <1>1, <1>2, <2>1 DEF TravelInv, Accompanied, Noted
<1>11. ASSUME NEW s \in System, Transmit(s) PROVE TravelInv'
  <2>1. UNCHANGED << file, warned, step, msg, subject, crashes >>
    BY <1>11 DEF Transmit
  <2>2. ASSUME NEW m \in Attaching \ Qqq, packed'[m] > 0
        PROVE  packed'[m] = packed[m] /\ Noted(m)' = Noted(m)
    <3>1. Waypoint[m] # s /\ packed'[m] = packed[m]
      BY <1>2, <1>11, <2>2 DEF Transmit, Sent
    <3>2. QED
      BY <1>11, <2>1, <3>1 DEF Transmit, Noted
  <2>3. QED
    BY <1>1, <1>2, <2>1, <2>2 DEF TravelInv, Accompanied
<1>12. ASSUME NEW m \in Msg, Withdraw(m) PROVE TravelInv'
  <2>1. /\ UNCHANGED << packed, lines, warned, step, msg, subject, crashes >>
        /\ \A n \in Msg : file'[n] \in {file[n], "withdrawn"}
    BY <1>1, <1>12 DEF Withdraw, run, others, OutboundTypeOK
  <2>2. QED
    BY <1>1, <1>2, <2>1 DEF TravelInv, Accompanied, Noted
<1>13. CASE Crash
  <2>1. /\ UNCHANGED << packed, lines, warned, file, msg, subject >>
        /\ step' = "idle" /\ crashes' = crashes + 1
    BY <1>13 DEF Crash, netmail
  <2>2. step = "attach" => file[msg] \in {"waiting", "withdrawn"}
    BY <1>1 DEF DeliveryInv
  <2>3. QED
    BY <1>1, <1>2, <2>1, <2>2 DEF TravelInv, Accompanied, Noted
<1>14. CASE \E s \in System : Connect(s) \/ HangUp(s) \/ Sweep(s)
  BY <1>3, <1>14 DEF Connect, HangUp, Sweep, netmail, run, others
<1>15. CASE UNCHANGED outboundVars
  BY <1>3, <1>15 DEF outboundVars, netmail, run, others
<1>16. QED
  BY <1>4, <1>5, <1>6, <1>7, <1>8, <1>9, <1>10, <1>11, <1>12, <1>13, <1>14, <1>15
     DEF OutboundNext, AnalyzeNet, Environment

\* A mailer that finds a system free finds the files of its messages listed,
\* however many messages, systems and power failures there are.
THEOREM FilesGoAlong == Guarded /\ OutboundSpec => []FilesTravelAlong
<1>1. Guarded /\ OutboundInit => TravelInv
  BY TravelInvInit
<1>2. TravelInv => FilesTravelAlong
  <2> SUFFICES ASSUME TravelInv, NEW m \in Attaching \ Qqq,
                      ~bsy[Waypoint[m]], packed[m] > 0
               PROVE  Accompanied(m)
    BY DEF FilesTravelAlong, Accompanied, Noted
  <2>1. ~(step = "attach" /\ msg = m)
    BY DEF TravelInv, DeliveryInv, LockInv, Inside, Locks, Guarded, Here
  <2>2. QED
    BY <2>1 DEF TravelInv
<1>3. QED
  BY <1>1, <1>2, TravelInvNext, PTL DEF OutboundSpec

-----------------------------------------------------------------------------
(***************************************************************************)
(* The composition.  ProcessNetmail takes only steps of Outbound, so what  *)
(* is proved of AnalyzeNet for one message holds run after run.            *)
(***************************************************************************)
LEMMA RunStepIsOutbound ==
  present \subseteq Msg /\ [RunNext]_runVars => [OutboundNext]_outboundVars
<1> SUFFICES ASSUME present \subseteq Msg, [RunNext]_runVars, ~UNCHANGED outboundVars
             PROVE  OutboundNext
  OBVIOUS
<1>1. ~UNCHANGED runVars
  BY DEF runVars
<1>2. CASE Cfroute
  <2>1. \/ \E m \in Msg : Analyze(m)
        \/ CheckSem \/ Delay \/ CreateSem \/ OpenPacket \/ OpenFailIn \/ OpenFailOut
        \/ WritePacket \/ WriteFails \/ Attach \/ Request \/ Mark \/ MarkFails \/ Release
    BY <1>2 DEF Cfroute, BeginRun, OpenDirectory, EndOfList, EndRun, List, Take,
       Touching, Working
  <2>2. QED
    BY <2>1 DEF OutboundNext, AnalyzeNet
<1>3. CASE Others
  BY <1>3 DEF Others, Tick, Arrive, PowerFailure, OutboundNext, Environment
<1>4. QED
  BY <1>1, <1>2, <1>3 DEF RunNext

LEMMA RunTypeInit == RunInit => RunTypeOK
<1>1. 1 \in 1 .. MaxClock /\ 0 \in 0 .. MaxClock
  BY NetmailRunAssumption
<1>2. QED
  BY <1>1, OutboundTypeInit DEF RunInit, RunTypeOK

LEMMA RunTypeNext == RunTypeOK /\ [RunNext]_runVars => RunTypeOK'
<1> SUFFICES ASSUME RunTypeOK, [RunNext]_runVars PROVE RunTypeOK'
  OBVIOUS
<1>1. OutboundTypeOK /\ OutboundTypeOK'
  BY RunStepIsOutbound, OutboundTypeNext DEF RunTypeOK
<1>2. clock \in 0 .. MaxClock /\ 0 \in 0 .. MaxClock /\ msg \in Msg /\ InDirectory \subseteq Msg
  BY <1>1, NetmailRunAssumption DEF RunTypeOK, OutboundTypeOK, InDirectory
<1> USE DEF RunTypeOK, times, scan
<1>3. CASE \/ \E i \in BOOLEAN : BeginRun(i)
           \/ OpenDirectory \/ EndOfList \/ EndRun
  BY <1>1, <1>2, <1>3 DEF BeginRun, OpenDirectory, EndOfList, EndRun
<1>4. ASSUME NEW m \in Msg, List(m) \/ Take(m) PROVE RunTypeOK'
  BY <1>1, <1>2, <1>4 DEF List, Take
<1>5. CASE Touching \/ Working
  BY <1>1, <1>2, <1>5 DEF Touching, Working, Stamped
<1>6. CASE Tick
  BY <1>1, <1>2, <1>6, NetmailRunAssumption DEF Tick
<1>7. ASSUME NEW m \in Msg, Arrive(m) PROVE RunTypeOK'
  BY <1>1, <1>2, <1>7 DEF Arrive, Stamped
<1>8. CASE \/ PowerFailure
           \/ (\/ \E s \in System : Connect(s) \/ Transmit(s) \/ HangUp(s) \/ Sweep(s)
               \/ \E m \in present : Withdraw(m)) /\ UNCHANGED << times, scan >>
           \/ UNCHANGED runVars
  BY <1>1, <1>2, <1>8 DEF PowerFailure, runVars
<1>9. QED
  BY <1>3, <1>4, <1>5, <1>6, <1>7, <1>8 DEF RunNext, Cfroute, Others

\* The type invariant of the runs.
THEOREM RunTyped == RunSpec => []RunTypeOK
<1>1. QED
  BY RunTypeInit, RunTypeNext, PTL DEF RunSpec

\* Every behaviour of the runs is one of AnalyzeNet and the programs around it:
\* the theorems above hold of ProcessNetmail as well.
THEOREM RunIsOutbound == RunSpec => OutboundSpec
<1>1. RunInit => OutboundInit
  BY DEF RunInit
<1>2. RunTypeOK /\ [RunNext]_runVars => [OutboundNext]_outboundVars
  BY RunStepIsOutbound DEF RunTypeOK
<1>3. QED
  BY <1>1, <1>2, RunTyped, PTL DEF RunSpec, OutboundSpec

-----------------------------------------------------------------------------
(***************************************************************************)
(* File times                                                              *)
(***************************************************************************)
\* Forgetting to double the seconds puts LASTRUN.CFR into the past, never into
\* the future.
LEMMA LastRunNotAhead ==
  ASSUME NEW t \in Nat
  PROVE  LastRunSeconds(t) \in Nat /\ LastRunSeconds(t) <= 2 * t
<1> DEFINE q == t \div TicksPerMinute
           r == t % TicksPerMinute
           p == q * TicksPerMinute
<1>1. TicksPerMinute \in Nat \ {0}
  BY NetmailRunAssumption
<1>2. q \in Nat /\ r \in Nat
  BY <1>1
<1>3. t = p + r
  BY <1>1
<1>4. p \in Nat
  BY <1>1, <1>2
<1>5. q * 2 * TicksPerMinute = 2 * p
  BY <1>1, <1>2
<1>6. LastRunSeconds(t) = q * 2 * TicksPerMinute + r
  BY DEF LastRunSeconds
<1> HIDE DEF q, r, p
<1>7. LastRunSeconds(t) = 2 * p + r
  BY <1>5, <1>6
<1>8. QED
  BY <1>2, <1>3, <1>4, <1>7

\* A file written or touched at a time is new for a run of that time.
LEMMA NewIfLater ==
  ASSUME NEW m \in Msg, NEW t \in Nat, stamp[m] \in Nat, t <= stamp[m]
  PROVE  IsNew(m, t)
<1>1. LastRunSeconds(t) \in Nat /\ LastRunSeconds(t) <= 2 * t
  BY LastRunNotAhead
<1> HIDE DEF LastRunSeconds
<1>2. QED
  BY <1>1 DEF IsNew, FileSeconds

-----------------------------------------------------------------------------
(***************************************************************************)
(* No message is forgotten.                                                *)
(***************************************************************************)
Undisturbed == crashes = 0 /\ unmarked = 0 /\ (\A m \in Msg : file[m] # "withdrawn")

\* What keeps a message that waits from being forgotten: its file is new for the
\* next run, or this run will come to it, or is at it.
Remembered(m) ==
  \/ IsNew(m, lastrun)
  \/ phase = "open" /\ IsNew(m, since)
  \/ phase = "list" /\ m \in names /\ IsNew(m, since)
  \/ m \in queue
  \/ step # "idle" /\ msg = m

ScanInv ==
  /\ RunTypeOK
  /\ lastrun <= clock
  /\ step # "idle" => phase = "work" /\ msg \in present
  /\ step \in {"check", "create", "open", "write", "attach", "request", "mark"}
       => file[msg] \in {"waiting", "withdrawn"}
  /\ step = "release" /\ Undisturbed => file[msg] # "waiting"
  /\ phase = "down" => queue = {}
  /\ names \subseteq present /\ queue \subseteq present
  /\ phase # "list" => names = {}
  /\ \A m \in Msg \ present : file[m] = "waiting"
  /\ Undisturbed =>
       /\ names \subseteq InDirectory
       /\ \A m \in present : file[m] = "waiting" => Remembered(m)

LEMMA ScanInvInit == RunInit => ScanInv
<1> SUFFICES ASSUME RunInit PROVE ScanInv
  OBVIOUS
<1>1. RunTypeOK
  BY RunTypeInit
<1>2. /\ step = "idle" /\ phase = "down" /\ names = {} /\ queue = {} /\ present = {}
      /\ lastrun = 0 /\ clock = 1 /\ \A m \in Msg : file[m] = "waiting"
  BY DEF RunInit, OutboundInit
<1>3. QED
  BY <1>1, <1>2 DEF ScanInv

\* A run of ProcessNetmail as far as it does nothing to the outbound.
LEMMA ScanInvScan ==
  ASSUME ScanInv, RunTypeOK', UNCHANGED outboundVars,
         \/ \E i \in BOOLEAN : BeginRun(i)
         \/ OpenDirectory \/ EndOfList \/ EndRun \/ Tick
         \/ \E m \in Msg : List(m) \/ Arrive(m)
         \/ \E m \in Msg : Take(m) /\ file[m] # "waiting"
  PROVE  ScanInv'
<1> USE DEF ScanInv
<1>1. UNCHANGED << file, step, msg, crashes, unmarked >> /\ Undisturbed' = Undisturbed
  BY DEF outboundVars, netmail, run, others, Undisturbed
<1>2. /\ clock \in Nat /\ lastrun \in Nat /\ present \subseteq Msg
      /\ stamp \in [Msg -> Nat] /\ stamp' \in [Msg -> Nat]
  BY NetmailRunAssumption DEF RunTypeOK
<1>3. ASSUME NEW i \in BOOLEAN, BeginRun(i) PROVE ScanInv'
  <2>1. /\ phase = "down" /\ phase' = "open" /\ lastrun' = clock
        /\ since' \in {0, lastrun} /\ UNCHANGED << clock, present, stamp, names, queue >>
    BY <1>3 DEF BeginRun
  <2>2. ASSUME NEW m \in present, IsNew(m, lastrun) PROVE IsNew(m, since)'
    <3>1. IsNew(m, since') /\ stamp' = stamp
      BY <1>2, <2>1, <2>2, NewIfLater
    <3>2. QED
      BY <3>1 DEF IsNew
  <2>3. InDirectory' = InDirectory
    BY <1>1, <2>1 DEF InDirectory
  <2>4. ASSUME Undisturbed', NEW m \in present', file'[m] = "waiting" PROVE Remembered(m)'
    <3>1. Remembered(m) /\ step = "idle" /\ queue = {}
      BY <1>1, <2>1, <2>4
    <3>2. IsNew(m, lastrun)
      BY <2>1, <3>1 DEF Remembered
    <3>3. QED
      BY <2>1, <2>2, <3>2 DEF Remembered
  <2>5. QED
    BY <1>1, <1>2, <2>1, <2>3, <2>4
<1>4. ASSUME UNCHANGED << times, since >>, step = "idle",
             phase' \in {"list", "work", "down"}, phase' = "down" => queue' = {},
             phase' # "list" => names' = {},
             names' \subseteq present, queue' \subseteq present,
             Undisturbed =>
               /\ names' \subseteq InDirectory
               /\ \A m \in present : file[m] = "waiting" =>
                    \/ IsNew(m, lastrun) \/ m \in queue'
                    \/ phase' = "list" /\ m \in names' /\ IsNew(m, since)
      PROVE  ScanInv'
  <2>1. InDirectory' = InDirectory
    BY <1>1, <1>4 DEF InDirectory, times
  <2>2. \A m : IsNew(m, lastrun)' = IsNew(m, lastrun) /\ IsNew(m, since)' = IsNew(m, since)
    BY <1>4 DEF IsNew, times
  <2>3. QED
    BY <1>1, <1>4, <2>1, <2>2 DEF Remembered, times
<1>5. CASE OpenDirectory
  <2>1. /\ phase = "open" /\ phase' = "list" /\ names' = InDirectory /\ queue' = queue
        /\ UNCHANGED << times, since >>
    BY <1>5 DEF OpenDirectory
  <2>2. step = "idle" /\ InDirectory \subseteq present
    BY <2>1 DEF InDirectory
  <2>3. \A m \in present : file[m] = "waiting" => m \in InDirectory
    BY DEF InDirectory
  <2>4. QED
    BY <1>4, <2>1, <2>2, <2>3 DEF Remembered
<1>6. ASSUME NEW m \in Msg, List(m) PROVE ScanInv'
  <2>1. phase = "list" /\ m \in names /\ step = "idle" /\ UNCHANGED << times, since >>
    BY <1>6 DEF List
  <2>2. CASE m \in InDirectory
    <3>1. /\ names' = names \ {m} /\ phase' = phase
          /\ queue' = IF IsNew(m, since) THEN queue \cup {m} ELSE queue
      BY <1>6, <2>2 DEF List
    <3>2. QED
      BY <1>4, <2>1, <3>1 DEF Remembered
  <2>3. CASE m \notin InDirectory
    <3>1. phase' = "work" /\ names' = {} /\ queue' = queue /\ ~Undisturbed
      BY <1>6, <2>1, <2>3 DEF List
    <3>2. QED
      BY <1>4, <2>1, <3>1
  <2>4. QED
    BY <2>2, <2>3
<1>7. CASE EndOfList \/ EndRun
  <2>1. /\ step = "idle" /\ UNCHANGED << times, since, names, queue >>
        /\ names = {} /\ phase' \in {"work", "down"}
        /\ phase' = "down" => queue = {}
        /\ phase \in {"list", "work"}
    BY <1>7 DEF EndOfList, EndRun
  <2>2. QED
    BY <1>4, <2>1 DEF Remembered
<1>8. ASSUME NEW m \in Msg, Take(m), file[m] # "waiting" PROVE ScanInv'
  <2>1. /\ phase = "work" /\ step = "idle" /\ queue' = queue \ {m}
        /\ UNCHANGED << times, since, phase, names >>
    BY <1>8 DEF Take
  <2>2. QED
    BY <1>4, <1>8, <2>1 DEF Remembered
<1>9. CASE Tick
  <2>1. clock' = clock + 1 /\ UNCHANGED << present, stamp, lastrun, scan >>
    BY <1>9 DEF Tick
  <2>2. InDirectory' = InDirectory
    BY <1>1, <2>1 DEF InDirectory
  <2>3. \A m : Remembered(m)' = Remembered(m)
    BY <1>1, <2>1 DEF Remembered, IsNew, scan
  <2>4. QED
    BY <1>1, <1>2, <2>1, <2>2, <2>3 DEF scan
<1>10. ASSUME NEW m \in Msg, Arrive(m) PROVE ScanInv'
  <2>1. /\ m \notin present /\ present' = present \cup {m}
        /\ stamp' = [stamp EXCEPT ![m] = clock]
        /\ names' = names \/ (phase = "list" /\ names' = names \cup {m})
        /\ UNCHANGED << clock, lastrun, since, phase, queue >>
    BY <1>10 DEF Arrive, Stamped
  <2>2. InDirectory' = InDirectory \cup {m}
    BY <1>1, <2>1 DEF InDirectory
  <2>3. IsNew(m, lastrun)'
    <3>1. LastRunSeconds(lastrun) <= 2 * clock
      BY <1>2, LastRunNotAhead
    <3>2. stamp'[m] = clock /\ lastrun' = lastrun
      BY <1>2, <2>1
    <3>3. QED
      BY <3>1, <3>2 DEF IsNew, FileSeconds
  <2>4. ASSUME NEW n \in present PROVE stamp'[n] = stamp[n]
    BY <1>2, <2>1
  <2>5. ASSUME NEW n \in present, Remembered(n) PROVE Remembered(n)'
    BY <1>1, <2>1, <2>4, <2>5 DEF Remembered, IsNew
  <2>6. QED
    BY <1>1, <1>2, <2>1, <2>2, <2>3, <2>5 DEF Remembered
<1>11. QED
  BY <1>3, <1>5, <1>6, <1>7, <1>8, <1>9, <1>10

\* A message is taken from the queue, and AnalyzeNet goes on with it.
LEMMA ScanInvWork ==
  ASSUME ScanInv, RunTypeOK',
         \/ \E m \in Msg : Take(m) /\ Analyze(m)
         \/ Touching
         \/ Working /\ ~(OpenFailOut /\ "packet" \in Failing)
  PROVE  ScanInv'
<1> USE DEF ScanInv, Goto, netmail, others
<1>1. /\ clock \in Nat /\ lastrun \in Nat /\ present \subseteq Msg /\ msg \in Msg
      /\ unmarked \in Nat /\ stamp \in [Msg -> Nat]
      /\ file \in [Msg -> {"waiting", "sent", "killed", "withdrawn"}]
  BY NetmailRunAssumption, OutboundAssumption DEF RunTypeOK, OutboundTypeOK
<1>2. ASSUME NEW m \in Msg, Take(m), Analyze(m) PROVE ScanInv'
  <2>1. /\ phase = "work" /\ m \in queue /\ queue' = queue \ {m}
        /\ UNCHANGED << times, since, phase, names >>
        /\ file[m] = "waiting" /\ UNCHANGED << file, crashes, unmarked >> /\ msg' = m
        /\ step = "idle" /\ step' \in {"check", "open"}
    BY <1>2 DEF Take, Analyze
  <2>2. Undisturbed' = Undisturbed /\ InDirectory' = InDirectory
    BY <2>1 DEF Undisturbed, InDirectory, times
  <2>3. ASSUME NEW n \in present, Remembered(n) PROVE Remembered(n)'
    BY <2>1, <2>3 DEF Remembered, IsNew, times
  <2>4. QED
    BY <2>1, <2>2, <2>3 DEF times
<1>3. CASE Delay /\ Touching
  <2>1. /\ step = "check" /\ step' = "idle" /\ UNCHANGED << file, crashes, unmarked, msg >>
        /\ stamp' = [stamp EXCEPT ![msg] = clock]
        /\ UNCHANGED << clock, present, lastrun, scan >>
    BY <1>3 DEF Delay, Touching, Stamped
  <2>2. Undisturbed' = Undisturbed /\ InDirectory' = InDirectory
    BY <2>1 DEF Undisturbed, InDirectory
  <2>3. stamp'[msg] = clock /\ \A n \in Msg : n # msg => stamp'[n] = stamp[n]
    BY <1>1, <2>1
  <2>4. IsNew(msg, lastrun)'
    <3>1. LastRunSeconds(lastrun) <= 2 * clock
      BY <1>1, LastRunNotAhead
    <3>2. QED
      BY <2>1, <2>3, <3>1 DEF IsNew, FileSeconds
  <2>5. ASSUME NEW n \in present, Remembered(n) PROVE Remembered(n)'
    <3>1. CASE n = msg
      BY <2>1, <2>4, <3>1 DEF Remembered
    <3>2. CASE n # msg
      BY <1>1, <2>1, <2>3, <2>5, <3>2 DEF Remembered, IsNew, scan
    <3>3. QED
      BY <3>1, <3>2
  <2>6. QED
    BY <2>1, <2>2, <2>5 DEF scan
<1>4. CASE Mark /\ Touching
  <2>1. /\ step = "mark" /\ step' = "release" /\ UNCHANGED << crashes, unmarked, msg >>
        /\ file'[msg] # "waiting" /\ (file'[msg] = "withdrawn" <=> file[msg] = "withdrawn")
        /\ \A n \in Msg : n # msg => file'[n] = file[n] /\ stamp'[n] = stamp[n]
        /\ UNCHANGED << clock, present, lastrun, scan >>
    BY <1>1, <1>4 DEF Mark, Touching, Stamped
  <2>2. Undisturbed' = Undisturbed
    BY <1>1, <2>1 DEF Undisturbed
  <2>3. phase = "work" /\ names = {}
    BY <2>1
  <2>4. ASSUME NEW n \in present, n # msg, Remembered(n) PROVE Remembered(n)'
    BY <1>1, <2>1, <2>4 DEF Remembered, IsNew, scan
  <2>5. QED
    BY <1>1, <2>1, <2>2, <2>3, <2>4 DEF scan
<1>5. ASSUME UNCHANGED << file, crashes, unmarked, msg, times, scan >>, step # "idle",
             step' = "release" => file[msg] # "waiting",
             step' = "idle" /\ Undisturbed => file[msg] # "waiting",
             step' \in {"check", "create", "open", "write", "attach", "request", "mark"}
               => step \in {"check", "create", "open", "write", "attach", "request", "mark"}
      PROVE  ScanInv'
  <2>1. Undisturbed' = Undisturbed /\ InDirectory' = InDirectory
    BY <1>5 DEF Undisturbed, InDirectory, times
  <2>2. ASSUME Undisturbed, NEW n \in present, Remembered(n), file[n] = "waiting"
        PROVE  Remembered(n)'
    BY <1>5, <2>2 DEF Remembered, IsNew, times, scan
  <2>3. QED
    BY <1>5, <2>1, <2>2 DEF times, scan
<1>6. CASE Working /\ (\/ CheckSem \/ CreateSem \/ OpenPacket \/ OpenFailIn
                      \/ WritePacket \/ WriteFails)
  BY <1>5, <1>6 DEF Working, CheckSem, CreateSem, OpenPacket, OpenFailIn, WritePacket,
     WriteFails
<1>7. CASE Working /\ (Attach \/ Request \/ Release)
  BY <1>5, <1>7 DEF Working, Attach, Request, Release
<1>8. CASE Working /\ MarkFails
  <2>1. /\ step = "mark" /\ step' = "release" /\ UNCHANGED << file, msg, times, scan >>
        /\ unmarked' = unmarked + 1
    BY <1>8 DEF Working, MarkFails
  <2>2. ~Undisturbed'
    BY <1>1, <2>1 DEF Undisturbed
  <2>3. QED
    BY <1>1, <2>1, <2>2 DEF times, scan
<1>9. ~OpenFailOut \/ "packet" \in Failing
  BY DEF OpenFailOut
<1>10. QED
  BY <1>2, <1>3, <1>4, <1>6, <1>7, <1>8, <1>9 DEF Touching, Working

\* The mailer, the author, and a power failure.
LEMMA ScanInvOthers ==
  ASSUME ScanInv, RunTypeOK',
         \/ PowerFailure
         \/ /\ \/ \E s \in System : Connect(s) \/ Transmit(s) \/ HangUp(s) \/ Sweep(s)
               \/ \E m \in present : Withdraw(m)
            /\ UNCHANGED << times, scan >>
  PROVE  ScanInv'
<1> USE DEF ScanInv, netmail, run, others
<1>1. /\ present \subseteq Msg /\ msg \in Msg /\ crashes \in Nat
      /\ file \in [Msg -> {"waiting", "sent", "killed", "withdrawn"}]
  BY OutboundAssumption DEF RunTypeOK, OutboundTypeOK
<1>2. CASE PowerFailure
  <2>1. /\ phase' = "down" /\ names' = {} /\ queue' = {} /\ UNCHANGED << times, since >>
        /\ step' = "idle" /\ crashes' = crashes + 1 /\ UNCHANGED << file, msg >>
    BY <1>2 DEF PowerFailure, Crash
  <2>2. ~Undisturbed'
    BY <1>1, <2>1 DEF Undisturbed
  <2>3. QED
    BY <2>1, <2>2 DEF times
<1>3. ASSUME NEW m \in present, Withdraw(m), UNCHANGED << times, scan >> PROVE ScanInv'
  <2>1. /\ file'[m] = "withdrawn" /\ \A n \in Msg : n # m => file'[n] = file[n]
        /\ UNCHANGED << step, msg >>
    BY <1>1, <1>3 DEF Withdraw
  <2>2. ~Undisturbed'
    BY <1>1, <2>1 DEF Undisturbed
  <2>3. QED
    BY <1>1, <1>3, <2>1, <2>2 DEF times, scan
<1>4. ASSUME NEW s \in System, Connect(s) \/ Transmit(s) \/ HangUp(s) \/ Sweep(s),
             UNCHANGED << times, scan >>
      PROVE  ScanInv'
  <2>1. UNCHANGED << file, step, msg, crashes, unmarked >>
    BY <1>4 DEF Connect, Transmit, HangUp, Sweep
  <2>2. Undisturbed' = Undisturbed /\ InDirectory' = InDirectory
    BY <1>4, <2>1 DEF Undisturbed, InDirectory, times
  <2>3. \A m : Remembered(m)' = Remembered(m)
    BY <1>4, <2>1 DEF Remembered, IsNew, times, scan
  <2>4. QED
    BY <1>4, <2>1, <2>2, <2>3 DEF times, scan
<1>5. QED
  BY <1>2, <1>3, <1>4

LEMMA ScanInvNext ==
  "packet" \notin Failing /\ ScanInv /\ [RunNext]_runVars => ScanInv'
<1> SUFFICES ASSUME "packet" \notin Failing, ScanInv, [RunNext]_runVars PROVE ScanInv'
  OBVIOUS
<1>1. RunTypeOK'
  BY RunTypeNext DEF ScanInv
<1>2. CASE UNCHANGED runVars
  <2>1. UNCHANGED << file, step, msg, crashes, unmarked, times, scan >>
    BY <1>2 DEF runVars, outboundVars, netmail, run, others
  <2>2. Undisturbed' = Undisturbed /\ InDirectory' = InDirectory
    BY <2>1 DEF Undisturbed, InDirectory, times
  <2>3. \A m : Remembered(m)' = Remembered(m)
    BY <2>1 DEF Remembered, IsNew, times, scan
  <2>4. QED
    BY <1>1, <2>1, <2>2, <2>3 DEF ScanInv, times, scan
<1>3. CASE Cfroute
  <2>1. CASE (\E i \in BOOLEAN : BeginRun(i)) \/ OpenDirectory \/ EndOfList \/ EndRun
             \/ \E m \in Msg : List(m)
    <3>1. UNCHANGED outboundVars
      BY <2>1 DEF BeginRun, OpenDirectory, EndOfList, EndRun, List
    <3>2. QED
      BY <1>1, <2>1, <3>1, ScanInvScan
  <2>2. ASSUME NEW m \in Msg, Take(m) PROVE ScanInv'
    <3>1. CASE Analyze(m)
      BY <1>1, <2>2, <3>1, ScanInvWork
    <3>2. CASE file[m] # "waiting" /\ UNCHANGED outboundVars
      BY <1>1, <2>2, <3>2, ScanInvScan
    <3>3. QED
      BY <2>2, <3>1, <3>2 DEF Take
  <2>3. CASE Touching \/ Working
    BY <1>1, <2>3, ScanInvWork
  <2>4. QED
    BY <1>3, <2>1, <2>2, <2>3 DEF Cfroute
<1>4. CASE Tick \/ \E m \in Msg : Arrive(m)
  <2>1. UNCHANGED outboundVars
    BY <1>4 DEF Tick, Arrive
  <2>2. QED
    BY <1>1, <1>4, <2>1, ScanInvScan
<1>5. CASE Others /\ ~(Tick \/ \E m \in Msg : Arrive(m))
  BY <1>1, <1>5, ScanInvOthers DEF Others
<1>6. QED
  BY <1>2, <1>3, <1>4, <1>5 DEF RunNext

\* A message that waits is new for the next run, for any clock, however the
\* times of its arrival, its delays and the runs fall, if no packet fails to open.
THEOREM NothingForgotten == "packet" \notin Failing /\ RunSpec => []NotForgotten
<1> DEFINE Inv == "packet" \notin Failing /\ ScanInv
<1>1. "packet" \notin Failing /\ RunInit => Inv
  BY ScanInvInit
<1>2. Inv /\ [RunNext]_runVars => Inv'
  BY ScanInvNext
<1>3. Inv => NotForgotten
  BY DEF ScanInv, NotForgotten, NeverForgotten, Undisturbed, Remembered
<1>4. QED
  BY <1>1, <1>2, <1>3, PTL DEF RunSpec
=============================================================================
