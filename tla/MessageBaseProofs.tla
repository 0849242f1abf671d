--------------------------- MODULE MessageBaseProofs ----------------------------
(***************************************************************************)
(* Theorems about MessageBase, for any base and any other programs.        *)
(***************************************************************************)
EXTENDS MessageBase, TLAPS

-----------------------------------------------------------------------------
\* What deleting message i leaves: the ones behind it are one place nearer.
LEMMA RemoveAtPlaces ==
  ASSUME NEW S, NEW s \in Seq(S), NEW i \in DOMAIN s
  PROVE  /\ RemoveAt(s, i) \in Seq(S)
         /\ DOMAIN RemoveAt(s, i) = 1 .. (Len(s) - 1)
         /\ Len(RemoveAt(s, i)) = Len(s) - 1
         /\ \A j \in 1 .. (Len(s) - 1) :
              RemoveAt(s, i)[j] = IF j < i THEN s[j] ELSE s[j + 1]
<1> DEFINE before == SubSeq(s, 1, i - 1)  after == SubSeq(s, i + 1, Len(s))
<1>1. i \in 1 .. Len(s) /\ Len(s) \in Nat
  OBVIOUS
<1>2. /\ before \in Seq(S) /\ Len(before) = i - 1
      /\ \A j \in 1 .. (i - 1) : before[j] = s[j]
  BY <1>1
<1>3. /\ after \in Seq(S) /\ Len(after) = Len(s) - i
      /\ \A j \in 1 .. (Len(s) - i) : after[j] = s[i + j]
  BY <1>1
<1>4. RemoveAt(s, i) = before \o after
  BY DEF RemoveAt
<1>5. /\ before \o after \in Seq(S)
      /\ Len(before \o after) = Len(s) - 1
      /\ \A j \in 1 .. (Len(s) - 1) :
           (before \o after)[j] = IF j < i THEN s[j] ELSE s[j + 1]
  <2> HIDE DEF before, after
  <2>1. before \o after \in Seq(S) /\ Len(before \o after) = Len(s) - 1
    BY <1>1, <1>2, <1>3
  <2>2. ASSUME NEW j \in 1 .. (Len(s) - 1), j < i PROVE (before \o after)[j] = s[j]
    BY <1>1, <1>2, <1>3, <2>2
  <2>3. ASSUME NEW j \in 1 .. (Len(s) - 1), ~(j < i) PROVE (before \o after)[j] = s[j + 1]
    <3>1. j - (i - 1) \in 1 .. (Len(s) - i) /\ i + (j - (i - 1)) = j + 1
      BY <1>1, <2>3
    <3>2. (before \o after)[j] = after[j - (i - 1)]
      <4>1. /\ j \in Nat /\ j > Len(before) /\ j <= Len(before) + Len(after)
            /\ j - Len(before) = j - (i - 1)
        BY <1>1, <1>2, <1>3, <2>3
      <4>2. \A u, v \in Seq(S), k \in Nat :
              k > Len(u) /\ k <= Len(u) + Len(v) => (u \o v)[k] = v[k - Len(u)]
        OBVIOUS
      <4>3. (before \o after)[j] = after[j - Len(before)]
        BY <1>2, <1>3, <4>1, <4>2, Zenon
      <4>4. QED
        BY <4>1, <4>3
    <3>3. QED
      BY <1>3, <3>1, <3>2
  <2>4. QED
    BY <2>1, <2>2, <2>3
<1>6. DOMAIN RemoveAt(s, i) = 1 .. (Len(s) - 1)
  BY <1>4, <1>5
<1>7. QED
  BY <1>4, <1>5, <1>6

Injective(s) == \A i, j \in DOMAIN s : s[i] = s[j] => i = j

\* A message that is deleted is not in the base any more, and no other is twice.
LEMMA RemoveAtOnce ==
  ASSUME NEW S, NEW s \in Seq(S), Injective(s), NEW i \in DOMAIN s
  PROVE  /\ Injective(RemoveAt(s, i))
         /\ Range(RemoveAt(s, i)) \subseteq Range(s) \ {s[i]}
<1> DEFINE r == RemoveAt(s, i)  From(j) == IF j < i THEN j ELSE j + 1
<1>1. Len(s) \in Nat /\ i \in 1 .. Len(s) /\ DOMAIN s = 1 .. Len(s)
  OBVIOUS
<1>2. DOMAIN r = 1 .. (Len(s) - 1)
  BY RemoveAtPlaces
<1>3. \A j \in DOMAIN r : r[j] = s[From(j)] /\ From(j) \in DOMAIN s /\ From(j) # i
  BY <1>1, RemoveAtPlaces
<1>4. \A j, k \in DOMAIN r : From(j) = From(k) => j = k
  BY <1>1, <1>2
<1>5. Injective(r)
  BY <1>3, <1>4 DEF Injective
<1>6. \A j \in DOMAIN r : r[j] \in Range(s) \ {s[i]}
  BY <1>3 DEF Injective, Range
<1>7. QED
  BY <1>5, <1>6 DEF Range

-----------------------------------------------------------------------------
\* What is counted of the other programs and of failures.
Counted == deletions \in Nat /\ failures \in Nat /\ crashes \in Nat

Typed == BaseTypeOK /\ Counted

\* Counting up to a bound stays within it, and counts one if it is not reached.
LEMMA CountUpBounds ==
  ASSUME NEW max \in Nat \ {0}, NEW n \in 0 .. max
  PROVE  /\ CountUp(n, max) \in 0 .. max /\ CountUp(n, max) > 0
         /\ CountUp(n, max) \in {n, n + 1}
         /\ CountUp(n, max) < max => CountUp(n, max) = n + 1
BY DEF CountUp

\* What a call reads is in the base.
LEMMA ComeType ==
  ASSUME Typed, Come(info')
  PROVE  /\ info' \in Msg /\ info' \in Range(base) /\ info' = base[count]
         /\ count \in DOMAIN base /\ shifted' = FALSE
         /\ seen' = seen \cup {info'} /\ again' = again \cup (seen \cap {info'})
         /\ again' \subseteq seen' /\ seen' \subseteq arrived
<1>1. count \in DOMAIN base /\ info' = base[count] /\ shifted' = FALSE
  BY DEF Come, NumMsg, Typed, BaseTypeOK
<1>2. info' \in Range(base) /\ info' \in Msg
  BY <1>1 DEF Range, Typed, BaseTypeOK
<1>3. seen' = seen \cup {info'} /\ again' = again \cup (seen \cap {info'})
  BY DEF Come
<1>4. info' \in arrived
  BY <1>2 DEF Typed, BaseTypeOK
<1>5. again' \subseteq seen' /\ seen' \subseteq arrived
  BY <1>3, <1>4 DEF Typed, BaseTypeOK
<1>6. QED
  BY <1>1, <1>2, <1>3, <1>5

LEMMA BaseTypeInit == Init => Typed
<1> SUFFICES ASSUME Init PROVE Typed
  OBVIOUS
<1>1. info \in Msg
  BY BaseAssumption DEF Init
<1>2. base \in Seq(Msg) /\ \A i, j \in DOMAIN base : base[i] = base[j] => i = j
  BY BaseAssumption DEF Init
<1>3. 0 \in 0 .. MaxCopies /\ 0 \in 0 .. MaxFailures
  BY BaseAssumption
<1>4. packed \in [Msg -> [System -> 0 .. MaxCopies]]
  BY <1>3 DEF Init
<1>5. /\ Range(base) \cup sent \cup killed \subseteq arrived /\ arrived \subseteq Msg
      /\ killed \cap Range(base) = {}
      /\ again \subseteq seen /\ seen \subseteq arrived
  BY <1>2 DEF Init, Range
<1>6. /\ step = "idle" /\ count \in Nat \ {0} /\ Counted
      /\ unpacked \subseteq Msg /\ failures \in 0 .. MaxFailures
  BY <1>3 DEF Init, Counted
<1>7. QED
  BY <1>1, <1>2, <1>4, <1>5, <1>6 DEF Typed, BaseTypeOK

\* Deleting message i of the base keeps the base a base.
LEMMA RemoveType ==
  ASSUME Typed, NEW i \in DOMAIN base, base' = RemoveAt(base, i)
  PROVE  /\ base' \in Seq(Msg)
         /\ \A j, k \in DOMAIN base' : base'[j] = base'[k] => j = k
         /\ Range(base') \subseteq Range(base) \ {base[i]}
         /\ base[i] \in Range(base) /\ base[i] \in arrived
<1>1. base \in Seq(Msg) /\ Injective(base)
  BY DEF Typed, BaseTypeOK, Injective
<1>2. RemoveAt(base, i) \in Seq(Msg) /\ Injective(RemoveAt(base, i))
      /\ Range(RemoveAt(base, i)) \subseteq Range(base) \ {base[i]}
  BY <1>1, RemoveAtPlaces, RemoveAtOnce
<1>3. base[i] \in Range(base) /\ base[i] \in arrived
  BY DEF Range, Typed, BaseTypeOK
<1>4. QED
  BY <1>2, <1>3 DEF Injective

\* A message that comes is the last one.
LEMMA ArriveType ==
  ASSUME Typed, NEW m \in Msg, Arrive(m)
  PROVE  /\ base' \in Seq(Msg)
         /\ \A j, k \in DOMAIN base' : base'[j] = base'[k] => j = k
         /\ Range(base') = Range(base) \cup {m}
         /\ Len(base') = Len(base) + 1
         /\ \A j \in DOMAIN base : j \in DOMAIN base' /\ base'[j] = base[j]
         /\ base'[Len(base) + 1] = m
<1>1. base \in Seq(Msg) /\ base' = Append(base, m) /\ m \notin arrived
  BY DEF Arrive, Typed, BaseTypeOK
<1>2. /\ base' \in Seq(Msg) /\ Len(base') = Len(base) + 1
      /\ DOMAIN base = 1 .. Len(base) /\ DOMAIN base' = 1 .. (Len(base) + 1)
      /\ Len(base) \in Nat
  BY <1>1
<1>3. /\ \A j \in DOMAIN base : j \in DOMAIN base' /\ base'[j] = base[j]
      /\ base'[Len(base) + 1] = m
  BY <1>1, <1>2
<1>4. \A j \in DOMAIN base' : j \in DOMAIN base \/ j = Len(base) + 1
  BY <1>2
<1>5. Len(base) + 1 \in DOMAIN base'
  BY <1>2
<1>6. Range(base') = Range(base) \cup {m}
  BY <1>3, <1>4, <1>5 DEF Range
<1>7. \A j \in DOMAIN base : base[j] # m
  BY <1>1 DEF Range, Typed, BaseTypeOK
<1>8. \A j, k \in DOMAIN base' : base'[j] = base'[k] => j = k
  BY <1>3, <1>4, <1>7 DEF Typed, BaseTypeOK
<1>9. QED
  BY <1>2, <1>3, <1>6, <1>8

\* What Pack adds.
LEMMA PackAdds ==
  ASSUME Typed, Pack
  PROVE  /\ count \in DOMAIN base /\ base[count] \in Msg
         /\ packed' \in [Msg -> [System -> 0 .. MaxCopies]]
         /\ \A m \in Msg, s \in System :
              packed'[m][s] = IF m = base[count] /\ s = Waypoint[info]
                              THEN CountUp(packed[m][s], MaxCopies) ELSE packed[m][s]
<1>1. count \in DOMAIN base
  BY DEF Pack, NumMsg, Typed, BaseTypeOK
<1>2. /\ base[count] \in Msg /\ Waypoint[info] \in System
      /\ packed \in [Msg -> [System -> 0 .. MaxCopies]]
  BY <1>1, BaseAssumption DEF Typed, BaseTypeOK
<1>3. PICK m \in Msg, s \in System : m = base[count] /\ s = Waypoint[info]
  BY <1>2
<1>4. packed' = [packed EXCEPT ![m][s] = CountUp(@, MaxCopies)]
  BY <1>3 DEF Pack
<1>5. CountUp(packed[m][s], MaxCopies) \in 0 .. MaxCopies
  BY <1>2, CountUpBounds, BaseAssumption
<1>6. QED
  BY <1>1, <1>2, <1>3, <1>4, <1>5

\* A deletion or a flag that fails is counted.
LEMMA FailureCounted ==
  ASSUME Typed, failures' = CountUp(failures, MaxFailures)
  PROVE  /\ failures' \in 0 .. MaxFailures /\ failures' \in Nat /\ failures' # 0
         /\ failures' < MaxFailures => failures < MaxFailures /\ failures' = failures + 1
<1>1. failures \in 0 .. MaxFailures /\ MaxFailures \in Nat \ {0}
  BY BaseAssumption DEF Typed, BaseTypeOK
<1>2. QED
  BY <1>1, CountUpBounds

LEMMA BaseTypeNext == Typed /\ [Next]_vars => Typed'
<1> SUFFICES ASSUME Typed, [Next]_vars PROVE Typed'
  OBVIOUS
<1> USE DEF Goto, content, histories, bounds, Counted
<1>1. CASE StartRun
  BY <1>1 DEF StartRun, Typed, BaseTypeOK
<1>2. CASE EndRun
  BY <1>2 DEF EndRun, Typed, BaseTypeOK
<1>3. CASE LeaveAlone
  <2>1. info' \in Msg /\ again' \subseteq seen' /\ seen' \subseteq arrived
    BY <1>3, ComeType DEF LeaveAlone
  <2>2. count' \in Nat \ {0}
    BY <1>3 DEF LeaveAlone, Typed, BaseTypeOK
  <2>3. QED
    BY <1>3, <2>1, <2>2 DEF LeaveAlone, Typed, BaseTypeOK
<1>4. CASE Delay
  <2>1. info' \in Msg /\ again' \subseteq seen' /\ seen' \subseteq arrived
    BY <1>4, ComeType DEF Delay
  <2>2. count' \in Nat \ {0}
    BY <1>4 DEF Delay, Typed, BaseTypeOK
  <2>3. QED
    BY <1>4, <2>1, <2>2 DEF Delay, Typed, BaseTypeOK
<1>5. CASE Analyze
  BY <1>5, ComeType DEF Analyze, Typed, BaseTypeOK
<1>6. CASE Pack
  <2>1. unpacked' \subseteq Msg
    BY <1>6 DEF Pack, Typed, BaseTypeOK
  <2>2. QED
    BY <1>6, <2>1, PackAdds DEF Pack, Typed, BaseTypeOK
<1>6a. CASE NoMemory
  <2>1. base[count] \in Msg
    BY <1>6a DEF NoMemory, NumMsg, Typed, BaseTypeOK
  <2>2. QED
    BY <1>6a, <2>1 DEF NoMemory, Typed, BaseTypeOK
<1>7. CASE OpenFailIn
  BY <1>7 DEF OpenFailIn, Typed, BaseTypeOK
<1>8. CASE OpenFailOut
  BY <1>8 DEF OpenFailOut, Typed, BaseTypeOK
<1>9. CASE Kill
  <2>1. count \in DOMAIN base /\ base' = RemoveAt(base, count)
    BY <1>9 DEF Kill, NumMsg, Typed, BaseTypeOK
  <2>2. killed' = killed \cup {base[count]}
    BY <1>9 DEF Kill
  <2>3. QED
    BY <1>9, <2>1, <2>2, RemoveType DEF Kill, Typed, BaseTypeOK
<1>10. CASE KillNothing
  BY <1>10 DEF KillNothing, Typed, BaseTypeOK
<1>10a. CASE KillFails
  BY <1>10a, FailureCounted DEF KillFails, Typed, BaseTypeOK
<1>10b. CASE MarkFails
  BY <1>10b, FailureCounted DEF MarkFails, Typed, BaseTypeOK
<1>11. CASE MarkSent
  <2>1. base[count] \in arrived
    BY <1>11 DEF MarkSent, NumMsg, Range, Typed, BaseTypeOK
  <2>2. QED
    BY <1>11, <2>1 DEF MarkSent, Typed, BaseTypeOK
<1>12. CASE MarkNothing
  BY <1>12 DEF MarkNothing, Typed, BaseTypeOK
<1>13. ASSUME NEW m \in Msg, Arrive(m) PROVE Typed'
  BY <1>13, ArriveType DEF Arrive, Typed, BaseTypeOK
<1>14. ASSUME NEW i \in DOMAIN base, Delete(i) PROVE Typed'
  BY <1>14, RemoveType DEF Delete, Typed, BaseTypeOK
<1>15. CASE Crash
  BY <1>15 DEF Crash, Typed, BaseTypeOK
<1>16. CASE UNCHANGED vars
  BY <1>16 DEF vars, Typed, BaseTypeOK
<1>17. QED
  BY <1>1, <1>2, <1>3, <1>4, <1>5, <1>6, <1>6a, <1>7, <1>8, <1>9, <1>10, <1>10a, <1>10b,
     <1>11, <1>12, <1>13, <1>14, <1>15, <1>16 DEF Next, ProcessSquish, Environment

\* The numbers stay numbers of messages, and a message deleted does not come back.
THEOREM BaseTyped == Spec => []BaseTypeOK
<1>1. Typed => BaseTypeOK
  BY DEF Typed
<1>2. QED
  BY <1>1, BaseTypeInit, BaseTypeNext, PTL DEF Spec

-----------------------------------------------------------------------------
\* As long as nobody has deleted a message before it, the number the call uses
\* three times is that of the message it has analyzed.
AtMessage ==
  (step \in {"open", "mark"} /\ ~shifted) =>
    count \in DOMAIN base /\ base[count] = info /\ info \notin sent

LEMMA AtMessageNext == Typed /\ AtMessage /\ [Next]_vars => AtMessage'
<1> SUFFICES ASSUME Typed, AtMessage, [Next]_vars, (step \in {"open", "mark"} /\ ~shifted)'
             PROVE  (count \in DOMAIN base /\ base[count] = info /\ info \notin sent)'
  BY DEF AtMessage
<1> USE DEF Goto, content, histories, bounds
<1>1. CASE Analyze
  BY <1>1, ComeType DEF Analyze
<1>2. CASE Pack \/ NoMemory
  BY <1>2 DEF Pack, NoMemory, AtMessage
<1>3. CASE OpenFailIn
  BY <1>3 DEF OpenFailIn, AtMessage
<1>4. ASSUME NEW m \in Msg, Arrive(m)
      PROVE  (count \in DOMAIN base /\ base[count] = info /\ info \notin sent)'
  BY <1>4, ArriveType DEF Arrive, AtMessage
<1>5. ASSUME NEW i \in DOMAIN base, Delete(i)
      PROVE  (count \in DOMAIN base /\ base[count] = info /\ info \notin sent)'
  <2>1. ~shifted /\ ~(i <= count) /\ base' = RemoveAt(base, i)
    BY <1>5 DEF Delete
  <2>2. count \in DOMAIN base /\ base[count] = info /\ info \notin sent
    BY <1>5, <2>1 DEF Delete, AtMessage
  <2>3. count \in 1 .. (Len(base) - 1) /\ count < i
    BY <2>1, <2>2 DEF Typed, BaseTypeOK
  <2>4. base'[count] = base[count] /\ count \in DOMAIN base'
    BY <2>1, <2>3, RemoveAtPlaces DEF Typed, BaseTypeOK
  <2>5. QED
    BY <1>5, <2>2, <2>4 DEF Delete
<1>6. CASE UNCHANGED vars
  BY <1>6 DEF vars, AtMessage
<1>7. CASE \/ StartRun \/ EndRun \/ LeaveAlone \/ Delay \/ OpenFailOut
           \/ Kill \/ KillNothing \/ KillFails
           \/ MarkSent \/ MarkFails \/ MarkNothing \/ Crash
  BY <1>7 DEF StartRun, EndRun, LeaveAlone, Delay, OpenFailOut, Kill, KillNothing, KillFails,
     MarkSent, MarkFails, MarkNothing, Crash
<1>8. QED
  BY <1>1, <1>2, <1>3, <1>4, <1>5, <1>6, <1>7 DEF Next, ProcessSquish, Environment

\* A copy first: what is about to be marked, and what was marked, is in a packet for
\* its waypoint, or its conversion had no memory.
Accounted(m) == Copies(m) > 0 \/ m \in unpacked

CopyFirst ==
  /\ (step = "mark" /\ ~shifted) => Accounted(info)
  /\ \A m \in (sent \cup killed) \ mistaken : Accounted(m)

LEMMA CopyFirstNext == Typed /\ AtMessage /\ CopyFirst /\ [Next]_vars => CopyFirst'
<1> SUFFICES ASSUME Typed, AtMessage, CopyFirst, [Next]_vars PROVE CopyFirst'
  OBVIOUS
<1> USE DEF Goto, content, histories, bounds
<1>0. /\ sent \cup killed \subseteq Msg /\ Waypoint \in [Msg -> System] /\ info \in Msg
      /\ packed \in [Msg -> [System -> 0 .. MaxCopies]] /\ MaxCopies \in Nat \ {0}
  BY BaseAssumption DEF Typed, BaseTypeOK
<1>1. CASE Pack
  <2>1. \A m \in Msg : Copies(m) > 0 => Copies(m)' > 0
    <3>1. ASSUME NEW m \in Msg, Copies(m) > 0 PROVE Copies(m)' > 0
      <4>1. packed[m][Waypoint[m]] \in 0 .. MaxCopies /\ packed[m][Waypoint[m]] > 0
        BY <1>0, <3>1 DEF Copies
      <4>2. packed'[m][Waypoint[m]] > 0
        BY <1>0, <1>1, <4>1, PackAdds, CountUpBounds
      <4>3. QED
        BY <4>2 DEF Copies
    <3>2. QED
      BY <3>1
  <2>2. ASSUME base[count] = info PROVE \A m \in Msg : m = info => Copies(m)' > 0
    <3>1. ASSUME NEW m \in Msg, m = info PROVE Copies(m)' > 0
      <4>1. packed[m][Waypoint[m]] \in 0 .. MaxCopies
        BY <1>0
      <4>2. packed'[m][Waypoint[m]] = CountUp(packed[m][Waypoint[m]], MaxCopies)
        BY <1>0, <1>1, <2>2, <3>1, PackAdds
      <4>3. QED
        BY <1>0, <4>1, <4>2, CountUpBounds DEF Copies
    <3>2. QED
      BY <3>1
  <2>3. /\ info' = info /\ UNCHANGED << sent, killed, mistaken, shifted >>
        /\ unpacked' = IF base[count] = info THEN unpacked \ {info} ELSE unpacked
    BY <1>1 DEF Pack
  <2>4. \A m \in Msg : Accounted(m) => Accounted(m)'
    BY <2>1, <2>2, <2>3 DEF Accounted
  <2>5. ~shifted => \A m \in Msg : m = info => Accounted(m)'
    BY <1>1, <2>2 DEF Pack, AtMessage, Accounted
  <2>6. ~shifted => Accounted(info)'
    <3>1. PICK m \in Msg : m = info
      BY <1>0
    <3>2. Accounted(info)' <=> Accounted(m)'
      BY <2>3, <3>1 DEF Accounted, Copies
    <3>3. QED
      BY <2>5, <3>1, <3>2
  <2>7. QED
    BY <1>0, <2>3, <2>4, <2>6 DEF CopyFirst
<1>2. CASE NoMemory
  <2>1. /\ UNCHANGED << packed, info, sent, killed, mistaken, shifted >>
        /\ unpacked' = unpacked \cup {base[count]}
        /\ ~shifted => base[count] = info
    BY <1>2 DEF NoMemory, AtMessage
  <2>2. \A m \in Msg : Accounted(m) => Accounted(m)'
    BY <2>1 DEF Accounted, Copies
  <2>3. ~shifted => Accounted(info)'
    BY <2>1 DEF Accounted
  <2>4. QED
    BY <1>0, <2>1, <2>2, <2>3 DEF CopyFirst
<1>3. CASE OpenFailIn
  BY <1>3 DEF OpenFailIn, AtMessage, NumMsg, CopyFirst, Accounted, Copies, Typed, BaseTypeOK
<1>4. ASSUME Kill \/ MarkSent PROVE CopyFirst'
  <2>1. ~shifted => Accounted(base[count])
    BY <1>4 DEF Kill, MarkSent, AtMessage, CopyFirst
  <2>2. shifted => base[count] \in mistaken'
    BY <1>4 DEF Kill, MarkSent, NoteMistake
  <2>3. mistaken \subseteq mistaken'
    BY <1>4 DEF Kill, MarkSent, NoteMistake
  <2>4. \A m : Accounted(m)' <=> Accounted(m)
    BY <1>4 DEF Kill, MarkSent, Accounted, Copies
  <2>5. step' = "next" /\ sent' \cup killed' \subseteq sent \cup killed \cup {base[count]}
    BY <1>4 DEF Kill, MarkSent
  <2>6. QED
    BY <2>1, <2>2, <2>3, <2>4, <2>5 DEF CopyFirst
<1>5. ASSUME NEW i \in DOMAIN base, Delete(i) PROVE CopyFirst'
  BY <1>5 DEF Delete, CopyFirst, Accounted, Copies
<1>6. ASSUME NEW m \in Msg, Arrive(m) PROVE CopyFirst'
  BY <1>6 DEF Arrive, CopyFirst, Accounted, Copies
<1>7. CASE UNCHANGED vars
  BY <1>7 DEF vars, CopyFirst, Accounted, Copies
<1>8. CASE \/ StartRun \/ EndRun \/ LeaveAlone \/ Delay \/ Analyze \/ OpenFailOut
           \/ KillNothing \/ KillFails \/ MarkFails \/ MarkNothing \/ Crash
  BY <1>8 DEF StartRun, EndRun, LeaveAlone, Delay, Analyze, OpenFailOut, KillNothing,
     KillFails, MarkFails, MarkNothing, Crash, CopyFirst, Accounted, Copies
<1>9. QED
  BY <1>1, <1>2, <1>3, <1>4, <1>5, <1>6, <1>7, <1>8 DEF Next, ProcessSquish, Environment

\* One copy at most, for the right system, and one more for each failure: a message
\* that is not done has a copy only for a power failure, or for a deletion or a flag
\* that failed.
Done(m) == m \in sent \cup killed \/ (step = "mark" /\ info = m)

CopyCount ==
  deletions = 0 =>
    /\ ~shifted
    /\ \A m \in Msg, s \in System : packed[m][s] > 0 => s = Waypoint[m]
    /\ failures < MaxFailures =>
         \A m \in Msg : /\ Copies(m) <= 1 + crashes + failures
                        /\ ~Done(m) => Copies(m) <= crashes + failures

LEMMA CopyCountNext ==
  Typed /\ AtMessage /\ CopyCount /\ [Next]_vars => CopyCount'
<1> SUFFICES ASSUME Typed, AtMessage, CopyCount, [Next]_vars, deletions' = 0
             PROVE  /\ ~shifted'
                    /\ \A m \in Msg, s \in System : packed'[m][s] > 0 => s = Waypoint[m]
                    /\ failures' < MaxFailures =>
                         \A m \in Msg : /\ (Copies(m) <= 1 + crashes + failures)'
                                        /\ (~Done(m) => Copies(m) <= crashes + failures)'
  BY DEF CopyCount
<1> USE DEF Goto, content, histories, bounds
<1> DEFINE Few(m) == /\ (Copies(m) <= 1 + crashes + failures)'
                     /\ (~Done(m) => Copies(m) <= crashes + failures)'
           Right(m, s) == packed'[m][s] > 0 => s = Waypoint[m]
           Goal == /\ ~shifted'
                   /\ \A m \in Msg, s \in System : Right(m, s)
                   /\ failures' < MaxFailures => \A m \in Msg : Few(m)
<1>0. ASSUME deletions # 0 PROVE FALSE
  <2>1. deletions' = deletions \/ deletions' = deletions + 1
    BY DEF Next, ProcessSquish, Environment, StartRun, EndRun, LeaveAlone, Delay, Analyze, Pack,
       NoMemory, OpenFailIn, OpenFailOut, Kill, KillNothing, KillFails, MarkSent, MarkFails,
       MarkNothing, Arrive, Delete, Crash, vars
  <2>2. QED
    BY <1>0, <2>1 DEF Typed, Counted
<1>1. /\ deletions = 0 /\ ~shifted
      /\ \A m \in Msg, s \in System : packed[m][s] > 0 => s = Waypoint[m]
      /\ failures < MaxFailures =>
           \A m \in Msg : /\ Copies(m) <= 1 + crashes + failures
                          /\ ~Done(m) => Copies(m) <= crashes + failures
  BY <1>0 DEF CopyCount
<1>2. /\ packed \in [Msg -> [System -> 0 .. MaxCopies]] /\ Waypoint \in [Msg -> System]
      /\ MaxCopies \in Nat \ {0}
  BY BaseAssumption DEF Typed, BaseTypeOK
<1>3. /\ crashes \in Nat /\ failures \in Nat
      /\ \A m \in Msg : Copies(m) \in Nat
  BY <1>2 DEF Copies, Typed, Counted
<1>4. CASE Pack
  <2>1. base[count] = info /\ info \notin sent /\ count \in DOMAIN base
    BY <1>1, <1>4 DEF Pack, AtMessage
  <2>2. info \notin killed
    BY <2>1 DEF Range, Typed, BaseTypeOK
  <2>3. /\ UNCHANGED << crashes, failures, shifted, info, sent, killed >>
        /\ step = "open" /\ step' = "mark"
    BY <1>4 DEF Pack
  <2>4. ASSUME failures' < MaxFailures, NEW m \in Msg PROVE Few(m)
    <3>0. failures < MaxFailures
      BY <2>3, <2>4
    <3>1. CASE m = info
      <4>1. ~Done(m) /\ Done(m)'
        BY <2>1, <2>2, <2>3, <3>1 DEF Done
      <4>2. Copies(m)' = CountUp(Copies(m), MaxCopies) /\ Copies(m) \in 0 .. MaxCopies
        BY <1>2, <1>4, <2>1, <3>1, PackAdds DEF Copies
      <4>3. Copies(m)' \in {Copies(m), Copies(m) + 1}
        BY <1>2, <4>2, CountUpBounds
      <4>4. Copies(m) <= crashes + failures
        BY <1>1, <3>0, <4>1
      <4>5. QED
        BY <1>3, <2>3, <4>1, <4>3, <4>4
    <3>2. CASE m # info
      <4>1. Copies(m)' = Copies(m)
        BY <1>2, <1>4, <2>1, <3>2, PackAdds DEF Copies
      <4>2. Done(m) <=> Done(m)'
        BY <2>3, <3>2 DEF Done
      <4>3. QED
        BY <1>1, <1>3, <2>3, <3>0, <4>1, <4>2
    <3>3. QED
      BY <3>1, <3>2
  <2>5. \A m \in Msg, s \in System : Right(m, s)
    BY <1>1, <1>4, <2>1, PackAdds
  <2>6. QED
    BY <1>1, <2>3, <2>4, <2>5
<1>5. ASSUME UNCHANGED << shifted, packed, sent, killed >>,
             \/ crashes' = crashes + 1 /\ failures' = failures
             \/ crashes' = crashes /\ failures' = CountUp(failures, MaxFailures)
      PROVE  Goal
  <2>1. ASSUME failures' < MaxFailures
        PROVE  /\ failures < MaxFailures /\ crashes' \in Nat /\ failures' \in Nat
               /\ crashes' + failures' = crashes + failures + 1
    BY <1>3, <1>5, <2>1, FailureCounted
  <2>2. \A m \in Msg : Copies(m)' = Copies(m)
    BY <1>5 DEF Copies
  <2>3. ASSUME failures' < MaxFailures, NEW m \in Msg PROVE Few(m)
    <3>1. Copies(m)' = Copies(m) /\ Copies(m) <= 1 + crashes + failures
      BY <1>1, <2>1, <2>2, <2>3
    <3>2. QED
      BY <1>3, <2>1, <2>3, <3>1
  <2>4. QED
    BY <1>1, <1>5, <2>3
<1>6. CASE Crash \/ KillFails \/ MarkFails
  BY <1>5, <1>6 DEF Crash, KillFails, MarkFails
<1>7. CASE MarkNothing \/ KillNothing
  BY <1>1, <1>7 DEF MarkNothing, KillNothing, AtMessage, NumMsg, Typed, BaseTypeOK
<1>8. ASSUME /\ ~shifted' /\ UNCHANGED << packed, crashes, failures >>
             /\ \A m \in Msg : Done(m) => Done(m)'
      PROVE  Goal
  <2>1. \A m \in Msg : Copies(m)' = Copies(m)
    BY <1>8 DEF Copies
  <2>2. QED
    BY <1>1, <1>2, <1>3, <1>8, <2>1
<1>9. CASE Kill
  <2>1. base[count] = info
    BY <1>1, <1>9 DEF Kill, AtMessage
  <2>2. QED
    BY <1>1, <1>8, <1>9, <2>1 DEF Kill, Done
<1>10. CASE MarkSent
  <2>1. base[count] = info
    BY <1>1, <1>10 DEF MarkSent, AtMessage
  <2>2. QED
    BY <1>1, <1>8, <1>10, <2>1 DEF MarkSent, Done
<1>11. CASE StartRun \/ EndRun \/ NoMemory \/ OpenFailIn \/ OpenFailOut
  BY <1>1, <1>8, <1>11 DEF StartRun, EndRun, NoMemory, OpenFailIn, OpenFailOut, Done
<1>12. CASE LeaveAlone \/ Delay \/ Analyze
  BY <1>1, <1>8, <1>12 DEF LeaveAlone, Delay, Analyze, Come, Done
<1>13. ASSUME NEW m \in Msg, Arrive(m) PROVE Goal
  BY <1>1, <1>8, <1>13 DEF Arrive, Done
<1>14. ASSUME NEW i \in DOMAIN base, Delete(i) PROVE FALSE
  BY <1>1, <1>14 DEF Delete
<1>15. CASE UNCHANGED vars
  BY <1>1, <1>8, <1>15 DEF vars, Done
<1>16. QED
  BY <1>4, <1>6, <1>7, <1>9, <1>10, <1>11, <1>12, <1>13, <1>14, <1>15
     DEF Next, ProcessSquish, Environment

\* As with files, a copy first or a conversion without memory, and no more copies than
\* the failures account for: PackedFirst, for any base, any other programs and any
\* failures.
THEOREM CopiesFirst == Spec => []PackedFirst
<1> DEFINE IInv == Typed /\ AtMessage /\ CopyFirst /\ CopyCount
<1>1. Init => IInv
  <2>1. Init => Typed
    BY BaseTypeInit
  <2>2. Init => AtMessage /\ CopyFirst
    BY DEF Init, AtMessage, CopyFirst
  <2>3. Init => CopyCount
    <3>1. ASSUME Init, NEW m \in Msg PROVE \A s \in System : packed[m][s] = 0
      BY <3>1 DEF Init
    <3>2. ASSUME Init PROVE ~shifted /\ crashes = 0 /\ failures = 0
      BY <3>2 DEF Init
    <3>3. ASSUME Init PROVE \A m \in Msg : Copies(m) = 0
      BY <3>1, <3>3, BaseAssumption DEF Copies
    <3>4. QED
      BY <3>1, <3>2, <3>3 DEF CopyCount
  <2>4. QED
    BY <2>1, <2>2, <2>3
<1>2. IInv /\ [Next]_vars => IInv'
  BY BaseTypeNext, AtMessageNext, CopyFirstNext, CopyCountNext
<1>3. IInv => PackedFirst
  BY DEF CopyFirst, CopyCount, Accounted, PackedFirst
<1>4. QED
  BY <1>1, <1>2, <1>3, PTL DEF Spec

-----------------------------------------------------------------------------
\* The run has come to the messages before its number, and to no other but the one it
\* is at.
Passed(i) == i < count \/ (i = count /\ step # "next")

Counting ==
  (step # "idle" /\ ~moved) =>
    /\ count <= Len(base) + 1
    /\ step \in {"open", "mark"} => count <= Len(base)
    /\ \A i \in DOMAIN base : Passed(i) => base[i] \in seen
    /\ failures = 0 =>
         \A i \in DOMAIN base : base[i] \notin again /\ (base[i] \in seen => Passed(i))

\* Come adds the message at the number, and no other place holds it.
LEMMA ComeCounts ==
  ASSUME Typed, Counting, step = "next", ~moved, Come(info'), base' = base
  PROVE  /\ count \in DOMAIN base
         /\ \A i \in DOMAIN base : i <= count => base[i] \in seen'
         /\ failures = 0 =>
              \A i \in DOMAIN base : base[i] \notin again' /\ (base[i] \in seen' => i <= count)
<1>1. /\ count \in DOMAIN base /\ count \in Nat /\ Len(base) \in Nat
      /\ info' = base[count]
      /\ seen' = seen \cup {info'} /\ again' = again \cup (seen \cap {info'})
  <2>1. count \in Nat /\ Len(base) \in Nat
    BY DEF Typed, BaseTypeOK
  <2>2. QED
    BY <2>1, ComeType
<1>2. /\ \A i \in DOMAIN base : i < count => base[i] \in seen
      /\ failures = 0 =>
           \A i \in DOMAIN base : base[i] \notin again /\ (base[i] \in seen => i < count)
  BY DEF Counting, Passed
<1>3. \A i \in DOMAIN base : i \in Nat /\ (i <= count => i < count \/ i = count)
  BY <1>1 DEF Typed, BaseTypeOK
<1>4. \A i \in DOMAIN base : base[i] = base[count] => i = count
  BY <1>1 DEF Typed, BaseTypeOK
<1>5. \A i \in DOMAIN base : i <= count => base[i] \in seen'
  BY <1>1, <1>2, <1>3
<1>6. ASSUME failures = 0, NEW i \in DOMAIN base
      PROVE  base[i] \notin again' /\ (base[i] \in seen' => i <= count)
  <2>1. base[count] \notin seen
    BY <1>1, <1>2, <1>6
  <2>2. base[i] \notin again'
    BY <1>1, <1>2, <1>6, <2>1
  <2>3. base[i] \in seen' => i < count \/ i = count
    BY <1>1, <1>2, <1>4, <1>6
  <2>4. QED
    BY <1>1, <1>3, <2>2, <2>3
<1>7. QED
  BY <1>1, <1>5, <1>6

LEMMA CountingNext == Typed /\ Counting /\ [Next]_vars => Counting'
<1> SUFFICES ASSUME Typed, Counting, [Next]_vars, (step # "idle" /\ ~moved)'
             PROVE  /\ (count <= Len(base) + 1)'
                    /\ (step \in {"open", "mark"} => count <= Len(base))'
                    /\ (\A i \in DOMAIN base : Passed(i) => base[i] \in seen)'
                    /\ (failures = 0 => \A i \in DOMAIN base :
                          base[i] \notin again /\ (base[i] \in seen => Passed(i)))'
  BY DEF Counting
<1> DEFINE Goal == /\ (count <= Len(base) + 1)'
                   /\ (step \in {"open", "mark"} => count <= Len(base))'
                   /\ (\A i \in DOMAIN base : Passed(i) => base[i] \in seen)'
                   /\ (failures = 0 => \A i \in DOMAIN base :
                         base[i] \notin again /\ (base[i] \in seen => Passed(i)))'
<1> USE DEF Goto, content, histories, bounds
<1>0. count \in Nat \ {0} /\ base \in Seq(Msg) /\ DOMAIN base = 1 .. Len(base) /\ Len(base) \in Nat
  BY DEF Typed, BaseTypeOK
<1>1. CASE StartRun
  <2>1. count' = 1 /\ base' = base /\ seen' = {} /\ again' = {} /\ step' = "next"
    BY <1>1 DEF StartRun
  <2>2. \A i \in DOMAIN base : ~(i < 1)
    BY <1>0
  <2>3. QED
    BY <1>0, <2>1, <2>2 DEF Passed
<1>2. CASE LeaveAlone \/ Delay
  <2>1. step = "next" /\ ~moved /\ Come(info') /\ base' = base /\ count' = count + 1
        /\ step' = "next" /\ failures' = failures
    BY <1>2 DEF LeaveAlone, Delay
  <2>2. \A i \in DOMAIN base : Passed(i)' <=> i <= count
    BY <1>0, <2>1 DEF Passed
  <2>3. QED
    BY <1>0, <2>1, <2>2, ComeCounts
<1>3. CASE Analyze
  <2>1. step = "next" /\ ~moved /\ Come(info') /\ base' = base /\ count' = count
        /\ step' = "open" /\ failures' = failures
    BY <1>3 DEF Analyze
  <2>2. \A i \in DOMAIN base : Passed(i)' <=> i <= count
    BY <1>0, <2>1 DEF Passed
  <2>3. QED
    BY <1>0, <2>1, <2>2, ComeCounts
<1>4. CASE Pack \/ NoMemory
  <2>1. step = "open" /\ ~moved /\ UNCHANGED << base, count, seen, again, failures >>
        /\ step' = "mark"
    BY <1>4 DEF Pack, NoMemory
  <2>2. \A i \in DOMAIN base : Passed(i)' <=> Passed(i)
    BY <2>1 DEF Passed
  <2>3. QED
    BY <2>1, <2>2 DEF Counting
<1>5. CASE OpenFailIn \/ KillNothing
  BY <1>0, <1>5 DEF OpenFailIn, KillNothing, Counting, NumMsg
<1>6. CASE OpenFailOut \/ MarkSent
  <2>1. step \in {"open", "mark"} /\ ~moved /\ UNCHANGED << base, seen, again, failures >>
        /\ count' = count + 1 /\ step' = "next"
    BY <1>6 DEF OpenFailOut, MarkSent
  <2>2. \A i \in DOMAIN base : Passed(i)' <=> Passed(i)
    BY <1>0, <2>1 DEF Passed
  <2>3. QED
    BY <1>0, <2>1, <2>2 DEF Counting
<1>7. CASE Kill
  <2>1. step = "mark" /\ ~moved /\ base' = RemoveAt(base, count) /\ count' = count
        /\ step' = "next" /\ UNCHANGED << seen, again, failures >> /\ count \in DOMAIN base
    BY <1>0, <1>7 DEF Kill, NumMsg
  <2>2. /\ DOMAIN base' = 1 .. (Len(base) - 1) /\ Len(base') = Len(base) - 1
        /\ \A j \in 1 .. (Len(base) - 1) :
             base'[j] = IF j < count THEN base[j] ELSE base[j + 1]
    BY <1>0, <2>1, RemoveAtPlaces
  <2>3. ASSUME NEW i \in DOMAIN base', i < count
        PROVE  base'[i] = base[i] /\ i \in DOMAIN base /\ Passed(i) /\ Passed(i)'
    BY <1>0, <2>1, <2>2, <2>3 DEF Passed
  <2>4. ASSUME NEW i \in DOMAIN base', ~(i < count)
        PROVE  base'[i] = base[i + 1] /\ i + 1 \in DOMAIN base /\ ~Passed(i + 1) /\ ~Passed(i)'
    BY <1>0, <2>1, <2>2, <2>4 DEF Passed
  <2>5. /\ \A i \in DOMAIN base : Passed(i) => base[i] \in seen
        /\ failures = 0 =>
             \A i \in DOMAIN base : base[i] \notin again /\ (base[i] \in seen => Passed(i))
    BY <2>1 DEF Counting
  <2>6. (\A i \in DOMAIN base : Passed(i) => base[i] \in seen)'
    BY <2>1, <2>3, <2>4, <2>5
  <2>7. (failures = 0 => \A i \in DOMAIN base :
           base[i] \notin again /\ (base[i] \in seen => Passed(i)))'
    BY <2>1, <2>3, <2>4, <2>5
  <2>8. QED
    BY <1>0, <2>1, <2>2, <2>6, <2>7
<1>8. CASE KillFails
  <2>1. step = "mark" /\ ~moved /\ UNCHANGED << base, count, seen >> /\ step' = "next"
    BY <1>8 DEF KillFails
  <2>2. failures' # 0
    BY <1>8, FailureCounted DEF KillFails
  <2>3. \A i \in DOMAIN base : Passed(i)' => Passed(i)
    BY <1>0, <2>1 DEF Passed
  <2>4. QED
    BY <1>0, <2>1, <2>2, <2>3 DEF Counting
<1>8a. CASE MarkFails
  <2>1. step = "mark" /\ ~moved /\ UNCHANGED << base, seen >> /\ count' = count + 1
        /\ step' = "next" /\ count <= Len(base)
    BY <1>8a DEF MarkFails, NumMsg
  <2>2. failures' # 0
    BY <1>8a, FailureCounted DEF MarkFails
  <2>3. \A i \in DOMAIN base : Passed(i)' => Passed(i)
    BY <1>0, <2>1 DEF Passed
  <2>4. QED
    BY <1>0, <2>1, <2>2, <2>3 DEF Counting
<1>9. ASSUME NEW m \in Msg, Arrive(m) PROVE Goal
  <2>1. step # "idle" /\ ~moved /\ UNCHANGED << step, count, seen, again, failures >>
        /\ m \notin arrived
    BY <1>9 DEF Arrive
  <2>2. DOMAIN base' = 1 .. (Len(base) + 1) /\ Len(base') = Len(base) + 1
    BY <1>0, <1>9 DEF Arrive
  <2>3. m \notin seen /\ m \notin again
    BY <2>1 DEF Typed, BaseTypeOK
  <2>4. ASSUME NEW i \in DOMAIN base' \ DOMAIN base
        PROVE  i = Len(base) + 1 /\ base'[i] = m /\ ~Passed(i)
    <3>1. i = Len(base) + 1
      BY <1>0, <2>2
    <3>2. ~Passed(i)
      BY <1>0, <2>1, <3>1 DEF Counting, Passed, Typed, BaseTypeOK
    <3>3. QED
      BY <1>9, <3>1, <3>2, ArriveType
  <2>5. \A i \in DOMAIN base : base'[i] = base[i]
    BY <1>9, ArriveType
  <2>6. \A i \in DOMAIN base' : Passed(i)' <=> Passed(i)
    BY <2>1 DEF Passed
  <2>7. /\ \A i \in DOMAIN base : Passed(i) => base[i] \in seen
        /\ failures = 0 =>
             \A i \in DOMAIN base : base[i] \notin again /\ (base[i] \in seen => Passed(i))
        /\ count <= Len(base) + 1
        /\ step \in {"open", "mark"} => count <= Len(base)
    BY <2>1 DEF Counting
  <2>8. (\A i \in DOMAIN base : Passed(i) => base[i] \in seen)'
    BY <2>1, <2>4, <2>5, <2>6, <2>7
  <2>9. (failures = 0 => \A i \in DOMAIN base :
           base[i] \notin again /\ (base[i] \in seen => Passed(i)))'
    BY <2>1, <2>3, <2>4, <2>5, <2>6, <2>7
  <2>10. QED
    BY <1>0, <2>1, <2>2, <2>7, <2>8, <2>9
<1>10. ASSUME NEW d \in DOMAIN base, Delete(d) PROVE Goal
  <2>1. /\ step # "idle" /\ ~moved /\ UNCHANGED << step, count, seen, again, failures >>
        /\ base' = RemoveAt(base, d)
        /\ ~(d < count) /\ (d = count => step = "next")
    BY <1>10 DEF Delete
  <2>2. /\ DOMAIN base' = 1 .. (Len(base) - 1) /\ Len(base') = Len(base) - 1
        /\ \A j \in 1 .. (Len(base) - 1) :
             base'[j] = IF j < d THEN base[j] ELSE base[j + 1]
    BY <1>0, <2>1, RemoveAtPlaces
  <2>3. ASSUME NEW i \in DOMAIN base', i < d
        PROVE  base'[i] = base[i] /\ i \in DOMAIN base
    BY <1>0, <2>1, <2>2, <2>3
  <2>4. ASSUME NEW i \in DOMAIN base', ~(i < d)
        PROVE  base'[i] = base[i + 1] /\ i + 1 \in DOMAIN base /\ ~Passed(i + 1) /\ ~Passed(i)
    BY <1>0, <2>1, <2>2, <2>4 DEF Passed
  <2>5. \A i \in DOMAIN base' : Passed(i)' <=> Passed(i)
    BY <2>1 DEF Passed
  <2>6. /\ \A i \in DOMAIN base : Passed(i) => base[i] \in seen
        /\ failures = 0 =>
             \A i \in DOMAIN base : base[i] \notin again /\ (base[i] \in seen => Passed(i))
        /\ count <= Len(base) + 1
        /\ step \in {"open", "mark"} => count <= Len(base)
    BY <2>1 DEF Counting
  <2>7. (\A i \in DOMAIN base : Passed(i) => base[i] \in seen)'
    BY <2>1, <2>3, <2>4, <2>5, <2>6
  <2>8. (failures = 0 => \A i \in DOMAIN base :
           base[i] \notin again /\ (base[i] \in seen => Passed(i)))'
    BY <2>1, <2>3, <2>4, <2>5, <2>6
  <2>9. count <= Len(base') + 1 /\ (step \in {"open", "mark"} => count <= Len(base'))
    BY <1>0, <2>1, <2>2, <2>6 DEF Typed, BaseTypeOK
  <2>10. QED
    BY <2>1, <2>7, <2>8, <2>9
<1>11. CASE EndRun \/ MarkNothing \/ Crash
  BY <1>11 DEF EndRun, MarkNothing, Crash
<1>12. CASE UNCHANGED vars
  <2>1. \A i \in DOMAIN base : Passed(i)' <=> Passed(i)
    BY <1>12 DEF vars, Passed
  <2>2. QED
    BY <1>12, <2>1 DEF vars, Counting
<1>13. QED
  BY <1>1, <1>2, <1>3, <1>4, <1>5, <1>6, <1>7, <1>8, <1>8a, <1>9, <1>10, <1>11, <1>12
     DEF Next, ProcessSquish, Environment

\* The run comes to every message once, whatever it deletes itself and whatever comes:
\* NoneSkipped, for any base and any other programs.
THEOREM NothingSkipped == Spec => []NoneSkipped
<1> DEFINE IInv == Typed /\ Counting
<1>1. Init => IInv
  BY BaseTypeInit DEF Init, Counting
<1>2. IInv /\ [Next]_vars => IInv'
  BY BaseTypeNext, CountingNext
<1>3. IInv => NoneSkipped
  <2> SUFFICES ASSUME Typed, Counting, step = "next", count > NumMsg, ~moved
               PROVE  /\ Range(base) \subseteq seen
                      /\ failures = 0 => again \cap Range(base) = {}
    BY DEF NoneSkipped
  <2>1. \A i \in DOMAIN base : Passed(i)
    BY DEF Passed, NumMsg, Typed, BaseTypeOK
  <2>2. QED
    BY <2>1 DEF Counting, Range
<1>4. QED
  BY <1>1, <1>2, <1>3, PTL DEF Spec
=============================================================================
