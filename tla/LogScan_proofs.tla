--------------------------- MODULE LogScan_proofs ---------------------------
(***************************************************************************)
(* Theorems about a node of the log monitor, for every set of keywords and *)
(* kinds of lines, every length of the filter and of a day, and every      *)
(* bound: type correctness, the two properties of the repetition filter    *)
(* and NewsOnce.                                                           *)
(***************************************************************************)
EXTENDS LogScan, FiniteSetTheorems, TLAPS

-----------------------------------------------------------------------------
(* Max.                                                                    *)

\* A set of line numbers that is not empty has a largest element.  (Of the
\* sets of those above an element, one contains no other.)
LEMMA MaxOf ==
  ASSUME NEW n \in Nat, NEW S \in SUBSET (1 .. n), S # {}
  PROVE  Max(S) \in S /\ \A x \in S : x <= Max(S)
<1>. DEFINE Above(x) == {y \in S : x < y}
            F == {Above(x) : x \in S}
<1>1. \A T \in SUBSET S : IsFiniteSet(T)
  <2>1. IsFiniteSet(1 .. n)
    BY FS_Interval
  <2>2. IsFiniteSet(S)
    BY <2>1, FS_Subset
  <2>. QED BY <2>2, FS_Subset
<1>2. F \subseteq FiniteSubsetsOf(S) /\ F # {}
  <2>1. \A x : Above(x) \in FiniteSubsetsOf(S)
    BY <1>1 DEF FiniteSubsetsOf
  <2>. HIDE DEF Above
  <2>. QED BY <2>1
<1>3. PICK A \in F : \A B \in F : ~(<<B, A>> \in StrictSubsetOrdering(S))
  <2>1. IsWellFoundedOn(StrictSubsetOrdering(S), FiniteSubsetsOf(S))
    BY FS_StrictSubsetOrderingWellFounded
  <2>. HIDE DEF F
  <2>. QED BY <1>2, <2>1, WFMin
<1>4. PICK m \in S : A = Above(m)
  BY <1>3
<1>5. ASSUME NEW z \in S, m < z PROVE FALSE
  <2>1. \A y \in S : y \in Int
    OBVIOUS
  <2>2. \A y \in Above(z) : y \in S /\ z < y /\ m < y
    BY <1>5, <2>1
  <2>3. z \in Above(m) /\ z \notin Above(z)
    BY <1>5, <2>1
  <2>4. <<Above(z), Above(m)>> \in StrictSubsetOrdering(S)
    BY <2>2, <2>3 DEF StrictSubsetOrdering
  <2>5. Above(z) \in F
    OBVIOUS
  <2>. QED BY <1>3, <1>4, <2>4, <2>5
<1>6. \A x \in S : m >= x
  BY <1>5
<1>. QED BY <1>6 DEF Max

-----------------------------------------------------------------------------
(* Type correctness.                                                       *)

LEMMA Bounds ==
  /\ FilterSweeps \in Nat \ {0} /\ Windows \in Nat \ {0} /\ MaxWindows \in Nat \ {0}
  /\ MaxLines \in Nat /\ MaxFaults \in Nat
BY ConstAssumption

Texts == {n.text : n \in Kinds}
LineRec == [keys : SUBSET Keywords, text : Texts,
            days : SUBSET Nat, windows : SUBSET (1 .. Windows)]

FileOK ==
  /\ lines \in Seq(LineRec) /\ Len(lines) \in Nat
  /\ first \in 1 .. Len(lines) + 1
  /\ dated \in BOOLEAN

\* The days that begin are no more than the windows that do.
ClockOK ==
  /\ day \in 1 .. MaxWindows /\ window \in 1 .. Windows
  /\ (day - 1) * Windows + window <= MaxWindows

\* A node that has found a line, or nothing yet, knows for which keyword.
NodeOK ==
  /\ pc \in {"scan", "second", "found", "send", "ended"}
  /\ todo \subseteq Keywords /\ key \in Keywords \cup {NoKey}
  /\ line \in 0 .. Len(lines)
  /\ lastMsgMap \in [Keywords -> 0 .. Len(lines)]
  /\ IslogNodeOk \in BOOLEAN
  /\ pc = "second" => key \in Keywords
  /\ pc = "found" => line \in 1 .. Len(lines)

OrdersOK == stop \in {"empty", "sent", "closed"} /\ IsNeedStop \in BOOLEAN

FilterOK ==
  /\ Msg \in (Texts \ {Plain}) \cup {Empty}
  /\ timer \in 0 .. FilterSweeps /\ tick \in BOOLEAN
  /\ quiet \in 0 .. FilterSweeps /\ stale \in BOOLEAN

HistOK == taken \subseteq Keywords \X (1 .. Len(lines)) /\ repeated \in BOOLEAN

FaultsOK == faults \in 0 .. MaxFaults

TypeInv == FileOK /\ ClockOK /\ NodeOK /\ OrdersOK /\ FilterOK /\ HistOK /\ FaultsOK

LEMMA TypeInvOK == TypeInv => TypeOK
BY DEF TypeInv, TypeOK, FileOK, ClockOK, NodeOK, OrdersOK, FilterOK, HistOK, FaultsOK,
       LineRec, Texts

\* What a step leaves alone stays well typed.
LEMMA Frames ==
  /\ UNCHANGED file /\ FileOK => FileOK'
  /\ UNCHANGED clock /\ ClockOK => ClockOK'
  /\ UNCHANGED <<file, node>> /\ NodeOK => NodeOK'
  /\ UNCHANGED orders /\ OrdersOK => OrdersOK'
  /\ UNCHANGED filter /\ FilterOK => FilterOK'
  /\ UNCHANGED <<file, hist>> /\ HistOK => HistOK'
  /\ UNCHANGED faults /\ FaultsOK => FaultsOK'
<1>1. UNCHANGED file /\ FileOK => FileOK'
  BY DEF file, FileOK
<1>2. UNCHANGED clock /\ ClockOK => ClockOK'
  BY DEF clock, ClockOK
<1>3. UNCHANGED <<file, node>> /\ NodeOK => NodeOK'
  BY DEF file, node, NodeOK
<1>4. UNCHANGED orders /\ OrdersOK => OrdersOK'
  BY DEF orders, OrdersOK
<1>5. UNCHANGED filter /\ FilterOK => FilterOK'
  BY DEF filter, FilterOK
<1>6. UNCHANGED <<file, hist>> /\ HistOK => HistOK'
  BY DEF file, hist, HistOK
<1>7. UNCHANGED faults /\ FaultsOK => FaultsOK'
  BY DEF FaultsOK
<1>. QED BY <1>1, <1>2, <1>3, <1>4, <1>5, <1>6, <1>7

LEMMA DayBound ==
  ASSUME NEW d \in Nat, NEW w \in Nat \ {0}, NEW v \in Nat \ {0}, NEW m \in Nat,
         d * w + v <= m
  PROVE  d + 1 <= m
<1>1. d * w \in Nat /\ d * w >= d
  OBVIOUS
<1>. QED BY <1>1

LEMMA NextDay ==
  ASSUME NEW d \in Nat, NEW w \in Nat
  PROVE  (d + 1) * w = d * w + w
OBVIOUS

\* What a command finds: a line of the file with the keyword that is of today
\* or of this window, and no such line follows it.
LEMMA FoundLine ==
  ASSUME FileOK, NEW k \in Keywords, NEW S \in {OfToday(k), OfWindow(k)}, S # {}
  PROVE  /\ Max(S) \in S /\ \A l \in S : l <= Max(S)
         /\ Max(S) \in 1 .. Len(lines) /\ first <= Max(S) /\ k \in lines[Max(S)].keys
<1>1. S \in SUBSET (1 .. Len(lines)) /\ Len(lines) \in Nat
  <2>1. Len(lines) \in Nat /\ first \in 1 .. Len(lines) + 1
    BY DEF FileOK
  <2>2. InFile(k) \subseteq 1 .. Len(lines)
    BY <2>1 DEF InFile
  <2>3. S \subseteq InFile(k)
    BY DEF OfToday, OfWindow
  <2>. QED BY <2>1, <2>2, <2>3
<1>2. Max(S) \in S /\ \A l \in S : l <= Max(S)
  BY <1>1, MaxOf
<1>3. Max(S) \in InFile(k)
  BY <1>2 DEF OfToday, OfWindow
<1>4. Max(S) \in 1 .. Len(lines)
  BY <1>1, <1>2
<1>. QED BY <1>2, <1>3, <1>4 DEF InFile, FileOK

LEMMA TypeInit == Init => TypeInv
<1>. SUFFICES ASSUME Init PROVE TypeInv
  OBVIOUS
<1>. USE Bounds DEF Init
<1>1. FileOK
  BY DEF FileOK
<1>2. NodeOK
  BY DEF NodeOK
<1>3. ClockOK
  BY DEF ClockOK
<1>4. FilterOK
  <2>1. tick \in BOOLEAN /\ stale \in BOOLEAN
    OBVIOUS
  <2>. QED BY <2>1 DEF FilterOK
<1>5. OrdersOK /\ HistOK /\ FaultsOK
  <2>1. IsNeedStop \in BOOLEAN /\ repeated \in BOOLEAN
    OBVIOUS
  <2>. QED BY <2>1 DEF OrdersOK, HistOK, FaultsOK
<1>. QED BY <1>1, <1>2, <1>3, <1>4, <1>5 DEF TypeInv

\* The node takes a line up.
LEMMA TakeType ==
  ASSUME NodeOK, HistOK, NEW k \in Keywords, NEW l \in 1 .. Len(lines), Take(k, l),
         UNCHANGED <<file, IslogNodeOk>>, todo' \subseteq Keywords
  PROVE  NodeOK' /\ HistOK'
<1>. USE DEF Take
<1>1. lastMsgMap' \in [Keywords -> 0 .. Len(lines)] /\ lines' = lines
  BY DEF NodeOK, file
<1>2. CASE lastMsgMap[k] \in {0, l}
  <2>1. pc' = "scan" /\ key' = NoKey /\ line' = 0 /\ UNCHANGED hist
    BY <1>2 DEF NextKey
  <2>. QED BY <1>1, <2>1 DEF NodeOK, HistOK, hist
<1>3. CASE lastMsgMap[k] \notin {0, l}
  <2>1. repeated' \in BOOLEAN
    <3>1. repeated' = (repeated \/ <<k, l>> \in taken)
      BY <1>3
    <3>. QED BY <3>1 DEF HistOK
  <2>2. pc' = "found" /\ key' = k /\ line' = l /\ taken' = taken \cup {<<k, l>>}
    BY <1>3
  <2>. QED BY <1>1, <2>1, <2>2 DEF NodeOK, HistOK
<1>. QED BY <1>2, <1>3

LEMMA WriteType ==
  ASSUME TypeInv, NEW n \in Kinds, Write(n)
  PROVE  TypeInv'
<1>. DEFINE D == n.days \cup (IF dated THEN {day} ELSE {})
            e == [keys |-> n.keys, text |-> n.text, days |-> D,
                  windows |-> n.windows \cup {window}]
<1>1. e \in LineRec
  <2>1. /\ n.keys \subseteq Keywords /\ n.text \in Texts
        /\ n.windows \cup {window} \subseteq 1 .. Windows
    BY ConstAssumption DEF TypeInv, ClockOK, Texts
  <2>2. D \subseteq Nat
    BY ConstAssumption DEF TypeInv, ClockOK
  <2>. HIDE DEF D
  <2>. QED BY <2>1, <2>2 DEF LineRec
<1>2. lines \in Seq(LineRec) /\ lines' = Append(lines, e)
  BY DEF Write, TypeInv, FileOK
<1>. HIDE DEF e
<1>3. lines' \in Seq(LineRec) /\ Len(lines') = Len(lines) + 1 /\ Len(lines) \in Nat
  BY <1>1, <1>2
<1>4. FileOK'
  BY <1>3 DEF Write, TypeInv, FileOK
<1>5. NodeOK'
  <2>1. UNCHANGED node /\ NodeOK
    BY DEF Write, TypeInv
  <2>2. 0 .. Len(lines) \subseteq 0 .. Len(lines') /\ 1 .. Len(lines) \subseteq 1 .. Len(lines')
    BY <1>3
  <2>. QED BY <2>1, <2>2 DEF NodeOK, node
<1>6. HistOK'
  <2>1. UNCHANGED hist /\ HistOK
    BY DEF Write, TypeInv
  <2>2. 1 .. Len(lines) \subseteq 1 .. Len(lines')
    BY <1>3
  <2>3. Keywords \X (1 .. Len(lines)) \subseteq Keywords \X (1 .. Len(lines'))
    BY <2>2
  <2>. QED BY <2>1, <2>3 DEF HistOK, hist
<1>. QED BY <1>4, <1>5, <1>6, Frames DEF Write, TypeInv

LEMMA ClockType == ClockOK /\ NextWindow => ClockOK'
<1>. SUFFICES ASSUME ClockOK, NextWindow PROVE ClockOK'
  OBVIOUS
<1>. USE Bounds DEF ClockOK
<1>1. CASE window < Windows
  BY <1>1 DEF NextWindow
<1>2. CASE ~(window < Windows)
  <2>1. /\ window = Windows /\ window' = 1 /\ day' = day + 1
        /\ (day - 1) * Windows + window < MaxWindows
    BY <1>2 DEF NextWindow
  <2>2. day - 1 \in Nat /\ day' - 1 = (day - 1) + 1
    BY <2>1
  <2>3. (day' - 1) * Windows = (day - 1) * Windows + Windows /\ (day - 1) * Windows \in Int
    BY <2>2, NextDay
  <2>4. (day' - 1) * Windows + window' <= MaxWindows
    BY <2>1, <2>3
  <2>5. (day' - 1) + 1 <= MaxWindows
    <3>1. day' - 1 \in Nat /\ window' \in Nat \ {0}
      BY <2>1
    <3>. QED BY <2>4, <3>1, DayBound
  <2>. QED BY <2>1, <2>4, <2>5
<1>. QED BY <1>1, <1>2

LEMMA TypeStep == TypeInv /\ [Next]_vars => TypeInv'
<1>. SUFFICES ASSUME TypeInv, [Next]_vars PROVE TypeInv'
  OBVIOUS
<1>. USE Bounds, Frames DEF TypeInv
<1>2. CASE Rotate
  <2>1. FileOK' /\ lines' = lines
    BY <1>2 DEF Rotate, FileOK
  <2>2. NodeOK' /\ HistOK'
    BY <1>2, <2>1 DEF Rotate, NodeOK, HistOK, node, hist
  <2>. QED BY <1>2, <2>1, <2>2 DEF Rotate
<1>3. CASE NextWindow
  <2>1. HistOK'
    <3>1. taken' \subseteq taken /\ UNCHANGED <<repeated, lines>>
      BY <1>3 DEF NextWindow, file
    <3>. QED BY <3>1 DEF HistOK
  <2>. QED BY <1>3, <2>1, ClockType DEF NextWindow
<1>4. CASE SendStop \/ SetNeedStop
  <2>1. OrdersOK'
    BY <1>4 DEF SendStop, SetNeedStop, OrdersOK
  <2>. QED BY <1>4, <2>1 DEF SendStop, SetNeedStop
<1>5. ASSUME NEW k \in Keywords, First(k) PROVE TypeInv'
  <2>0. UNCHANGED <<file, clock, IslogNodeOk, orders, filter, faults>> /\ todo' \subseteq Keywords
    BY <1>5 DEF First, NodeOK
  <2>1. CASE OfToday(k) # {} /\ Take(k, Max(OfToday(k)))
    <3>1. Max(OfToday(k)) \in 1 .. Len(lines)
      BY <2>1, FoundLine
    <3>. QED BY <2>0, <2>1, <3>1, TakeType
  <2>2. CASE pc' = "second" /\ key' = k /\ UNCHANGED <<line, lastMsgMap, hist>>
    <3>1. NodeOK'
      BY <2>0, <2>2 DEF NodeOK, file
    <3>. QED BY <2>0, <2>2, <3>1
  <2>. QED BY <1>5, <2>1, <2>2 DEF First
<1>6. ASSUME NEW k \in Keywords, FirstFails(k) PROVE TypeInv'
  <2>1. NodeOK'
    BY <1>6 DEF FirstFails, NodeOK, file
  <2>2. FaultsOK'
    BY <1>6 DEF FirstFails, FaultsOK
  <2>. QED BY <1>6, <2>1, <2>2 DEF FirstFails
<1>7. CASE Second
  <2>0. /\ UNCHANGED <<file, clock, IslogNodeOk, orders, filter, faults>>
        /\ todo' \subseteq Keywords /\ key \in Keywords
    BY <1>7 DEF Second, NodeOK
  <2>1. CASE OfWindow(key) # {} /\ Take(key, Max(OfWindow(key)))
    <3>1. Max(OfWindow(key)) \in 1 .. Len(lines)
      BY <2>0, <2>1, FoundLine
    <3>. QED BY <2>0, <2>1, <3>1, TakeType
  <2>2. CASE NextKey /\ UNCHANGED <<lastMsgMap, hist>>
    <3>1. NodeOK'
      BY <2>0, <2>2 DEF NodeOK, NextKey, file
    <3>. QED BY <2>0, <2>2, <3>1
  <2>. QED BY <1>7, <2>1, <2>2 DEF Second
<1>8. CASE SecondFails
  <2>1. NodeOK'
    <3>1. /\ pc' = "scan" /\ key' = NoKey /\ line' = 0 /\ todo' = {} /\ IslogNodeOk' = FALSE
          /\ UNCHANGED <<lines, lastMsgMap>>
      BY <1>8 DEF SecondFails, NextKey, file
    <3>2. 0 \in 0 .. Len(lines)
      BY DEF FileOK
    <3>. QED BY <3>1, <3>2 DEF NodeOK
  <2>2. FaultsOK'
    BY <1>8 DEF SecondFails, FaultsOK
  <2>. QED BY <1>8, <2>1, <2>2 DEF SecondFails
<1>9. CASE Suppress
  <2>1. NodeOK'
    BY <1>9 DEF Suppress, NextKey, NodeOK, file
  <2>2. FilterOK'
    BY <1>9 DEF Suppress, ResetTimer, FilterOK
  <2>. QED BY <1>9, <2>1, <2>2 DEF Suppress
<1>10. CASE Report
  <2>1. NodeOK'
    BY <1>10 DEF Report, NextKey, NodeOK, file
  <2>2. FilterOK'
    <3>1. Text \in Texts
      <4>1. lines[line] \in LineRec
        BY <1>10 DEF Report, FileOK, NodeOK
      <4>. QED BY <4>1 DEF Text, LineRec
    <3>. QED BY <1>10, <3>1 DEF Report, ResetTimer, FilterOK, filter
  <2>. QED BY <1>10, <2>1, <2>2 DEF Report
<1>11. CASE Send
  <2>1. NodeOK'
    BY <1>11 DEF Send, NextKey, NodeOK, file
  <2>. QED BY <1>11, <2>1 DEF Send
<1>12. CASE SendWaits \/ Sleep
  <2>1. NodeOK'
    BY <1>12 DEF SendWaits, Sleep, NodeOK, file, node, Asleep, Swept
  <2>2. FilterOK'
    <3>1. Pass
      BY <1>12 DEF SendWaits, Sleep
    <3>2. tick' \in BOOLEAN
      BY <3>1 DEF Pass, FilterOK
    <3>. QED BY <3>1, <3>2 DEF Pass, FilterOK
  <2>. QED BY <1>12, <2>1, <2>2 DEF SendWaits, Sleep, node
<1>13. CASE SelectStop
  <2>1. NodeOK' /\ OrdersOK'
    BY <1>13 DEF SelectStop, NodeOK, OrdersOK, file
  <2>. QED BY <1>13, <2>1 DEF SelectStop
<1>14. CASE SelectTimer
  <2>1. NodeOK'
    BY <1>14 DEF SelectTimer, NodeOK, Swept, file
  <2>2. FilterOK'
    <3>1. tick' \in BOOLEAN /\ stale' \in BOOLEAN
      BY <1>14 DEF SelectTimer
    <3>. QED BY <1>14, <3>1 DEF SelectTimer, FilterOK
  <2>. QED BY <1>14, <2>1, <2>2 DEF SelectTimer
<1>15. CASE UNCHANGED vars
  BY <1>15 DEF vars
<1>. QED BY WriteType, <1>2, <1>3, <1>4, <1>5, <1>6, <1>7, <1>8, <1>9, <1>10, <1>11, <1>12,
            <1>13, <1>14, <1>15
         DEF Next, EnvStep, ScanStep, SelectStep

\* Every state of a node is well typed; in particular what it remembers and
\* mails are lines that were written.
THEOREM TypeCorrect == Spec => []TypeOK
BY TypeInit, TypeStep, TypeInvOK, PTL DEF Spec

-----------------------------------------------------------------------------
(* The filter.                                                             *)

\* The timer and the silence since it was set add up to its length; it leaves
\* its tick in C, where a tick is found early only if it was left over.
TimerInv ==
  /\ timer \in Nat /\ quiet \in Nat
  /\ timer + quiet = FilterSweeps
  /\ timer = 0 => tick
  /\ tick => timer = 0 \/ stale

LEMMA TimerInit == Init => TimerInv
BY Bounds DEF Init, TimerInv

\* What a step can do to the filter.
LEMMA FilterSteps ==
  ASSUME [Next]_vars
  PROVE  \/ UNCHANGED filter
         \/ pc = "found" /\ Suppressed /\ ResetTimer /\ UNCHANGED Msg
         \/ pc = "found" /\ ResetTimer /\ Msg' = Text
         \/ Pass
         \/ SelectTimer
<1>1. CASE EnvStep
  BY <1>1 DEF EnvStep, Write, Rotate, NextWindow, SendStop, SetNeedStop
<1>2. CASE ScanStep
  BY <1>2 DEF ScanStep, First, Second, Suppress, Report
<1>3. CASE Send \/ SendWaits \/ SecondFails \/ (\E k \in Keywords : FirstFails(k))
  BY <1>3 DEF Send, SendWaits, FirstFails, SecondFails
<1>4. CASE SelectStep
  BY <1>4 DEF SelectStep, SelectStop, Sleep
<1>5. CASE UNCHANGED vars
  BY <1>5 DEF vars, filter
<1>. QED BY <1>1, <1>2, <1>3, <1>4, <1>5 DEF Next

LEMMA TimerStep == TimerInv /\ [Next]_vars => TimerInv'
<1>. SUFFICES ASSUME TimerInv, [Next]_vars PROVE TimerInv'
  OBVIOUS
<1>. USE Bounds DEF TimerInv
<1>1. CASE UNCHANGED filter
  BY <1>1 DEF filter
<1>2. CASE ResetTimer
  BY <1>2 DEF ResetTimer
<1>3. CASE Pass
  <2>1. (tick' <=> tick \/ timer = 1) /\ UNCHANGED stale
    BY <1>3, Zenon DEF Pass
  <2>2. /\ timer' = IF timer > 0 THEN timer - 1 ELSE 0
        /\ quiet' = IF quiet < FilterSweeps THEN quiet + 1 ELSE quiet
    BY <1>3 DEF Pass
  <2>3. timer' \in Nat /\ quiet' \in Nat /\ timer' + quiet' = FilterSweeps
    BY <2>2
  <2>4. (timer' = 0 => tick') /\ (tick' => timer' = 0 \/ stale')
    BY <2>1, <2>2
  <2>. QED BY <2>3, <2>4
<1>4. CASE SelectTimer
  BY <1>4 DEF SelectTimer
<1>. QED BY <1>1, <1>2, <1>3, <1>4, FilterSteps

\* A node sleeps with a text in its filter for less than ten seconds after it
\* has seen the text.
THEOREM SuppressedBrieflyHolds == Spec => []SuppressedBriefly
<1>1. TimerInv => SuppressedBriefly
  BY Bounds DEF TimerInv, SuppressedBriefly, Asleep
<1>. QED BY <1>1, TimerInit, TimerStep, PTL DEF Spec

\* The filter forgets a text only after ten seconds without it, apart from a
\* tick that was left over and from lines with an empty text.
THEOREM ForgetsOnlyAfterQuietHolds == Spec => ForgetsOnlyAfterQuiet
<1>1. TimerInv /\ [Next]_vars
        => [Msg # Empty /\ Msg' = Empty =>
              quiet = FilterSweeps \/ stale \/ (pc = "found" /\ Text = Empty)]_vars
  <2>. SUFFICES ASSUME TimerInv, [Next]_vars, Msg # Empty, Msg' = Empty
                PROVE  quiet = FilterSweeps \/ stale \/ (pc = "found" /\ Text = Empty)
    OBVIOUS
  <2>1. CASE SelectTimer
    BY <2>1, ConstAssumption DEF SelectTimer, TimerInv
  <2>2. CASE UNCHANGED Msg
    BY <2>2
  <2>3. CASE pc = "found" /\ Msg' = Text
    BY <2>3
  <2>. QED BY <2>1, <2>2, <2>3, FilterSteps DEF filter, Pass
<1>. QED BY <1>1, TimerInit, TimerStep, PTL DEF Spec, ForgetsOnlyAfterQuiet

-----------------------------------------------------------------------------
(* NewsOnce.  lastMsgMap holds one line only, and the second command may   *)
(* put an older line there than the first one did.                         *)

\* Line l is still in the file, and has keyword k.
Holds(k, l) == first <= l /\ k \in lines[l].keys

\* The line that lastMsgMap holds keeps the commands from coming back to line l
\* that was news: either it is one of today, not before l if l is, or l and it
\* are only of this window, and it is not before l.
Guards(m, l) == \/ Today(m) /\ (Today(l) => l <= m)
                \/ ~Today(l) /\ Now(m) /\ l <= m

\* Whatever was news, is still in the file and still counts is guarded.
TakenInv ==
  \A k \in Keywords, l \in 1 .. Len(lines) : <<k, l>> \in taken =>
    /\ k \in lines[l].keys
    /\ Today(l) \/ Now(l)
    /\ first <= l => Holds(k, lastMsgMap[k]) /\ Guards(lastMsgMap[k], l)

\* The second command is tried only when no line of today is in the file.
SecondInv ==
  pc = "second" => \A l \in 1 .. Len(lines) :
    <<key, l>> \in taken /\ first <= l => ~Today(lastMsgMap[key])

NewsInv == TakenInv /\ SecondInv /\ ~repeated

LEMMA NewsInit == Init => NewsInv
BY DEF Init, NewsInv, TakenInv, SecondInv

\* Everything that is not a clock tick, a new line, a rotation or a line taken
\* up.
LEMMA NewsFrame ==
  ASSUME NewsInv, UNCHANGED <<file, clock, lastMsgMap, hist>>,
         pc' = "second" => UNCHANGED <<pc, key>>
  PROVE  NewsInv'
BY DEF NewsInv, TakenInv, SecondInv, Holds, Guards, Today, Now, file, clock, hist

\* The line that is found now was not news before, or is the one remembered.
LEMMA TakeNews ==
  ASSUME TypeInv, NewsInv, NEW k \in Keywords, NEW l \in 1 .. Len(lines), Take(k, l),
         UNCHANGED <<file, clock>>, Holds(k, l), Today(l) \/ Now(l),
         \A i \in 1 .. Len(lines) : <<k, i>> \in taken /\ first <= i => Guards(l, i),
         Guards(l, l), <<k, l>> \in taken => lastMsgMap[k] = l
  PROVE  NewsInv'
<1>. USE DEF NewsInv
<1>1. lastMsgMap' = [lastMsgMap EXCEPT ![k] = l] /\ lastMsgMap \in [Keywords -> 0 .. Len(lines)]
  BY DEF Take, TypeInv, NodeOK
<1>2. lastMsgMap'[k] = l /\ \A j \in Keywords \ {k} : lastMsgMap'[j] = lastMsgMap[j]
  BY <1>1
<1>3. \/ UNCHANGED hist
      \/ /\ taken' = taken \cup {<<k, l>>} /\ lastMsgMap[k] # l
         /\ repeated' <=> repeated \/ <<k, l>> \in taken
  BY DEF Take
<1>4. ~repeated' /\ taken' \subseteq taken \cup {<<k, l>>}
  BY <1>3 DEF hist
<1>5. pc' # "second"
  BY DEF Take, NextKey
<1>6. lines' = lines /\ first' = first /\ day' = day /\ window' = window
  BY DEF file, clock
<1>7. TakenInv'
  <2>1. ASSUME NEW j \in Keywords \ {k}, NEW i \in 1 .. Len(lines), <<j, i>> \in taken'
        PROVE  /\ j \in lines[i].keys /\ (Today(i) \/ Now(i))
               /\ first <= i => Holds(j, lastMsgMap'[j]) /\ Guards(lastMsgMap'[j], i)
    <3>1. <<j, i>> \in taken
      BY <1>4, <2>1
    <3>. QED BY <1>2, <3>1 DEF TakenInv
  <2>2. ASSUME NEW i \in 1 .. Len(lines), <<k, i>> \in taken'
        PROVE  /\ k \in lines[i].keys /\ (Today(i) \/ Now(i))
               /\ first <= i => Holds(k, lastMsgMap'[k]) /\ Guards(lastMsgMap'[k], i)
    <3>1. CASE i = l
      BY <1>2, <3>1 DEF Holds
    <3>2. CASE <<k, i>> \in taken
      BY <1>2, <3>2 DEF TakenInv
    <3>. QED BY <1>4, <2>2, <3>1, <3>2
  <2>. QED BY <1>6, <2>1, <2>2 DEF TakenInv, Holds, Guards, Today, Now
<1>. QED BY <1>4, <1>5, <1>7 DEF SecondInv

LEMMA FirstNews ==
  ASSUME TypeInv, NewsInv, NEW k \in Keywords, OfToday(k) # {}, Take(k, Max(OfToday(k))),
         UNCHANGED <<file, clock>>
  PROVE  NewsInv'
<1>. DEFINE l == Max(OfToday(k))
            m == lastMsgMap[k]
<1>1. /\ l \in OfToday(k) /\ \A i \in OfToday(k) : i <= l
      /\ l \in 1 .. Len(lines) /\ first <= l /\ k \in lines[l].keys
  BY FoundLine DEF TypeInv
<1>2. Today(l)
  BY <1>1 DEF OfToday
<1>3. Take(k, l)
  OBVIOUS
<1>. HIDE DEF l
<1>4. m \in 0 .. Len(lines) /\ first \in Nat /\ Len(lines) \in Nat
  BY DEF TypeInv, NodeOK, FileOK
<1>5. ASSUME NEW i \in 1 .. Len(lines), Holds(k, i), Today(i) PROVE i <= l
  <2>1. i \in OfToday(k)
    BY <1>4, <1>5 DEF OfToday, InFile, Holds
  <2>. QED BY <1>1, <2>1
<1>6. \A i \in 1 .. Len(lines) : <<k, i>> \in taken /\ first <= i => Guards(l, i)
  BY <1>2, <1>5 DEF NewsInv, TakenInv, Holds, Guards
<1>7. ASSUME <<k, l>> \in taken PROVE m = l
  <2>1. Holds(k, m) /\ Today(m) /\ l <= m
    BY <1>1, <1>2, <1>7 DEF NewsInv, TakenInv, Guards
  <2>2. m \in 1 .. Len(lines)
    BY <1>1, <1>4, <2>1
  <2>3. m <= l
    BY <1>5, <2>1, <2>2
  <2>. QED BY <1>1, <1>4, <2>1, <2>3
<1>8. Guards(l, l) /\ Holds(k, l)
  BY <1>1, <1>2 DEF Guards, Holds
<1>. QED BY <1>1, <1>2, <1>3, <1>6, <1>7, <1>8, TakeNews

LEMMA SecondNews ==
  ASSUME TypeInv, NewsInv, pc = "second", OfWindow(key) # {},
         Take(key, Max(OfWindow(key))), UNCHANGED <<file, clock>>
  PROVE  NewsInv'
<1>. DEFINE k == key
            l == Max(OfWindow(k))
            m == lastMsgMap[k]
<1>0. k \in Keywords
  BY DEF TypeInv, NodeOK
<1>1. /\ l \in OfWindow(k) /\ \A i \in OfWindow(k) : i <= l
      /\ l \in 1 .. Len(lines) /\ first <= l /\ k \in lines[l].keys
  BY <1>0, FoundLine DEF TypeInv
<1>2. Now(l)
  BY <1>1 DEF OfWindow
<1>3. Take(k, l)
  OBVIOUS
<1>. HIDE DEF l
<1>4. m \in 0 .. Len(lines) /\ first \in Nat /\ Len(lines) \in Nat
  BY <1>0 DEF TypeInv, NodeOK, FileOK
<1>5. ASSUME NEW i \in 1 .. Len(lines), Holds(k, i), Now(i) PROVE i <= l
  <2>1. i \in OfWindow(k)
    BY <1>4, <1>5 DEF OfWindow, InFile, Holds
  <2>. QED BY <1>1, <2>1
\* What was news and is still there is a line of this window only.
<1>6. ASSUME NEW i \in 1 .. Len(lines), <<k, i>> \in taken, first <= i
      PROVE  Holds(k, i) /\ ~Today(i) /\ Now(i) /\ Holds(k, m) /\ Now(m) /\ i <= m
  <2>1. ~Today(m)
    BY <1>6 DEF NewsInv, SecondInv
  <2>2. Holds(k, m) /\ Guards(m, i) /\ k \in lines[i].keys /\ (Today(i) \/ Now(i))
    BY <1>0, <1>6 DEF NewsInv, TakenInv
  <2>. QED BY <1>6, <2>1, <2>2 DEF Guards, Holds
<1>7. ASSUME NEW i \in 1 .. Len(lines), <<k, i>> \in taken, first <= i
      PROVE  Guards(l, i)
  BY <1>2, <1>5, <1>6, <1>7 DEF Guards
<1>8. ASSUME <<k, l>> \in taken PROVE m = l
  <2>1. Holds(k, m) /\ Now(m) /\ l <= m
    BY <1>1, <1>6, <1>8
  <2>2. m \in 1 .. Len(lines)
    BY <1>1, <1>4, <2>1
  <2>3. m <= l
    BY <1>5, <2>1, <2>2
  <2>. QED BY <1>1, <1>4, <2>1, <2>3
<1>9. Guards(l, l) /\ Holds(k, l)
  <2>1. l <= l
    BY <1>1
  <2>. QED BY <1>1, <1>2, <2>1 DEF Guards, Holds
<1>. QED BY <1>0, <1>1, <1>2, <1>3, <1>7, <1>8, <1>9, TakeNews

LEMMA WriteNews ==
  ASSUME TypeInv, NewsInv, NEW n \in Kinds, Write(n)
  PROVE  NewsInv'
<1>1. Len(lines) \in Nat /\ \E e : lines' = Append(lines, e)
  BY DEF Write, TypeInv, FileOK
<1>2. \A i \in 1 .. Len(lines) : lines'[i] = lines[i]
  BY <1>1
<1>3. UNCHANGED <<first, day, window, pc, key, lastMsgMap, taken, repeated>>
  BY DEF Write, node, clock, hist
<1>4. \A k \in Keywords : lastMsgMap[k] \in 0 .. Len(lines)
  BY DEF TypeInv, NodeOK
<1>5. \A k \in Keywords, l \in 1 .. Len(lines') : <<k, l>> \in taken => l \in 1 .. Len(lines)
  BY DEF TypeInv, HistOK
<1>6. first >= 1
  BY DEF TypeInv, FileOK
<1>7. TakenInv'
  <2>. SUFFICES ASSUME NEW k \in Keywords, NEW l \in 1 .. Len(lines), <<k, l>> \in taken
                PROVE  /\ k \in lines'[l].keys /\ (Today(l)' \/ Now(l)')
                       /\ first <= l => Holds(k, lastMsgMap[k])' /\ Guards(lastMsgMap[k], l)'
    BY <1>3, <1>5 DEF TakenInv
  <2>1. /\ k \in lines[l].keys /\ (Today(l) \/ Now(l))
        /\ first <= l => Holds(k, lastMsgMap[k]) /\ Guards(lastMsgMap[k], l)
    BY DEF NewsInv, TakenInv
  <2>2. ASSUME first <= l PROVE lines'[lastMsgMap[k]] = lines[lastMsgMap[k]]
    <3>1. lastMsgMap[k] \in 1 .. Len(lines)
      BY <1>1, <1>4, <1>6, <2>1, <2>2 DEF Holds, TypeInv, FileOK
    <3>. QED BY <1>2, <3>1
  <2>. QED BY <1>2, <1>3, <2>1, <2>2 DEF Holds, Guards, Today, Now
<1>8. SecondInv'
  <2>. SUFFICES ASSUME pc = "second", NEW l \in 1 .. Len(lines), <<key, l>> \in taken,
                       first <= l
                PROVE  ~Today(lastMsgMap[key])'
    <3>1. pc = "second" => key \in Keywords
      BY DEF TypeInv, NodeOK
    <3>. QED BY <1>3, <1>5, <3>1 DEF SecondInv
  <2>1. key \in Keywords
    BY DEF TypeInv, NodeOK
  <2>2. Holds(key, lastMsgMap[key]) /\ ~Today(lastMsgMap[key])
    BY <2>1 DEF NewsInv, TakenInv, SecondInv
  <2>3. lastMsgMap[key] \in 1 .. Len(lines)
    BY <1>1, <1>4, <1>6, <2>1, <2>2 DEF Holds, TypeInv, FileOK
  <2>. QED BY <1>2, <1>3, <2>2, <2>3 DEF Today
<1>. QED BY <1>3, <1>7, <1>8 DEF NewsInv

LEMMA ClockNews ==
  ASSUME TypeInv, NewsInv, NextWindow
  PROVE  NewsInv'
<1>1. UNCHANGED <<lines, first, pc, key, lastMsgMap, repeated>>
  BY DEF NextWindow, file, node
<1>2. CASE window < Windows
  <2>1. day' = day /\ taken' = {p \in taken : Today(p[2])}
    BY <1>2 DEF NextWindow
  <2>2. \A l : Today(l)' = Today(l)
    BY <1>1, <2>1 DEF Today
  <2>3. \A k, l : <<k, l>> \in taken' => <<k, l>> \in taken /\ Today(l)
    BY <2>1
  <2>4. TakenInv'
    BY <1>1, <2>2, <2>3 DEF NewsInv, TakenInv, Holds, Guards
  <2>5. SecondInv'
    BY <1>1, <2>2, <2>3 DEF NewsInv, SecondInv
  <2>. QED BY <1>1, <2>4, <2>5 DEF NewsInv
<1>3. CASE ~(window < Windows)
  <2>1. taken' = {}
    BY <1>3 DEF NextWindow
  <2>. QED BY <1>1, <2>1 DEF NewsInv, TakenInv, SecondInv
<1>. QED BY <1>2, <1>3

LEMMA RotateNews ==
  ASSUME TypeInv, NewsInv, Rotate
  PROVE  NewsInv'
<1>1. /\ UNCHANGED <<lines, day, window, pc, key, lastMsgMap, taken, repeated>>
      /\ first' = Len(lines) + 1 /\ Len(lines) \in Nat
  BY DEF Rotate, node, clock, hist, TypeInv, FileOK
<1>2. \A l \in 1 .. Len(lines) : ~(first' <= l)
  BY <1>1
<1>. QED BY <1>1, <1>2 DEF NewsInv, TakenInv, SecondInv, Today, Now

LEMMA NewsStep == TypeInv /\ NewsInv /\ [Next]_vars => NewsInv'
<1>. SUFFICES ASSUME TypeInv, NewsInv, [Next]_vars PROVE NewsInv'
  OBVIOUS
<1>1. CASE EnvStep
  <2>1. CASE SendStop \/ SetNeedStop
    BY <2>1, NewsFrame DEF SendStop, SetNeedStop, node
  <2>. QED BY <1>1, <2>1, WriteNews, RotateNews, ClockNews DEF EnvStep
<1>2. ASSUME NEW k \in Keywords, First(k) PROVE NewsInv'
  <2>1. CASE OfToday(k) = {} /\ pc' = "second" /\ key' = k /\ UNCHANGED <<line, lastMsgMap, hist>>
    <3>1. UNCHANGED <<file, clock, lastMsgMap, hist>>
      BY <1>2, <2>1 DEF First
    <3>2. ASSUME NEW l \in 1 .. Len(lines), <<k, l>> \in taken, first <= l
          PROVE  ~Today(lastMsgMap[k])
      <4>1. Holds(k, lastMsgMap[k])
        BY <3>2 DEF NewsInv, TakenInv
      <4>2. lastMsgMap[k] \in first .. Len(lines)
        BY <4>1 DEF Holds, TypeInv, NodeOK, FileOK
      <4>. QED BY <2>1, <4>1, <4>2 DEF OfToday, InFile, Holds
    <3>3. SecondInv'
      BY <2>1, <3>1, <3>2 DEF SecondInv, Today, file, clock, hist
    <3>. QED BY <3>1, <3>3 DEF NewsInv, TakenInv, Holds, Guards, Today, Now, file, clock, hist
  <2>. QED BY <1>2, <2>1, FirstNews DEF First
<1>3. CASE Second
  <2>1. CASE NextKey /\ UNCHANGED <<lastMsgMap, hist>>
    BY <1>3, <2>1, NewsFrame DEF Second, NextKey
  <2>. QED BY <1>3, <2>1, SecondNews DEF Second
<1>4. CASE Suppress \/ Report
  BY <1>4, NewsFrame DEF Suppress, Report, NextKey
<1>5. CASE Send \/ SendWaits \/ SecondFails
  BY <1>5, NewsFrame DEF Send, SendWaits, SecondFails, NextKey, node
<1>6. ASSUME NEW k \in Keywords, FirstFails(k) PROVE NewsInv'
  BY <1>6, NewsFrame DEF FirstFails
<1>7. CASE SelectStep
  BY <1>7, NewsFrame DEF SelectStep, SelectStop, SelectTimer, Sleep, Asleep, Swept
<1>8. CASE UNCHANGED vars
  BY <1>8, NewsFrame DEF vars, node
<1>. QED BY <1>1, <1>2, <1>3, <1>4, <1>5, <1>6, <1>7, <1>8 DEF Next, ScanStep

\* For a keyword, a line with today's date is news at most once a day and any
\* other line at most once in ten minutes, whatever is written or rotated away
\* between and within the two commands of a sweep.
THEOREM NewsOnceHolds == Spec => []NewsOnce
BY TypeInit, TypeStep, NewsInit, NewsStep, PTL DEF Spec, NewsInv, NewsOnce
=============================================================================
