------------------------------- MODULE LogScan -------------------------------
(***************************************************************************)
(* One node of the log monitor (src/src/alarmlog/alarmlog.go): the         *)
(* goroutine of doMonit_, which runs proModify over its keywords, looks at *)
(* its stop channel and at the timer of its repetition filter, and sleeps. *)
(* Module LogMonitor models which nodes there are; this one what a node    *)
(* does with the file it scans.                                            *)
(*                                                                         *)
(* A line is its number in the order of writing.  It has keywords, the     *)
(* text that follows its brackets, and the days and the ten-minute windows *)
(* of a day that grep takes it for: it carries the time and, in a dated    *)
(* log, the date it was written at, but grep looks for them anywhere in    *)
(* the line, and finds 12:3 in 10:12:35, too.  Time is counted in sleeps   *)
(* of the node (SweepTime seconds each).                                   *)
(***************************************************************************)
EXTENDS Integers, Sequences, FiniteSetsExt

CONSTANTS
  Keywords,       \* keys of lastMsgMap
  Empty,          \* the empty text, which is also what an empty filter holds
  Plain,          \* the text of a line without brackets
  Kinds,          \* the [keys, text, days, windows] of the lines the service
                  \* can write: windows are those its minute and second look
                  \* like, days and windows those its text happens to name
  NoKey,          \* between two keywords of a sweep
  FilterSweeps,   \* sleeps until the ten seconds of the filter are over
  Windows,        \* ten-minute stretches of a day (144)
  MaxWindows,     \* bound: ten-minute stretches that begin
  MaxLines,       \* bound: lines written
  MaxFaults       \* bound: commands that fail

ASSUME ConstAssumption ==
  /\ Keywords # {}
  /\ Plain # Empty
  /\ \A n \in Kinds : /\ n.keys \subseteq Keywords
                     /\ n.days \subseteq Nat /\ n.windows \subseteq 1 .. Windows
  /\ NoKey \notin Keywords
  /\ {FilterSweeps, Windows, MaxWindows} \subseteq Nat \ {0}
  /\ {MaxLines, MaxFaults} \subseteq Nat

VARIABLES
  lines, first,      \* all lines written; the first one still in the file
  dated,             \* the lines carry their date
  day, window,       \* the clock
  pc, todo,          \* the node, and the keywords its sweep has not come to
  key, line,         \* the keyword at hand and the line found for it
  lastMsgMap,        \* lastMsgMap[k]: a line, 0 for ""
  IslogNodeOk,
  stop,              \* the node's MsgCh: "empty", "sent" or "closed"
  IsNeedStop,        \* of the log monitor
  Msg,               \* logFilter.Msg
  timer, tick,       \* logFilter.Timer: sleeps left (0: fired), value in its C
  faults,
  taken, repeated,   \* history: the <<k, l>> that were news, on this day for
                     \* lines that show its date and in this window for
                     \* others; one was again
  quiet, stale       \* history: sleeps since the filter's timer was reset,
                     \* and whether a tick was pending at that time

file   == <<lines, first, dated>>
clock  == <<day, window>>
node   == <<pc, todo, key, line, lastMsgMap, IslogNodeOk>>
orders == <<stop, IsNeedStop>>
filter == <<Msg, timer, tick, quiet, stale>>
hist   == <<taken, repeated>>
vars   == <<file, clock, node, orders, filter, faults, hist>>

Init ==
  /\ lines = <<>> /\ first = 1
  /\ dated \in BOOLEAN
  /\ day = 1 /\ window = 1
  /\ pc = "scan" /\ todo = Keywords
  /\ key = NoKey /\ line = 0
  /\ lastMsgMap = [k \in Keywords |-> 0]
  /\ IslogNodeOk = TRUE
  /\ stop = "empty" /\ IsNeedStop = FALSE
  /\ Msg = Empty /\ timer = FilterSweeps /\ tick = FALSE
  /\ faults = 0
  /\ taken = {} /\ repeated = FALSE
  /\ quiet = 0 /\ stale = FALSE

-----------------------------------------------------------------------------
(* The environment: the service that writes the log, whatever rotates it,  *)
(* the clock, the rest of the log monitor, the alarm centre.               *)

Write(n) ==
  /\ Len(lines) < MaxLines
  /\ lines' = Append(lines, [keys |-> n.keys, text |-> n.text,
                             days |-> n.days \cup (IF dated THEN {day} ELSE {}),
                             windows |-> n.windows \cup {window}])
  /\ UNCHANGED <<first, dated, clock, node, orders, filter, faults, hist>>

Rotate ==
  /\ first' = Len(lines) + 1
  /\ UNCHANGED <<lines, dated, clock, node, orders, filter, faults, hist>>

\* The lines that today's date occurs in, and those that grep takes for lines
\* of these ten minutes.
Today(l) == day \in lines[l].days
Now(l) == window \in lines[l].windows

NextWindow ==
  /\ (day - 1) * Windows + window < MaxWindows
  /\ IF window < Windows
     THEN /\ window' = window + 1 /\ UNCHANGED day
          /\ taken' = {p \in taken : Today(p[2])}
     ELSE window' = 1 /\ day' = day + 1 /\ taken' = {}
  /\ UNCHANGED <<file, node, orders, filter, faults, repeated>>

\* StartMonit or StopMonit drops the node; only once, as LogMonitor shows.
SendStop ==
  /\ stop = "empty"
  /\ stop' = "sent"
  /\ UNCHANGED <<file, clock, node, IsNeedStop, filter, faults, hist>>

SetNeedStop ==
  /\ IsNeedStop' = TRUE
  /\ UNCHANGED <<file, clock, node, stop, filter, faults, hist>>

-----------------------------------------------------------------------------
(* The timer of the filter.                                                *)

\* One sleep's worth of time.  A timer that fires puts one value in its C.
Pass ==
  /\ timer' = IF timer > 0 THEN timer - 1 ELSE 0
  /\ tick' = (tick \/ timer = 1)
  /\ quiet' = IF quiet < FilterSweeps THEN quiet + 1 ELSE quiet
  /\ UNCHANGED <<Msg, stale>>

\* Timer.Reset leaves a value that is already in C where it is.
ResetTimer ==
  /\ timer' = FilterSweeps
  /\ quiet' = 0
  /\ stale' = tick
  /\ UNCHANGED tick

-----------------------------------------------------------------------------
(* proModify: for each keyword, in any order, a command that greps the file*)
(* for the keyword and today's date and, when that finds nothing, one that *)
(* greps for the keyword and the hour with the first digit of the minute.  *)

InFile(k) == {l \in first .. Len(lines) : k \in lines[l].keys}
OfToday(k) == {l \in InFile(k) : Today(l)}
OfWindow(k) == {l \in InFile(k) : Now(l)}

NextKey ==
  /\ pc' = "scan"
  /\ key' = NoKey /\ line' = 0

\* mutant: only the baseline is stored, not the lines that follow it
Take_Baseline(k, l) ==
  /\ lastMsgMap' = [lastMsgMap EXCEPT ![k] = IF @ = 0 THEN l ELSE @]
  /\ IF lastMsgMap[k] \in {0, l}
     THEN NextKey /\ UNCHANGED hist
     ELSE /\ pc' = "found" /\ key' = k /\ line' = l
          /\ taken' = taken \cup {<<k, l>>}
          /\ repeated' = (repeated \/ <<k, l>> \in taken)

\* A command has found line l.  The first line found for a keyword only sets
\* the baseline, any other one is news and goes to parseLog.
Take(k, l) ==
  /\ lastMsgMap' = [lastMsgMap EXCEPT ![k] = l]
  /\ IF lastMsgMap[k] \in {0, l}
     THEN NextKey /\ UNCHANGED hist
     ELSE /\ pc' = "found" /\ key' = k /\ line' = l
          /\ taken' = taken \cup {<<k, l>>}
          /\ repeated' = (repeated \/ <<k, l>> \in taken)

\* mutant: the second command is not tried
First_Only(k) ==
  /\ pc = "scan" /\ k \in todo
  /\ todo' = todo \ {k}
  /\ \/ OfToday(k) # {} /\ Take(k, Max(OfToday(k)))
     \/ OfToday(k) = {} /\ NextKey /\ UNCHANGED <<lastMsgMap, hist>>
  /\ UNCHANGED <<file, clock, IslogNodeOk, orders, filter, faults>>

First(k) ==
  /\ pc = "scan" /\ k \in todo
  /\ todo' = todo \ {k}
  /\ \/ OfToday(k) # {} /\ Take(k, Max(OfToday(k)))
     \/ /\ OfToday(k) = {}
        /\ pc' = "second" /\ key' = k
        /\ UNCHANGED <<line, lastMsgMap, hist>>
  /\ UNCHANGED <<file, clock, IslogNodeOk, orders, filter, faults>>

\* A failing first command ends the node.
FirstFails(k) ==
  /\ pc = "scan" /\ k \in todo
  /\ faults < MaxFaults
  /\ faults' = faults + 1
  /\ IslogNodeOk' = FALSE
  /\ pc' = "ended"
  /\ UNCHANGED <<file, clock, todo, key, line, lastMsgMap, orders, filter, hist>>

Second ==
  /\ pc = "second"
  /\ \/ OfWindow(key) # {} /\ Take(key, Max(OfWindow(key)))
     \/ OfWindow(key) = {} /\ NextKey /\ UNCHANGED <<lastMsgMap, hist>>
  /\ UNCHANGED <<file, clock, todo, IslogNodeOk, orders, filter, faults>>

\* A failing second command clears IslogNodeOk too, but proModify returns the
\* err of the first: the sweep is over and the node goes on.
SecondFails ==
  /\ pc = "second"
  /\ faults < MaxFaults
  /\ faults' = faults + 1
  /\ IslogNodeOk' = FALSE
  /\ NextKey /\ todo' = {}
  /\ UNCHANGED <<file, clock, lastMsgMap, orders, filter, hist>>

-----------------------------------------------------------------------------
(* parseLog.                                                               *)

Text == lines[line].text
Suppressed == Text # Plain /\ Text = Msg

\* mutant: a suppressed line does not prolong the filter
Suppress_NoReset ==
  /\ pc = "found" /\ Suppressed
  /\ quiet' = 0 /\ stale' = tick
  /\ NextKey
  /\ UNCHANGED <<file, clock, todo, lastMsgMap, IslogNodeOk, orders, Msg, timer,
                 tick, faults, hist>>

\* A line with the text that the filter holds.
Suppress ==
  /\ pc = "found" /\ Suppressed
  /\ ResetTimer /\ UNCHANGED Msg
  /\ NextKey
  /\ UNCHANGED <<file, clock, todo, lastMsgMap, IslogNodeOk, orders,
                 faults, hist>>

\* mutant: the filter also takes a line without brackets
Report_AnyLine ==
  /\ pc = "found" /\ ~Suppressed
  /\ Msg' = Text /\ ResetTimer
  /\ (pc' = "send" /\ UNCHANGED <<key, line>>) \/ NextKey
  /\ UNCHANGED <<file, clock, todo, lastMsgMap, IslogNodeOk, orders, faults, hist>>

\* Any other line, up to the send, which is left out while the alarm centre
\* has its IsRunOk FALSE.
Report ==
  /\ pc = "found" /\ ~Suppressed
  /\ IF Text = Plain THEN UNCHANGED filter ELSE Msg' = Text /\ ResetTimer
  /\ (pc' = "send" /\ UNCHANGED <<key, line>>) \/ NextKey
  /\ UNCHANGED <<file, clock, todo, lastMsgMap, IslogNodeOk, orders,
                 faults, hist>>

\* MsgCh is full or not: that is up to the centre and to the other monitors.
Send ==
  /\ pc = "send"
  /\ NextKey
  /\ UNCHANGED <<file, clock, todo, lastMsgMap, IslogNodeOk, orders, filter, faults, hist>>

SendWaits ==
  /\ pc = "send"
  /\ Pass
  /\ UNCHANGED <<file, clock, node, orders, faults, hist>>

-----------------------------------------------------------------------------
(* The select of doMonit_, after a sweep.                                  *)

Swept == pc = "scan" /\ todo = {}
Asleep == Swept /\ stop # "sent" /\ ~tick

\* mutant: the stop message is taken and forgotten
SelectStop_Goes ==
  /\ Swept /\ stop = "sent"
  /\ stop' = "closed"
  /\ todo' = Keywords
  /\ UNCHANGED <<file, clock, pc, key, line, lastMsgMap, IslogNodeOk, IsNeedStop,
                 filter, faults, hist>>

SelectStop ==
  /\ Swept /\ stop = "sent"
  /\ stop' = "closed"
  /\ pc' = "ended"
  /\ UNCHANGED <<file, clock, todo, key, line, lastMsgMap, IslogNodeOk, IsNeedStop,
                 filter, faults, hist>>

\* mutant: the timer is set again, but the filter is not cleared
SelectTimer_KeepsMsg ==
  /\ Swept /\ tick
  /\ tick' = FALSE
  /\ timer' = FilterSweeps
  /\ todo' = Keywords
  /\ UNCHANGED <<file, clock, pc, key, line, lastMsgMap, IslogNodeOk, orders,
                 Msg, quiet, stale, faults, hist>>

SelectTimer ==
  /\ Swept /\ tick
  /\ tick' = FALSE
  /\ timer' = FilterSweeps
  /\ Msg' = Empty
  /\ quiet' = 0 /\ stale' = FALSE
  /\ todo' = Keywords
  /\ UNCHANGED <<file, clock, pc, key, line, lastMsgMap, IslogNodeOk, orders, faults, hist>>

\* The default case, when neither of the others can be taken: a sleep, then
\* the test of IsNeedStop.  What arrives during the sleep finds the node as it
\* is right after it.
Sleep ==
  /\ Asleep
  /\ Pass
  /\ pc' = IF IsNeedStop THEN "ended" ELSE "scan"
  /\ todo' = Keywords
  /\ UNCHANGED <<file, clock, key, line, lastMsgMap, IslogNodeOk, orders,
                 faults, hist>>

-----------------------------------------------------------------------------
\* What happens around a node that has ended is of no interest here.
EnvStep ==
  /\ pc # "ended"
  /\ \/ \E n \in Kinds : Write(n)
     \/ Rotate \/ NextWindow \/ SendStop \/ SetNeedStop

ScanStep == (\E k \in Keywords : First(k)) \/ Second \/ Suppress \/ Report
SelectStep == SelectStop \/ SelectTimer \/ Sleep

Next ==
  \/ EnvStep
  \/ ScanStep \/ Send \/ SelectStep
  \/ (\E k \in Keywords : FirstFails(k)) \/ SecondFails \/ SendWaits

Spec == Init /\ [][Next]_vars

\* The node's goroutine goes on whenever it can, except that a send may take
\* for ever; lines, rotations, the clock, stops and failures just happen.
Fairness == WF_vars(ScanStep \/ SelectStep)

FairSpec == Spec /\ Fairness

-----------------------------------------------------------------------------
(* Properties.                                                             *)

TypeOK ==
  /\ lines \in Seq([keys : SUBSET Keywords, text : {n.text : n \in Kinds},
                    days : SUBSET Nat, windows : SUBSET (1 .. Windows)])
  /\ first \in 1 .. Len(lines) + 1
  /\ dated \in BOOLEAN /\ day \in 1 .. MaxWindows /\ window \in 1 .. Windows
  /\ pc \in {"scan", "second", "found", "send", "ended"}
  /\ todo \subseteq Keywords /\ key \in Keywords \cup {NoKey}
  /\ line \in 0 .. Len(lines)
  /\ lastMsgMap \in [Keywords -> 0 .. Len(lines)]
  /\ IslogNodeOk \in BOOLEAN /\ IsNeedStop \in BOOLEAN
  /\ stop \in {"empty", "sent", "closed"}
  /\ Msg \in ({n.text : n \in Kinds} \ {Plain}) \cup {Empty}
  /\ timer \in 0 .. FilterSweeps /\ tick \in BOOLEAN
  /\ quiet \in 0 .. FilterSweeps /\ stale \in BOOLEAN
  /\ faults \in 0 .. MaxFaults
  /\ taken \subseteq Keywords \X (1 .. Len(lines)) /\ repeated \in BOOLEAN

\* Nothing is news twice: a line with today's date in it goes to parseLog once
\* a day for a keyword, and any other line once in ten minutes, although the
\* node remembers one line only, the file is rotated, and the second command
\* finds lines of other hours and of earlier days again.
NewsOnce == ~repeated

\* The filter suppresses briefly: a node that goes to sleep with a message in
\* its filter has seen that message within the last ten seconds, however long
\* the alarm centre kept it waiting.
SuppressedBriefly == Asleep /\ Msg # Empty => quiet < FilterSweeps

\* The filter does not forget early: it is cleared only when its message has
\* not been seen for ten seconds, or when the timer had already fired before
\* the message was seen last and its tick was still waiting in C, or when a
\* line that ends with its bracket has put its empty text there.
ForgetsOnlyAfterQuiet ==
  [][Msg # Empty /\ Msg' = Empty =>
       quiet = FilterSweeps \/ stale \/ (pc = "found" /\ Text = Empty)]_vars

\* What the two commands find for keyword k now.
Visible(k) == IF OfToday(k) # {} THEN Max(OfToday(k))
              ELSE IF OfWindow(k) # {} THEN Max(OfWindow(k)) ELSE 0

\* While the node lives and no send takes for ever, the line that the commands
\* show last for a keyword is found in the end, whatever was written, rotated
\* away or suppressed before, and although a failing second command cuts sweeps
\* short.
CatchesUp ==
  <>[](pc # "ended") /\ []<>(pc # "send") =>
    <>[](\A k \in Keywords : Visible(k) \in {0, lastMsgMap[k]})

\* A node that is told to stop, in either way, ends, unless a send takes for
\* ever.
StopEnds == []<>(pc # "send") => ((stop = "sent" \/ IsNeedStop) ~> (pc = "ended"))
=============================================================================
