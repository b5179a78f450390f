---------------------------- MODULE ProcMonitor ----------------------------
(***************************************************************************)
(* The process-restart monitor (src/src/alarmpro/alarmpro.go): goroutines  *)
(* executing StartMonit and doMonit, which watch monit's log file; one     *)
(* proModify goroutine per accepted change, which looks for a new restart  *)
(* line and mails it; and the main goroutine, which reloads the            *)
(* configuration (InitConf) and restarts the monitor whenever IsRunOk is   *)
(* FALSE (src/src/ucserv/ucserv.go).                                       *)
(*                                                                         *)
(* Restart lines, the lines with monitKeyWord in them, are numbered in the *)
(* order monit writes them; every configuration names the same keyword.    *)
(* proModify only sees the lines that also contain GetMonth_str(), the     *)
(* first two letters of the month: those of March in May.  The environment *)
(* is monit, whatever rotates its log, the calendar, and the inotify       *)
(* instance behind self.watcher.                                           *)
(***************************************************************************)
EXTENDS Naturals, Sequences

CONSTANTS
  Files, NoFile,   \* paths of log files; NoFile is the empty path
  NewPaths,        \* what a reload may configure as monitLogPath
  Runs,            \* goroutines available to execute StartMonit
  Checks,          \* goroutines available to execute proModify
  FirstMonth,      \* the month the program starts in, January being 1
  LastMonth,       \* bound: the last month it sees; 13 is the next January
  Strays,          \* month strings a line may contain that are not its month's
  MaxLines,        \* bound: restart lines written
  MaxReloads,      \* bound: reloads
  MaxFaults,       \* bound: rotations, watcher errors and failing commands
  MaxEvents,       \* bound: undelivered modify events; inotify merges the rest
  MaxMails,        \* bound: mails about a line and a month that are counted
  MaxWatchers,     \* inotify instances the kernel grants the process
  SerialChecks     \* TRUE: no check reads the file while another one is
                   \* between reading it and comparing what it has read

ASSUME ConstAssumption ==
  /\ NoFile \notin Files
  /\ NewPaths \subseteq Files \cup {NoFile}
  /\ FirstMonth \in Nat \ {0} /\ LastMonth \in Nat /\ FirstMonth <= LastMonth
  /\ {MaxLines, MaxReloads, MaxFaults, MaxMails} \subseteq Nat
  /\ MaxEvents \in Nat \ {0} /\ MaxWatchers \in Nat \ {0}
  /\ SerialChecks \in BOOLEAN

VARIABLES
  IsRunOk, IsconfigOk, IsNeedStop, IsNeedToChk,   \* the flags of monitor
  path,            \* monitLogPath
  last,            \* lastAlarmData: a line, 0 for ""
  pc,              \* the runs of StartMonit
  watch, events,   \* self.watcher: the file it is attached to, its Event channel
  open,            \* inotify instances created and not released
  cpc, snap, src,  \* the checks: where they are, the line read and from where
  asOf,            \* history: the month each check asked the file for
  main, newPath,   \* the main goroutine, the path it is loading
  present, content,\* the files that exist and the restart lines in each
  written, marks,  \* restart lines written so far, month strings in each
  month,
  mails,           \* history: mails about a line by the month they were asked
                   \* for, counted up to MaxMails
  reloads, faults

flags == <<IsRunOk, IsconfigOk, IsNeedStop, IsNeedToChk>>
monit == <<watch, events, open>>
check == <<cpc, snap, src, asOf, last, mails>>
disk  == <<present, content, written, marks, month>>
super == <<main, newPath, path, reloads>>
vars  == <<flags, pc, monit, check, disk, super, faults>>

Lines == 1 .. MaxLines
Months == FirstMonth .. LastMonth
Paths == Files \cup {NoFile}
RunPcs == {"idle", "start", "armed", "watch", "loop", "failing"}
CheckPcs == {"idle", "rlock", "read", "compare", "relock", "parse"}
MainPcs == {"poll", "lock", "path", "check", "stop", "stopped", "rearmed"}

\* The checks that hold _mutex_3.RLock (those in "parse" hold it twice).
Readers == {c \in Checks : cpc[c] \in {"read", "compare", "relock", "parse"}}

\* Lock has been called or granted, which keeps new readers out.
WriterAhead == main \in {"lock", "path", "check", "stop"}

\* GetMonth_str: the first two letters of the month's English name.
MonthStr(m) ==
  <<"Ja", "Fe", "Ma", "Ap", "Ma", "Ju", "Ju", "Au", "Se", "Oc", "No", "De">>
    [((m - 1) % 12) + 1]
MonthStrs == {MonthStr(m) : m \in Months} \cup Strays

\* The state after the first InitConfig, as StartServer starts the monitor.
Init ==
  /\ present \in SUBSET Files
  /\ path \in NewPaths
  /\ newPath = path
  /\ IsconfigOk = (path \in present)
  /\ IsRunOk = TRUE /\ IsNeedStop = TRUE /\ IsNeedToChk = FALSE
  /\ last = 0
  /\ \E r \in Runs : pc = [s \in Runs |-> IF s = r THEN "start" ELSE "idle"]
  /\ watch = NoFile /\ events = <<>> /\ open = 0
  /\ cpc = [c \in Checks |-> "idle"]
  /\ snap = [c \in Checks |-> 0]
  /\ src = [c \in Checks |-> NoFile]
  /\ asOf = [c \in Checks |-> FirstMonth]
  /\ main = "poll"
  /\ content = [f \in Files |-> {}]
  /\ written = 0
  /\ marks = [n \in Lines |-> {}]
  /\ month = FirstMonth
  /\ mails = [k \in Lines \X Months |-> 0]
  /\ reloads = 0 /\ faults = 0

-----------------------------------------------------------------------------
(* The environment.                                                        *)

\* A change of file f reaches the watcher attached to it.
Notify(f) ==
  events' = IF watch = f /\ Len(events) < MaxEvents
            THEN Append(events, "modify") ELSE events

\* monit begins a line with the date; the strings grep looks for may also occur
\* in the rest of it, a process name for example.
WriteLine(f) ==
  /\ f \in present
  /\ written < MaxLines
  /\ written' = written + 1
  /\ content' = [content EXCEPT ![f] = @ \cup {written + 1}]
  /\ \E S \in SUBSET Strays :
       marks' = [marks EXCEPT ![written + 1] = S \cup {MonthStr(month)}]
  /\ Notify(f)
  /\ UNCHANGED <<flags, pc, watch, open, check, present, month, super, faults>>

\* Any other line, or a change of the file's attributes.
WriteOther(f) ==
  /\ f \in present
  /\ Notify(f)
  /\ UNCHANGED <<flags, pc, watch, open, check, disk, super, faults>>

\* Modify events still on their way may be dropped: fsnotify ignores those of
\* a file that is gone.
Rotate(f) ==
  /\ f \in present
  /\ faults < MaxFaults
  /\ faults' = faults + 1
  /\ present' = present \ {f}
  /\ content' = [content EXCEPT ![f] = {}]
  /\ watch' = IF watch = f THEN NoFile ELSE watch
  /\ \/ watch # f /\ UNCHANGED events
     \/ watch = f /\ \E kept \in {<<>>, events} : events' = Append(kept, "gone")
  /\ UNCHANGED <<flags, pc, open, check, written, marks, month, super>>

Create(f) ==
  /\ f \notin present
  /\ present' = present \cup {f}
  /\ UNCHANGED <<flags, pc, monit, check, content, written, marks, month, super,
                 faults>>

NewMonth ==
  /\ month < LastMonth
  /\ month' = month + 1
  /\ UNCHANGED <<flags, pc, monit, check, present, content, written, marks,
                 super, faults>>

-----------------------------------------------------------------------------
(* StartMonit and doMonit, executed by run r.                              *)

StartCheck(r) ==
  /\ pc[r] = "start"
  /\ pc' = [pc EXCEPT ![r] = IF IsconfigOk THEN "armed" ELSE "failing"]
  /\ UNCHANGED <<flags, monit, check, disk, super, faults>>

\* mutant: a monitor that starts again forgets lastAlarmData
StartArm_ForgetsLast(r) ==
  /\ pc[r] = "armed"
  /\ IsNeedStop' = FALSE
  /\ last' = 0
  /\ pc' = [pc EXCEPT ![r] = "watch"]
  /\ UNCHANGED <<IsRunOk, IsconfigOk, IsNeedToChk, monit, cpc, snap, src, asOf,
                 mails, disk, super, faults>>

StartArm(r) ==
  /\ pc[r] = "armed"
  /\ IsNeedStop' = FALSE
  /\ pc' = [pc EXCEPT ![r] = "watch"]
  /\ UNCHANGED <<IsRunOk, IsconfigOk, IsNeedToChk, monit, check, disk, super,
                 faults>>

\* mutant: the error of NewWatcher is not looked at
StartWatch_NoCheck(r) ==
  /\ pc[r] = "watch"
  /\ open' = open + 1
  /\ events' = <<>>
  /\ watch' = IF path \in present THEN path ELSE NoFile
  /\ pc' = [pc EXCEPT ![r] = IF path \in present THEN "loop" ELSE "failing"]
  /\ UNCHANGED <<flags, check, disk, super, faults>>

\* NewWatcher and Watch.  Nobody closes the watcher of a failing Watch.
StartWatch(r) ==
  /\ pc[r] = "watch"
  /\ IF open = MaxWatchers
     THEN /\ pc' = [pc EXCEPT ![r] = "failing"]
          /\ UNCHANGED monit
     ELSE /\ open' = open + 1
          /\ events' = <<>>
          /\ watch' = IF path \in present THEN path ELSE NoFile
          /\ pc' = [pc EXCEPT ![r] = IF path \in present THEN "loop" ELSE "failing"]
  /\ UNCHANGED <<flags, check, disk, super, faults>>

\* A modify event starts a check unless one was started since the last tick.
HandleModify(r) ==
  /\ pc[r] = "loop"
  /\ events # <<>> /\ Head(events) = "modify"
  /\ events' = Tail(events)
  /\ IsNeedToChk' = FALSE
  /\ \/ ~IsNeedToChk /\ UNCHANGED cpc
     \/ /\ IsNeedToChk
        /\ \E c \in Checks : /\ cpc[c] = "idle"
                             /\ cpc' = [cpc EXCEPT ![c] = "rlock"]
  /\ UNCHANGED <<IsRunOk, IsconfigOk, IsNeedStop, pc, watch, open, snap, src,
                 asOf, last, mails, disk, super, faults>>

\* mutant: a rename is reported, but the loop goes on
HandleGone_NoReturn(r) ==
  /\ pc[r] = "loop"
  /\ events # <<>> /\ Head(events) = "gone"
  /\ events' = Tail(events)
  /\ IsRunOk' = FALSE
  /\ UNCHANGED <<IsconfigOk, IsNeedStop, IsNeedToChk, pc, watch, open, check,
                 disk, super, faults>>

\* A rename or a deletion ends the run.  Its watcher is abandoned unclosed.
HandleGone(r) ==
  /\ pc[r] = "loop"
  /\ events # <<>> /\ Head(events) = "gone"
  /\ pc' = [pc EXCEPT ![r] = "failing"]
  /\ watch' = NoFile /\ events' = <<>>
  /\ UNCHANGED <<flags, open, check, disk, super, faults>>

\* So does an error from the watcher.
HandleError(r) ==
  /\ pc[r] = "loop"
  /\ faults < MaxFaults
  /\ faults' = faults + 1
  /\ pc' = [pc EXCEPT ![r] = "failing"]
  /\ watch' = NoFile /\ events' = <<>>
  /\ UNCHANGED <<flags, open, check, disk, super>>

\* The 200 ms timer.  watcher.Close releases the instance only when fsnotify's
\* reader gets to see the quit message: it may be blocked on an event that
\* nobody receives any more, or in read(2).
TimerStop(r) ==
  /\ pc[r] = "loop"
  /\ IsNeedStop
  /\ pc' = [pc EXCEPT ![r] = "failing"]
  /\ watch' = NoFile /\ events' = <<>>
  /\ open' \in {open - 1, open}
  /\ UNCHANGED <<flags, check, disk, super, faults>>

\* mutant: the timer does not reopen the window for checks
TimerArm_Forgets(r) ==
  /\ pc[r] = "loop"
  /\ ~IsNeedStop /\ ~IsNeedToChk
  /\ UNCHANGED vars

TimerArm(r) ==
  /\ pc[r] = "loop"
  /\ ~IsNeedStop /\ ~IsNeedToChk
  /\ IsNeedToChk' = TRUE
  /\ UNCHANGED <<IsRunOk, IsconfigOk, IsNeedStop, pc, monit, check, disk,
                 super, faults>>

\* mutant: a run that ends leaves IsRunOk set
GiveUp_KeepsFlag(r) ==
  /\ pc[r] = "failing"
  /\ pc' = [pc EXCEPT ![r] = "idle"]
  /\ UNCHANGED <<flags, monit, check, disk, super, faults>>

GiveUp(r) ==
  /\ pc[r] = "failing"
  /\ pc' = [pc EXCEPT ![r] = "idle"]
  /\ IsRunOk' = FALSE
  /\ UNCHANGED <<IsconfigOk, IsNeedStop, IsNeedToChk, monit, check, disk,
                 super, faults>>

-----------------------------------------------------------------------------
(* proModify and proParse, executed by check c.                            *)

Goto(c, from, to) ==
  /\ cpc[c] = from
  /\ cpc' = [cpc EXCEPT ![c] = to]

\* A goroutine that ends takes its local variables with it.
Leave(c) ==
  /\ snap' = [snap EXCEPT ![c] = 0]
  /\ src' = [src EXCEPT ![c] = NoFile]
  /\ asOf' = [asOf EXCEPT ![c] = FirstMonth]

CheckLock(c) ==
  /\ Goto(c, "rlock", "read")
  /\ ~WriterAhead
  /\ UNCHANGED <<flags, pc, monit, snap, src, asOf, last, mails, disk, super, faults>>

\* What cat monitLogPath | grep monitKeyWord | grep GetMonth_str() finds.
Found == IF path \in present
         THEN {n \in content[path] : MonthStr(month) \in marks[n]} ELSE {}

\* Of the lines found, the last one.
Newest(S) == {n \in S : \A k \in S : k <= n}

CheckRead(c) ==
  /\ SerialChecks => \A d \in Checks : cpc[d] # "compare"
  /\ \/ /\ Goto(c, "read", "compare")
        /\ \E n \in Newest(Found) : snap' = [snap EXCEPT ![c] = n]
        /\ src' = [src EXCEPT ![c] = path]
        /\ asOf' = [asOf EXCEPT ![c] = month]
     \/ /\ Found = {}
        /\ Goto(c, "read", "idle")
        /\ UNCHANGED <<snap, src, asOf>>
  /\ UNCHANGED <<flags, pc, monit, last, mails, disk, super, faults>>

CheckReadFails(c) ==
  /\ Goto(c, "read", "idle")
  /\ faults < MaxFaults
  /\ faults' = faults + 1
  /\ UNCHANGED <<flags, pc, monit, snap, src, asOf, last, mails, disk, super>>

\* mutant: lastAlarmData is written only the first time
CheckCompare_KeepsLast(c) ==
  /\ Goto(c, "compare", IF last \in {0, snap[c]} THEN "idle" ELSE "relock")
  /\ last' = IF last = 0 THEN snap[c] ELSE last
  /\ UNCHANGED <<flags, pc, monit, snap, src, asOf, mails, disk, super, faults>>

\* mutant: the early return of proModify keeps the read lock
CheckCompare_KeepsLock(c) ==
  /\ Goto(c, "compare", IF last \in {0, snap[c]} THEN "compare" ELSE "relock")
  /\ last' = snap[c]
  /\ UNCHANGED <<flags, pc, monit, snap, src, asOf, mails, disk, super, faults>>

\* Under _mutex_1.  The very first line only sets the baseline.
CheckCompare(c) ==
  /\ \/ /\ last \in {0, snap[c]}
        /\ Goto(c, "compare", "idle")
        /\ Leave(c)
     \/ /\ last \notin {0, snap[c]}
        /\ Goto(c, "compare", "relock")
        /\ UNCHANGED <<snap, src, asOf>>
  /\ last' = snap[c]
  /\ UNCHANGED <<flags, pc, monit, mails, disk, super, faults>>

\* proParse locks _mutex_3 for reading again, which waits for a writer that
\* waits for this very check.
CheckRelock(c) ==
  /\ Goto(c, "relock", "parse")
  /\ ~WriterAhead
  /\ UNCHANGED <<flags, pc, monit, snap, src, asOf, last, mails, disk, super, faults>>

\* Up to 30 s later: a mail, or none (unknown or exempted process, failing
\* command, alarm centre down).
CheckMail(c) ==
  /\ Goto(c, "parse", "idle")
  /\ \/ UNCHANGED mails
     \/ mails' = [mails EXCEPT ![<<snap[c], asOf[c]>>] = IF @ < MaxMails
                                                     THEN @ + 1 ELSE @]
  /\ Leave(c)
  /\ UNCHANGED <<flags, pc, monit, last, disk, super, faults>>

-----------------------------------------------------------------------------
(* InitConf, called by the main goroutine for SIGUSR1.                     *)

Reload(p) ==
  /\ main = "poll"
  /\ reloads < MaxReloads
  /\ reloads' = reloads + 1
  /\ newPath' = p
  /\ main' = "lock"
  /\ UNCHANGED <<flags, pc, monit, check, disk, path, faults>>

\* mutant: InitConf writes without waiting for the readers
InitLock_NoWait ==
  /\ main = "lock"
  /\ path' = NoFile
  /\ main' = "path"
  /\ UNCHANGED <<flags, pc, monit, check, disk, newPath, reloads, faults>>

InitLock ==
  /\ main = "lock"
  /\ Readers = {}
  /\ path' = NoFile
  /\ main' = "path"
  /\ UNCHANGED <<flags, pc, monit, check, disk, newPath, reloads, faults>>

InitPath ==
  /\ main = "path"
  /\ path' = newPath
  /\ main' = "check"
  /\ UNCHANGED <<flags, pc, monit, check, disk, newPath, reloads, faults>>

InitCheck ==
  /\ main = "check"
  /\ IsconfigOk' = (path \in present)
  /\ main' = "stop"
  /\ UNCHANGED <<IsRunOk, IsNeedStop, IsNeedToChk, pc, monit, check, disk,
                 newPath, path, reloads, faults>>

\* mutant: a configuration the monitor cannot use does not stop it
InitStop_OnlyGood ==
  /\ main = "stop"
  /\ IsNeedStop' = (IsNeedStop \/ IsconfigOk)
  /\ main' = "poll"
  /\ UNCHANGED <<IsRunOk, IsconfigOk, IsNeedToChk, pc, monit, check, disk,
                 newPath, path, reloads, faults>>

InitStop ==
  /\ main = "stop"
  /\ IsNeedStop' = TRUE
  /\ main' = "poll"
  /\ UNCHANGED <<IsRunOk, IsconfigOk, IsNeedToChk, pc, monit, check, disk,
                 newPath, path, reloads, faults>>

-----------------------------------------------------------------------------
(* The loop of StartServer: StopMonit, three seconds, restart.             *)

Tick ==
  /\ main = "poll"
  /\ ~IsRunOk
  /\ IsNeedStop' = TRUE
  /\ main' = "stopped"
  /\ UNCHANGED <<IsRunOk, IsconfigOk, IsNeedToChk, pc, monit, check, disk,
                 newPath, path, reloads, faults>>

Rearm ==
  /\ main = "stopped"
  /\ IsRunOk' = TRUE
  /\ main' = "rearmed"
  /\ UNCHANGED <<IsconfigOk, IsNeedStop, IsNeedToChk, pc, monit, check, disk,
                 newPath, path, reloads, faults>>

Spawn(r) ==
  /\ main = "rearmed"
  /\ pc[r] = "idle"
  /\ pc' = [pc EXCEPT ![r] = "start"]
  /\ main' = "poll"
  /\ UNCHANGED <<flags, monit, check, disk, newPath, path, reloads, faults>>

-----------------------------------------------------------------------------
EnvStep(f) == WriteLine(f) \/ WriteOther(f) \/ Rotate(f) \/ Create(f)
RunStep(r) == \/ StartCheck(r) \/ StartArm(r) \/ StartWatch(r) \/ HandleModify(r)
              \/ HandleGone(r) \/ HandleError(r) \/ TimerStop(r) \/ TimerArm(r)
              \/ GiveUp(r)
CheckStep(c) == \/ CheckLock(c) \/ CheckRead(c) \/ CheckReadFails(c)
                \/ CheckCompare(c) \/ CheckRelock(c) \/ CheckMail(c)
InitConfStep == InitLock \/ InitPath \/ InitCheck \/ InitStop
SuperviseStep == Tick \/ Rearm \/ \E r \in Runs : Spawn(r)

Next ==
  \/ \E f \in Files : EnvStep(f)
  \/ NewMonth
  \/ \E r \in Runs : RunStep(r)
  \/ \E c \in Checks : CheckStep(c)
  \/ \E p \in NewPaths : Reload(p)
  \/ InitConfStep
  \/ SuperviseStep

Spec == Init /\ [][Next]_vars

\* Every goroutine that can go on does; doMonit's select takes the timer and
\* the event case again and again.  What happens to the file is not fair.
Fairness ==
  /\ \A r \in Runs :
       /\ WF_vars(StartCheck(r) \/ StartArm(r) \/ StartWatch(r) \/ GiveUp(r))
       /\ WF_vars(HandleModify(r) \/ HandleGone(r))
       /\ WF_vars(TimerStop(r)) /\ WF_vars(TimerArm(r))
  /\ \A c \in Checks : WF_vars(CheckStep(c))
  /\ WF_vars(InitConfStep)
  /\ WF_vars(SuperviseStep)

FairSpec == Spec /\ Fairness

-----------------------------------------------------------------------------
(* Properties.                                                             *)

TypeOK ==
  /\ IsRunOk \in BOOLEAN /\ IsconfigOk \in BOOLEAN
  /\ IsNeedStop \in BOOLEAN /\ IsNeedToChk \in BOOLEAN
  /\ path \in Paths /\ newPath \in Paths /\ watch \in Paths
  /\ last \in 0 .. MaxLines
  /\ pc \in [Runs -> RunPcs]
  /\ events \in Seq({"modify", "gone"})
  /\ open \in 0 .. MaxWatchers
  /\ cpc \in [Checks -> CheckPcs]
  /\ snap \in [Checks -> 0 .. MaxLines]
  /\ src \in [Checks -> Paths]
  /\ asOf \in [Checks -> Months]
  /\ main \in MainPcs
  /\ present \subseteq Files
  /\ content \in [Files -> SUBSET Lines]
  /\ written \in 0 .. MaxLines
  /\ marks \in [Lines -> SUBSET MonthStrs]
  /\ month \in Months
  /\ mails \in [Lines \X Months -> 0 .. MaxMails]
  /\ reloads \in 0 .. MaxReloads /\ faults \in 0 .. MaxFaults

\* The supervision never runs the monitor twice: while a goroutine executes
\* StartMonit or doMonit no second one does, and IsRunOk is FALSE only when
\* that goroutine is past its last use of the shared watcher.
SingleMonitor ==
  /\ \A r, s \in Runs : pc[r] # "idle" /\ pc[s] # "idle" => r = s
  /\ ~IsRunOk => \A r \in Runs : pc[r] = "idle"

\* No reload is lost: a monitor that watches anything but the configured path
\* has been told to stop, is about to learn that its file is gone, or InitConf
\* is still at work.
WatchIsCurrent ==
  \A r \in Runs : pc[r] = "loop" /\ watch # path =>
    \/ IsNeedStop
    \/ main \in {"path", "check", "stop"}
    \/ \E i \in DOMAIN events : events[i] = "gone"

\* A check lives in one configuration: the line it compares, and the path,
\* recipients and commands it mails with, are those of the file configured now.
OneConfigPerCheck ==
  \A c \in Checks : cpc[c] \in {"compare", "relock", "parse"} => src[c] = path

\* The life of the monitor's goroutines as its supervisor sees it.
Task == INSTANCE SupervisedTask
          WITH Workers <- Runs, ok <- IsRunOk,
               workers <- {r \in Runs : pc[r] # "idle"}

\* The monitor implements SupervisedTask.
SupervisedSpec == Task!Spec

\* What lastAlarmData is for: no restart is mailed twice by checks of the same
\* month, across checks, restarts of the monitor, rotations and reloads.
MailedOnce == \A n \in Lines, m \in Months : mails[<<n, m>>] < 2

\* lastAlarmData moves back to an older line only in a check whose month's
\* string does not occur in the younger one: in May, back from April to March.
LastAdvances ==
  [][last' < last =>
       \E c \in Checks : /\ cpc[c] = "compare" /\ last' = snap[c]
                         /\ MonthStr(asOf[c]) \notin marks[last]]_vars

\* A check waits for a writer that waits for it; neither ever goes on.
SelfBlocked == main = "lock" /\ \E c \in Checks : cpc[c] = "relock"

\* A reload ends, unless it meets a check between its two read locks.
ReloadReturns == (main = "lock") ~> (main = "poll" \/ SelfBlocked)

\* A reload ends.
ReloadAlwaysReturns == (main = "lock") ~> (main = "poll")

\* StartMonit is about to ask for an inotify instance and there is none left.
Exhausted == open = MaxWatchers /\ \E r \in Runs : pc[r] = "watch"

\* From some point on the configured file stays, no start fails for want of an
\* inotify instance, and no check is stuck.
Settled == <>[](IsconfigOk /\ path \in present /\ ~Exhausted /\ ~SelfBlocked)

\* Once things have settled, the supervision has the monitor running on the
\* configured file for good, whatever was leaked on the way.
MonitorRecovers ==
  Settled => <>[](\E r \in Runs : pc[r] = "loop" /\ watch = path)

\* As long as the configured file keeps changing, the last of the restart lines
\* that show the current month's string is found in the end, however many
\* events were dropped between two ticks.
CatchesUp ==
  Settled /\ []<><<WriteOther(path)>>_vars => <>[](Newest(Found) \subseteq {last})
=============================================================================
