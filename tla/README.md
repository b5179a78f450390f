# ucAlarm: specification, model checking and proofs

ucAlarm watches a Linux host and mails alarms: process restarts reported by
monit, lines of service logs, and load of the host. It is one Go process of
four modules that run as goroutines, a supervisor that restarts them, and a
configuration that is reloaded on SIGUSR1. This directory holds TLA+ models of
its parts, TLC configurations that check them on small instances, and TLAPS
proofs about them for all instances. Paths below are relative to the
repository (`src/...` is its `src` directory).

## 1. Inventory of the system

| Component | Source | State | Operations | Correct when |
|---|---|---|---|---|
| alarm centre | `src/alarm/alarm.go` | account (`Host`, `ServerAddr`, `User`, `PassWord`, `Filter`) under `_mutex_1`; `IsRunOk`, `IsConfigOk`, `IsNeedStop` without a lock; channel `MsgCh` (1024) | `StartAlarm`/`doAlarm` receive alarms and start one `sendEmail` goroutine each; `InitConf`, `StopAlarm` by the main goroutine | a set `IsRunOk` means somebody receives; a mail uses one account; nothing is lost except after a bad configuration; it recovers |
| process monitor | `src/alarmpro/alarmpro.go` | log path, keyword, recipients under `_mutex_3`; `lastAlarmData` under `_mutex_1`; an fsnotify watcher; four flags | `StartMonit`/`doMonit` (event loop), one `proModify`/`proParse` goroutine per accepted change, `InitConf`, `StopMonit` | one event loop; it watches the configured file; a restart is mailed once (in a month); a reload returns |
| log monitor | `src/alarmlog/alarmlog.go` | `KeyMap`, `FilePathMap`, table `MonitedMap` (under `_mutex_2`, in part), `IsNeedReload` under `_mutex_4`, flags; per node a stop channel, last lines, repetition filter | `StartMonit` (adds nodes, follows reloads every 3 s), one goroutine per node (`doMonit_`), `InitConf`, `StopMonit` | the table is the configuration; no goroutine outside the table; a stop is sent once |
| system monitor | `src/alarmsys/*.go` | thresholds, recipients, sweep time, two flags | sampling loop `StartMonit`, `InitConf`, `StopMonit`; parsers of `free`, `df`, `top`, `ps` | samples with the configured thresholds and period; survives odd output |
| configuration | `src/ucflag/ucflag.go` | four maps, `moduleName` (package variable) | `InitConfig`, `readLine`, `readInclude`, `configX`, `cleanOldMap` | what is in force is what the last good file says |
| supervisor | `src/ucserv/ucserv.go`, `src/ucsignal/ucsig.go` | the four "ok" flags, signal channel (10) | one loop: a signal, or 5 s sleep and for each module with a cleared flag: stop, 3 s, set flag, start | a dead module is started again, a live one is not started twice |
| common helpers | `src/common/common.go`, `src/uctime/uctime.go` | log files, own address | commands, `ToHeavy`, dates | |
| fsnotify (vendored) | `src/fsnotify/` | inotify instance, `Event`, `internalEvent`, `done` | `readEvents`, `purgeEvents`, `Watch`, `Close` | events arrive in order; `Close` releases the instance |
| entry, scripts | `src/ucAlarm/ucAlarm.go`, `ucaOption.sh`, `install` | | flags, start, `pkill -USR1` | |

**Interactions.** Monitors test `alarm.IsRunOk` and then send on the centre's
`MsgCh`, which blocks when full. `InitConfig` runs in the main goroutine, the
one that also supervises, and calls the four `InitConf` in a row, each of which
waits for locks that other goroutines hold. Every flag is shared memory written
by the main goroutine and by the module without a lock.

**Hard behaviours.** Restart protocols built on flags tested one at a time; a
main goroutine that waits for a lock whose holder waits for it;
reloads in the middle of a mail, a check, or a pass over the table; recursive
read locks; commands whose result changes with the calendar; events dropped by a
200 ms window; a stop channel with room for one
message; copies of nodes in a map; a timer whose old tick outlives its reset;
signals dropped by a full channel; leaked inotify instances; sticky settings.
`PROJECT.json` lists each at its line under "hazards", with the property that
covers it or the reason why none does.

## 2. Modules

| Module | What it is |
|---|---|
| `AlarmDelivery` | abstract: what the centre promises about each alarm (accepted or refused once, one mail attempt, loss only if degraded) |
| `AlarmCenter` | the centre, its mail goroutines, monitors as senders, `InitConf`, its part of `StartServer` |
| `SupervisedTask` | abstract: a flag and at most one worker, what `StartServer` relies on |
| `ProcMonitor` | the process monitor, its checks, the watched file, inotify instances, `InitConf`, its part of `StartServer` |
| `LogMonitor` | the log monitor's table, nodes and reload pass, `InitConf`, `StopMonit`, its part of `StartServer` |
| `LogScan` | one node of the log monitor: its sweeps over a growing and rotating file, its repetition filter, how it is stopped |
| `Config` | `InitConfig` and `readInclude`, the four maps, and what the four `InitConf` take over |
| `SysMonitor` | the system monitor's goroutine; a component of `Server` |
| `Server` | the process: the main goroutine with signals, reloads and supervision, the four modules as it sees them, the centre's channel and its senders |
| `MCProcMonitor`, `MCLogMonitor`, `MCLogScan`, `MCConfig`, `MCServer` | symmetry sets, lines, configurations and a joint bound for TLC |
| `AlarmCenter_proofs`, `ProcMonitor_proofs`, `LogMonitor_proofs`, `LogScan_proofs`, `Config_proofs`, `Server_proofs` | theorems and proofs, each about the module it is named after |

`Server` extends `SysMonitor` and instantiates `SupervisedTask`, as
`ProcMonitor` and `LogMonitor` do. It is the coarse composition: what is one action there
(`Start`, `InitAlarm`, ...) is many in the module of the component, which in
turn sees the main goroutine only as far as it concerns that component.

### Correspondence with the code

One action is one atomic stretch of a goroutine: it reads or writes one shared
flag, takes or releases one lock, or sends or receives once. Program counters
(`pc`, `cpc`, `npc`, `mon`, `main`) name the place between two such stretches.
A definition preceded by `mutant:` is a wrong variant of the next one, used
only to see that a property notices it.

*AlarmCenter.* `StartCheck`, `StartArm` are `StartAlarm`; `Receive`, `Dispatch`,
`TimerStop`, `GiveUp` are `doAlarm` (the receive and the test of `IsRunOk` that
follows it are two steps); `MailLock`, `MailFilter`, `MailAuth`, `MailSend` are
`sendEmail`; `Reload`, `InitLock`, `InitField`, `InitFinish`, `InitBad` are
`InitConf`; `Tick`, `Rearm`, `Spawn` are the `if !IsRunOk` of `StartServer`.
`Host` stands for `Host` and `ServerAddr`, `User` for `User` and `PassWord`.
A `sync.RWMutex` is a set of readers and a writer that is free, waiting or
holding; a waiting writer keeps new readers out, as Go's does.

*ProcMonitor.* `StartCheck`, `StartArm`, `StartWatch` are `StartMonit`;
`HandleModify`, `HandleGone`, `HandleError`, `TimerStop`, `TimerArm` are the
branches of `doMonit`'s select; `CheckLock` to `CheckMail` are `proModify` and
`proParse` with their two read locks. Restart lines, those with `monitKeyWord`
in them, are numbered, and `content` says which are in a file; that keyword is
the same in all configurations. The command
greps them for `GetMonth_str()`, the first two letters of the month (`MonthStr`:
March and May are both Ma, June and July both Ju), so a line is its number and the
month strings that occur in it (`marks`): its own month's, because monit begins
a line with the date, and others by accident (`Strays`). `Found` is what the
command finds in the month it is asked in, `Newest` its last line. The
environment writes lines, writes others, renames or deletes the file, creates
it, and turns the month (`NewMonth`). `Leave` is the end of a `proModify`
goroutine, whose local variables are gone. `asOf` and `mails` are history: the
month a check asked for, and how often a line was mailed for a month. `TimerStop` may or may not release the
inotify instance, because `Watcher.Close` only leaves a message for a reader
that may be blocked; every other end of a run leaks it.

*LogMonitor.* `AddRound`, `FollowRound`, `PruneRound` are one iteration each of
the four loops over maps in `StartMonit` (Go's order of iteration is arbitrary);
`Open`, `Forget`, `Register` are `AddMonit` and `doMonit`; `StopOld`, `DropOld`
are the send on the node's channel and the deletion that follows; `Check`,
`Gate`, `Reset`, `CheckLen`, `Wake` are the rest of its loop; `SwapKeys`,
`SwapFiles`, `CallLock`, `SetFlag` are `InitConf`; `DrainOne`, `DrainDone`,
`Halt` are `StopMonit`. What a node reads and mails is left out. The branch that
replaces a node whose `IslogNodeOk` is false has no action: the table holds
copies, and a copy's flag is never cleared.

*LogScan.* `First`, `FirstFails`, `Second`, `SecondFails` are `proModify` for one
keyword: `cat | grep key | grep date` and, when that finds nothing,
`cat | grep key | grep hour:tens-of-minutes`, whose results are `OfToday` and
`OfWindow`. grep looks for both texts anywhere in a line, so a line is found at any
date or time that its text looks like: 12:3 is in 10:12:35. `Take` is the comparison with `lastMsgMap`; `Suppress`, `Report`,
`Send`, `SendWaits` are `parseLog`; `SelectStop`, `SelectTimer`, `Sleep` are the
select of `doMonit_`. A line is a number with its keywords, the text behind its
brackets (`Plain` if it has none), and the days and the ten-minute windows that its text
looks like: its own (the day in a dated log only) and those its minute and second,
or its message, happen to show (`Kinds`). A log is dated
or has only times, from `Init` on. The timer is counted in sleeps; a timer that
fires puts one value in its channel, and a later `Reset` leaves it there, as
Go's did before version 1.23. Commands take no time, a send may take as long as
it likes.

*Config.* One action per kind of line and reader; `Store` is the four
`configX` functions, `StoredDefault` is `configDefault` with the text it carries
from one map to the next; `InitCentre` to `InitSystem` say which settings a
module overwrites, forgets or keeps. An included file may open and fail to read
(`Hangs`). Comments and blank lines, quoting, and the other keys are left out.

*SysMonitor.* `SysNoTotal` and `SysStart` are the head of `StartMonit`,
`SysRaise` and `SysSend` a call of `sendAlarmMsg`, `SysLoop` the end of a sweep.
Which checks raise an alarm, and how many, is left open.

*Server.* `TakeSignal` is the select of `StartServer` with `sigHandlerFunc` and
the reading of the file, which is loaded, refused, or read for ever
(`ReadForEver`: an included file that opens and cannot be read, `Hangs` of
`Config`; the main goroutine is then `"hung"`); `InitAlarm`, `InitPro`, `InitLog` are the round of
`InitConf` that ends it, each at the lock it may have to wait for; `Sleep`,
`VisitUp`, `VisitDown`, `Rearm`, `Spawn` are the default branch, for the module
`Here`. `Start`, `Stop`, `Fail` are the beginning and the two kinds of end of a
module's goroutine, `Receive` is the centre's. `CheckLock`, `CheckRelock`,
`Send` are a `proModify` that finds a restart: it holds `_mutex_3` for reading,
asks for it again, and sends while it holds it. `ok[m]` is the module's
`IsRunOk`, `IsLogMonitorOk` or `IsSysMonitOk`, `need[m]` its `IsNeedStop`,
`complete` the modules whose `IsConfigOk` is true. The log monitor never takes
`Stop`: only its nodes look at `IsNeedStop`, and its loop ends when the table is
empty, which is `Fail`. SIGALRM and SIGPIPE are
`"other"`: they are only logged. The nodes of the log monitor send without
holding a lock, as the system monitor does, which stands for them.

## 3. Runs

Every run says `CHECK_DEADLOCK FALSE`: when the bounded environment (alarms,
lines, reloads) is used up, the system rightly waits; the liveness properties
find the deadlocks that matter. (In `Server` nothing is used up, but the
operator can always edit the file.)

| Run | Checks | Bounds |
|---|---|---|
| `centre` | `TypeOK`; `RunOkIsServed`: a set `IsRunOk` has a run behind it; `NoTornAccount`: a mail uses one configuration's account; `NothingLostUndegraded`: restarts lose nothing by themselves; `DeliverySpec`: implements `AlarmDelivery`; `CentreRecovers`, `AlarmsDisposedOf`, `ReloadReturns` | 2 alarms, 2 runs, channel of 1, 3 configurations |
| `proc` | `TypeOK`; `SingleMonitor`; `WatchIsCurrent`: no reload is lost on the watcher; `OneConfigPerCheck`; `SupervisedSpec`: implements `SupervisedTask`; `MailedOnce`: a restart is mailed once by checks of one month; `LastAdvances`: `lastAlarmData` moves back only past a line without the month's string | April and May, 1 path and the empty one, 2 runs, 2 checks that do not overtake each other between reading and comparing, 2 lines that may look like May's, 2 reloads, 1 fault, 1 pending event, 2 instances |
| `proc_live` | `ReloadReturns`; `MonitorRecovers`: the monitor ends up on the configured file; `CatchesUp`: the last line of the current month's string is found | April and May, 2 overlapping checks, 1 reload, up to 2 lines and faults taken together (`MaxTroubles`), 4 instances; mails are not counted |
| `log_safety` | `TypeOK`; `NoOrphan`: an unstopped node is the registered one; `SyncedWhenIdle`: a sleeping monitor's table is the configuration; `SupervisedSpec`: implements `SupervisedTask`, and StartMonit is started only when it has returned (`NoDoubleStart`) | 5 configurations with missing keys, files and services, 3 nodes, 2 reloads, 1 fault |
| `log_live` | `NoPanic`: no send on a closed channel; `ReloadTakesEffect` | 2 complete configurations, 3 nodes, 2 reloads |
| `logscan` | `TypeOK`; `NewsOnce`: a line of today is news once a day, any other one once in ten minutes; `SuppressedBriefly`, `ForgetsOnlyAfterQuiet`: the filter holds a text as long as it should; `CatchesUp`: the last line of a keyword is found; `StopEnds` | 2 keywords, 3 kinds of line (one with an empty text that names the second day, one that looks like another time of day), 2 lines, days of 2 windows, 3 windows, 1 failing command, any number of rotations, filter of 2 sleeps |
| `config_loads` | `TypeOK`; `NobodyForgotten`, `NobodyElse`: recipients in force are those the file names; `LoadsEnd`: a load ends unless an include cannot be read | all files of at most 3 lines over 6 kinds of line and some longer ones, 3 loads |
| `server` | `TypeOK`; `NoDoubleStart`; `SysSupervised`: the system monitor implements `SupervisedTask`; `ModulesComeBack`, `SignalledEditRead`, `SendersServed` | channels of 1, 1 check, a complete configuration and one without an account; signals, edits, failures and alarms without bound |
| `proc_deadlock` | violated: `ReloadAlwaysReturns` | 1 check, 2 lines, 1 reload |
| `log_zombie` | violated: `RegisteredIsMonitored` | 2 nodes, 2 reloads, no fault |
| `log_deadnode` | violated: `RegisteredIsMonitored` | 2 nodes, no reload, 1 fault |
| `config_default` | violated: `SweepTimeDefault` | the longer files, 2 loads |

*Why the bounds are enough.* The races are between one main goroutine and one or
two others of a kind; two runs are needed to see a double start, two
checks to see an overtaking, two reloads to see one undone by the next, a fault
between them to see a restart in the middle, a failed load between two good ones
to see what it leaves behind. The channel of the centre is filled by one
alarm while another waits. In `LogScan` two lines share a keyword or do not,
are of one day or of two, and are in the file together, one at a time or not at
all; the third window brings the time of day of the first one back. `Server`
has no bound on what happens, only on how much of it waits. In `proc_live` two
faults and a reload may each leak an inotify instance, which leaves the fourth
one for the run that must come back; a failing `Watch` may use up more, and
`MonitorRecovers` and `CatchesUp` except only a start that finds none left
(`Exhausted`). Lines and faults share a bound there, `MaxTroubles` of
`MCProcMonitor`: two lines, a line and a fault, or two faults. It is a bound on
what happens to the file and its watcher, not on any step fairness asks for.
April and May are two months of different strings, of which the
second one's may also be in lines that are not its own (`Strays`), as it is in
March's. Two lines and two checks are enough for an older line to be put back:
with these bounds TLC finds `MailedOnce` and `LastAdvances` violated when
`SerialChecks` is `FALSE`, and `LastAdvances` without the exception it makes for
the month. Two files would
break `LastAdvances`: after a reload to another path the last line of
the old file is still the one remembered.

*Fairness.* A goroutine that can go on does (weak fairness): the Go scheduler is
preemptive and a select with several ready cases chooses at random, so the timer
branch of `doAlarm` and `doMonit` recurs. A send on a channel that has room
again and again succeeds (strong fairness), because Go serves waiting senders in
their order. `SendMail` and the commands that
checks run are taken to return. Alarms, lines, rotations, failures, signals and
reloads are the
environment's and not fair; `ProcMonitor`'s `CatchesUp` assumes that the file
keeps changing,
`MonitorRecovers` and `CatchesUp` that it stays and that no start finds the
inotify instances used up (`Settled`), `LogScan`'s that no send takes for ever, `ModulesComeBack` and
`SendersServed` that signals stop coming (the select prefers a waiting signal,
so without end they would keep the supervision from running), all of them in
the property itself. What the modules of the components call the supervision is
the main goroutine, and their fairness takes it to go on: the three ways in which it does not
are `Stuck` in `Server`, and outside them `Server` shows that it does. `centre` takes the supervisor's
sleeps (5 s, 3 s) to outlast the one-second timer of `doAlarm` (`PromptStop`);
the proofs about it do not. `Server` takes the five seconds to be enough for a
goroutine that was started to run (`Sleep`) and the three to be enough for the
centre to see its `IsNeedStop` (`Rearm`).

### What the violated runs show

* `proc_deadlock`: `proModify` holds `_mutex_3` for reading when `proParse` asks
  for it again; a reload that asks for it in between waits for a reader that
  waits for the reload. The main goroutine never returns: no reload and no
  restart any more. `ReloadReturns` shows that this is the only way within the
  process monitor, `SignalledEditRead` of `server` that two more exist in the
  process (`Stuck`): a check that waits for room in the channel of a centre that
  is down, with the same lock in its hand, and an include that is read for ever.
* `log_zombie`: after an incomplete reload and a complete one within three
  seconds, `IsNeedStop` stays set. New nodes are registered, sweep once and end;
  the table keeps them and nothing is restarted.
* `log_deadnode`: a node whose command fails ends, and the copy in the table
  keeps `IslogNodeOk` true, so `StartMonit` never replaces it.
* `config_default`: a reload of a file without `SweepTime` keeps the old one,
  where `conf/ucAlarm.conf` promises three seconds. (The system monitor's own
  default is 5 in `alarmsys.go:238` and 3 in the comment at `ucAlarm.conf:123`.)

### Further observations

What the properties leave room for, or what they had to assume, says something
about the code too:

* With `SerialChecks = FALSE` neither `LastAdvances` nor `MailedOnce` holds: a
  slow check puts an older line back and the next one mails a restart twice.
* `GetMonth_str` is the first two letters of the month, so Ma is March and May,
  Ju June and July. A check in May, before May has a restart line, finds the last
  of March. It is not April's last one, so it goes to `lastAlarmData` and is
  mailed as a new restart, with serial checks and one path. `LastAdvances`
  says that nothing but the month moves `lastAlarmData` back, and `MailedOnce`
  speaks of the checks of one month.
* With incomplete configurations `NoPanic` does not hold: `StartMonit`'s pass
  uses the table without `_mutex_2` while `StopMonit` empties it. With a missing
  file `ReloadTakesEffect` does not hold: `AddMonit` deletes the service from
  the maps that have just been exchanged.
* The first matching line a node or the process monitor ever sees only sets the
  baseline and is never mailed, and of several lines written between two sweeps
  the last one alone is.
* A line that contains the current hour and tens of minutes anywhere is found when
  there is none with today's date (`OfWindow`): one of an earlier day, or one
  whose minute and second look like it. In a log without dates a line of
  10:12:35 is news at 10:1x and again at 12:3x of the same day if another one was
  news in between. Hence `NewsOnce` promises once a day only for a line with
  today's date in it, and once in ten minutes for others.
* A tick that waits while the filter's timer is reset clears the filter at the
  next select, so `ForgetsOnlyAfterQuiet` needs its `stale`.
* A line that ends with its bracket has an empty text. It clears the filter
  (`ForgetsOnlyAfterQuiet` leaves that open), and while the filter is empty it is
  taken for a repetition and not mailed, although it is the first of its kind.
* A signal that never stops coming starves the supervision.
* A restart line written just before the month changes, with its event thrown
  away by the 200 ms window, is never found: the next check asks for another
  month (`CatchesUp` is about the lines of the current one).
* `readInclude` logs a read error and tries again, where `InitConfig` returns it.
  With an include that opens and cannot be read, such as a directory, the main
  goroutine never leaves the file (`LoadsEnd`, and `ReadForEver` of `Server`).
* The loop of the system monitor can be ended only by an `IsNeedStop` that
  nobody sets while it runs; ended that way, it would leave `IsSysMonitOk` set
  and never be started again.

## 4. Proofs

TLAPS checks, for all values of the constants that satisfy `ConstAssumption`:

* `AlarmCenter_proofs`: `TypeCorrect`, `RunOkServed`, `AccountNeverTorn`,
  `NothingLost` and `CentreImplementsDelivery`.
  `RunOkIsServed` is not inductive, because a run that returns on `IsNeedStop`
  might be the last: `ServedInv` adds that while both flags are set, after the
  restart, some run has not yet reset `IsNeedStop` (or is about to clear
  `IsRunOk`). `NoTornAccount` needs the lock (`LockInv`: a holding writer
  excludes readers, and a mail holds the read lock from its first to its last
  use of the account) and `AccountInv` (outside `fill` and `bad` the account is
  that of the last configuration). `NothingLostUndegraded` needs
  `UndegradedInv`: with complete configurations no run is on its way to give
  up and the main goroutine never leaves its loop for a restart. The refinement
  adds `PlaceInv`: an alarm is in the channel once or with one run, so a
  receive or a dispatch moves one alarm and `FateMoves` maps it to one step of
  `AlarmDelivery`; every other step maps to a stutter or to `Degrade`.
* `ProcMonitor_proofs`: `SingleMonitorHolds` and `ImplementsTask` rest on
  `LifeInv`, which relates `IsRunOk`, the place of the main goroutine and the
  number of runs; frame lemmas reduce the environment and the checks to
  stuttering. `TypeCorrect` uses it (an instance is open whenever a run is in its
  loop, so closing it keeps `open` a natural number). `WatchIsCurrentHolds` and
  `OneConfigPerCheckHolds` add what a reload does to the watcher and that a
  writer waits for the checks. `MailedOnceHolds` and `LastAdvancesHolds` have two
  hypotheses, without which the code does not do it: checks do not overtake each
  other between reading and comparing (`SerialChecks`), and reloads name one
  path or none. Nothing is assumed of the calendar or of the strings in a line.
  `LastInv` says that a line in hand is not older than `lastAlarmData` unless its
  month does not show that one, and that the file holds what a younger line
  leaves of it (`Kept`); `ToldInv` that the months of the checks follow the
  calendar, and that as long as a check of a month may come `lastAlarmData` shows
  that month and no line younger than it has been told of in it; `OnceInv` that
  no two checks of a month are about to mail the same line, nor one that was
  mailed.
* `LogMonitor_proofs`: `TypeCorrect`, `NoOrphanHolds`, `SyncedWhenIdleHolds`, and
  `NoPanicHolds` for configurations that are `Complete`. `LifeInv` says where
  `StartMonit` and the main goroutine can be together: `StopMonit` works on the
  table while `StartMonit` still does only when a bad configuration is in force.
  From it follow `OneStartMonit` (`NoDoubleStart`) and `ImplementsTask`: every
  return of `StartMonit` is a `Die` of `SupervisedTask`.
  `TableInv` ties the service in hand to the table: it is not in it while it is
  added, and if it still is while it is stopped, it is with the node that gets
  the stop. With both, `NoOrphan` is inductive. `SyncInv` follows a change of the
  configuration: it stays announced until a pass that began after it has ended,
  and in that pass each range leaves behind it services that follow the
  configuration, first their key lists (`KeysPass`), then their files
  (`FilesPass`), at last the table's surplus (`PrunePass`); `InitConf`, which
  exchanges the maps in two steps in the middle of it, breaks all of it and
  announces the change again. Missing files are included: what `AddMonit` then
  deletes from the maps is no longer configured. `PanicInv` adds that, with
  complete configurations, a registered node has an empty stop channel unless it
  is the one being taken off, and that no node is registered twice.
* `LogScan_proofs`: `TypeCorrect`, `SuppressedBrieflyHolds`,
  `ForgetsOnlyAfterQuietHolds`, `NewsOnceHolds`. `TimerInv`: the silence and
  what the timer has left add up to the filter's length, and a tick that is
  there early was left over. `NewsOnce` is far from inductive, since
  `lastMsgMap` holds one line only and the second command of a sweep may put an
  older one there: `TakenInv` says that a line that was news, is still in the
  file and still counts is guarded by the one remembered (`Guards`: that one is
  of today and not before it, or neither is of today and both are of these ten
  minutes), and `SecondInv` that the second command is tried only when the
  remembered line is not of today. `FoundLine` is the lemma about
  what a command finds.
* `Config_proofs`: `TypeCorrect`, `NobodyForgottenHolds`, `NobodyElseHolds`, for
  files and included files of any length. What a file says is defined without
  reading it (`Given`), what the program does line by line, so the invariants
  speak of the lines read so far: `PlaceInv` (what is left to read is the end of
  the file), `SectionInv` (`moduleName` is the last header read, and an included
  file counts for it), `KnownInv` (what these lines give is in
  the maps, but for the rest of an open include), `OnlyInv` (nothing else is:
  `configDefault` passes on what the process monitor and the log monitor have,
  which is nothing of their own as long as recipients of all modules come
  first), and `ForceInv` (the modules take over the maps one after the other).
* `Server_proofs`: `TypeCorrect`, `OneRunAtATime`, `SysImplementsTask`.
  `NoDoubleStart` needs `DownIsGone`: a process or log monitor whose flag is
  clear is gone, and nobody else sets the flag of a module, or starts it, from
  the moment the supervisor finds it down to the moment it starts it. `SysInv`
  says the same of the system monitor, whose flag is clear exactly when its
  goroutine is gone, and that its `IsNeedStop` is set only while no loop runs.

So every invariant and every action property of the runs is a theorem, except
`NoPanic`, `MailedOnce` and `LastAdvances`, which are theorems under the
hypotheses named above, which their runs share. All the invariants used were
checked with TLC before they were proved.

Only model-checked: liveness and everything under fairness (`CentreRecovers`,
`AlarmsDisposedOf`, `ReloadReturns`, `MonitorRecovers`, both `CatchesUp`,
`ReloadTakesEffect`, `StopEnds`, `LoadsEnd`, and those of `Server`), which is out
of the prover's reach. The violated runs are counterexamples and have no
theorem.

## 5. Not modelled

* The text of mails, commands and log lines; dates other than month, day and ten
  minutes; the parsers of `alarmsys_cpumem.go` and the thresholds. Where they
  index without a test a short output ends the process, of which nothing is
  left to model.
* Quoting in the configuration file and the spelling of its keys.
* The inside of fsnotify, which is vendored: `ProcMonitor` says what its callers
  can see. Platforms other than Linux.
* The blocking of the main goroutine by `_mutex_2` of the log monitor and
  `_mutex_1` of the centre in `Server`; `LogMonitor` and `AlarmCenter` show when
  they let go. Incomplete sections of the process and the log monitor in
  `Server`; they are in the modules of those two. Mails and commands that never
  return.
* The keyword of the process monitor, which a reload may change: the lines of
  `ProcMonitor` are those of one keyword.
* Torn reads of strings and maps (data races in Go's sense) beyond the flags,
  the account and the table, whose fields are read and written one at a time.
* Helpers without state (logging, formatting, `getNextSecond`, which nobody
  calls), program entry and scripts.

## 6. Plan

1. Proofs: the safety half of the liveness properties, that is, who can be
   waiting for whom: in `ProcMonitor` and `Server` the only states in which the
   main goroutine waits and nobody it waits for can go on are those of
   `proc_deadlock` and `Stuck`.
2. `FsWatcher`: reader and filter goroutines, `Close`; refines the choice in
   `TimerStop` of `ProcMonitor`.
3. The spelling of keys in `Config` (`SendTo` and `sendto` are two keys of a map
   that is iterated in any order).
