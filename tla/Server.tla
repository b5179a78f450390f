------------------------------- MODULE Server -------------------------------
(***************************************************************************)
(* The process as a whole: the main goroutine of StartServer               *)
(* (src/src/ucserv/ucserv.go), which handles signals and supervises the    *)
(* four modules one after the other; the signal channel; InitConfig's      *)
(* round of the four InitConf; the alarm centre's channel MsgCh and those  *)
(* who send on it, some of them while they hold _mutex_3 of the process    *)
(* monitor.                                                                *)
(*                                                                         *)
(* The system monitor is SysMonitor.  Of the other modules, which have     *)
(* modules of their own (AlarmCenter, ProcMonitor, LogMonitor), only what  *)
(* the supervisor and the channel see is kept: that a goroutine executes   *)
(* them, why it ends, and who blocks.  Nothing bounds the number of        *)
(* signals, edits, failures and alarms: the state is finite without.       *)
(***************************************************************************)
EXTENDS SysMonitor, FiniteSets

CONSTANTS
  Order,        \* the modules in the order StartServer visits them
  Checks,       \* proModify goroutines
  Confs,        \* the configurations the file can hold: sets of the modules
                \* whose section is complete
  SigCap        \* capacity of the signal channel (10 in the code)

ASSUME ConstAssumption ==
  /\ Modules = {"alarm", "pro", "log", "sys"}
  /\ Order = <<"alarm", "pro", "log", "sys">>
  /\ \A c \in Confs : c \subseteq Modules /\ "sys" \in c
  /\ {ChanCap, SigCap} \subseteq Nat \ {0}

VARIABLES
  main, at,     \* the main goroutine, and the place in Order it is at
  sigs,         \* contents of sigChan
  stale,        \* the configuration file has been edited since it was last read
  loaded,       \* the configuration InitConfig has read last
  complete,     \* the modules whose IsConfigOk is TRUE
  run,          \* run[m]: the goroutine executing module m, the sys one apart
  snd           \* the goroutines that send alarms, the sys one apart

mainVars == <<main, at, sigs, stale, loaded, complete>>
vars == <<sysVars, mainVars, run, snd>>

Workers == Modules \ {"sys"}
Signals == {"USR1", "other"}

\* The state StartServer is started in, after the first InitConfig.
Init ==
  /\ loaded \in Confs /\ complete = loaded
  /\ stale = FALSE
  /\ ok = [m \in Modules |-> m = "alarm" => m \in loaded]
  /\ need = [m \in Modules |-> m = "pro" \/ (m = "log" /\ m \notin loaded)]
  /\ queue = 0
  /\ spc = "start"
  /\ main = "poll" /\ at = 1
  /\ sigs = <<>>
  /\ run = [m \in Workers |-> "start"]
  /\ snd = [c \in Checks |-> "idle"]

-----------------------------------------------------------------------------
(* The environment: the operator.                                          *)

Edit ==
  /\ stale' = TRUE
  /\ UNCHANGED <<sysVars, main, at, sigs, loaded, complete, run, snd>>

\* mutant: a signal is taken whether the channel has room or not
Signal_Always(s) ==
  /\ Len(sigs) <= SigCap
  /\ sigs' = Append(sigs, s)
  /\ UNCHANGED <<sysVars, main, at, stale, loaded, complete, run, snd>>

\* signal.Notify drops a signal for which the channel has no room.
Signal(s) ==
  /\ Len(sigs) < SigCap
  /\ sigs' = Append(sigs, s)
  /\ UNCHANGED <<sysVars, main, at, stale, loaded, complete, run, snd>>

-----------------------------------------------------------------------------
(* The goroutines that execute the alarm centre and the two log watchers.  *)

\* mutant: a module that starts again still finds IsNeedStop set
Start_NoReset(m) ==
  /\ run[m] = "start"
  /\ IF m \in complete
     THEN run' = [run EXCEPT ![m] = "on"] /\ UNCHANGED ok
     ELSE run' = [run EXCEPT ![m] = "off"] /\ ok' = [ok EXCEPT ![m] = FALSE]
  /\ UNCHANGED <<need, queue, spc, mainVars, snd>>

Start(m) ==
  /\ run[m] = "start"
  /\ IF m \in complete
     THEN /\ run' = [run EXCEPT ![m] = "on"]
          /\ need' = [need EXCEPT ![m] = FALSE]
          /\ UNCHANGED ok
     ELSE /\ run' = [run EXCEPT ![m] = "off"]
          /\ ok' = [ok EXCEPT ![m] = FALSE]
          /\ UNCHANGED need
  /\ UNCHANGED <<queue, spc, mainVars, snd>>

\* A module that has been told to stop.  The alarm centre leaves IsRunOk as
\* it is, the process monitor clears its flag last.  The loop of the log
\* monitor does not look at IsNeedStop: it ends without nodes only (Fail).
Stop(m) ==
  /\ run[m] = "on" /\ need[m] /\ m # "log"
  /\ run' = [run EXCEPT ![m] = "off"]
  /\ ok' = [ok EXCEPT ![m] = @ /\ m = "alarm"]
  /\ UNCHANGED <<need, queue, spc, mainVars, snd>>

\* mutant: a module that fails reports it and goes on
Fail_Goes(m) ==
  /\ run[m] = "on" /\ m # "alarm"
  /\ ok' = [ok EXCEPT ![m] = FALSE]
  /\ UNCHANGED <<need, queue, spc, mainVars, run, snd>>

\* A rotated file, a watcher error, a log monitor without nodes.
Fail(m) ==
  /\ run[m] = "on" /\ m # "alarm"
  /\ run' = [run EXCEPT ![m] = "off"]
  /\ ok' = [ok EXCEPT ![m] = FALSE]
  /\ UNCHANGED <<need, queue, spc, mainVars, snd>>

\* The centre takes an alarm, and ends if it finds IsRunOk FALSE.
Receive ==
  /\ run["alarm"] = "on"
  /\ queue > 0
  /\ queue' = queue - 1
  /\ run' = [run EXCEPT !["alarm"] = IF ok["alarm"] THEN "on" ELSE "off"]
  /\ UNCHANGED <<ok, need, spc, mainVars, snd>>

-----------------------------------------------------------------------------
(* Those who send alarms.                                                  *)

Goto(c, from, to) ==
  /\ snd[c] = from
  /\ snd' = [snd EXCEPT ![c] = to]

Still == UNCHANGED <<ok, need, spc, mainVars, run>>

\* The main goroutine is in InitConf of the process monitor and has called
\* _mutex_3.Lock: no new reader gets in.
AtLock == main = "init" /\ Order[at] = "pro"
Holding == {c \in Checks : snd[c] # "idle"}

\* proModify takes the read lock and finds a restart that proParse is to
\* mail, for which it takes the lock again.  (One that finds nothing leaves,
\* and one that a run has started may outlive it.)
CheckLock(c) ==
  /\ Goto(c, "idle", "relock")
  /\ ~AtLock
  /\ UNCHANGED queue /\ Still

CheckRelock(c) ==
  /\ Goto(c, "relock", IF ok["alarm"] THEN "send" ELSE "idle")
  /\ ~AtLock
  /\ UNCHANGED queue /\ Still

Send(c) ==
  /\ Goto(c, "send", "idle")
  /\ queue < ChanCap
  /\ queue' = queue + 1
  /\ Still

-----------------------------------------------------------------------------
(* The main goroutine: signals.                                            *)

Here == Order[at]

\* A file that a section includes, and that can be opened but not be read, is
\* tried for ever.
ReadForEver == main' = "hung" /\ UNCHANGED <<stale, loaded>>

\* SIGUSR1 makes InitConfig read the file.  If it can, the configuration goes
\* to the four modules, if not everything stays.
TakeSignal ==
  /\ main = "poll" /\ sigs # <<>>
  /\ sigs' = Tail(sigs)
  /\ IF Head(sigs) = "USR1"
     THEN \/ stale' = FALSE /\ loaded' \in Confs /\ main' = "init"
          \/ stale' = FALSE /\ UNCHANGED <<loaded, main>>
          \/ ReadForEver
     ELSE UNCHANGED <<stale, loaded, main>>
  /\ UNCHANGED <<sysVars, at, complete, run, snd>>

\* Whether the section of the module at hand is complete, once it is loaded.
Judge == complete' = IF Here \in loaded THEN complete \cup {Here}
                                        ELSE complete \ {Here}

InitNext ==
  /\ main' = IF Here = "log" THEN "poll" ELSE "init"
  /\ at' = IF Here = "log" THEN 1 ELSE at + 1
  /\ UNCHANGED <<queue, spc, sigs, stale, loaded, run, snd>>

\* That InitConf gets _mutex_1 is ReloadReturns of module AlarmCenter.
InitAlarm ==
  /\ main = "init" /\ Here = "alarm"
  /\ Judge
  /\ ok' = [ok EXCEPT ![Here] = @ /\ Here \in complete']
  /\ UNCHANGED need
  /\ InitNext

InitPro ==
  /\ main = "init" /\ Here = "pro"
  /\ Holding = {}
  /\ Judge
  /\ need' = [need EXCEPT ![Here] = TRUE]
  /\ UNCHANGED ok
  /\ InitNext

\* mutant: the round ends by emptying the signal channel
InitLog_Drains ==
  /\ main = "init" /\ Here = "log"
  /\ Judge
  /\ need' = [need EXCEPT ![Here] = @ \/ Here \notin complete']
  /\ main' = "poll" /\ at' = 1
  /\ sigs' = <<>>
  /\ UNCHANGED <<ok, queue, spc, stale, loaded, run, snd>>

\* The InitConf of the system monitor follows.  It sets the limits, the
\* recipients and SweepTime, of which Server sees nothing.
InitLog ==
  /\ main = "init" /\ Here = "log"
  /\ Judge
  /\ need' = [need EXCEPT ![Here] = @ \/ Here \notin complete']
  /\ UNCHANGED ok
  /\ InitNext

-----------------------------------------------------------------------------
(* The main goroutine: supervision, when no signal is waiting.             *)

\* mutant: the alarm centre is left out
Sleep_FromPro ==
  /\ main = "poll" /\ sigs = <<>>
  /\ \A m \in Workers : run[m] # "start"
  /\ main' = "visit" /\ at' = 2
  /\ UNCHANGED <<sysVars, sigs, stale, loaded, complete, run, snd>>

\* The five seconds, in which every goroutine that was started gets to run.
Sleep ==
  /\ main = "poll" /\ sigs = <<>>
  /\ \A m \in Workers : run[m] # "start"
  /\ main' = "visit"
  /\ UNCHANGED <<sysVars, at, sigs, stale, loaded, complete, run, snd>>

VisitNext ==
  /\ main' = IF at < Len(Order) THEN "visit" ELSE "poll"
  /\ at' = (at % Len(Order)) + 1
  /\ UNCHANGED <<queue, sigs, stale, loaded, complete, snd>>

VisitUp ==
  /\ main = "visit" /\ ok[Here]
  /\ UNCHANGED <<ok, need, spc, run>>
  /\ VisitNext

VisitDown ==
  /\ main = "visit" /\ ~ok[Here]
  /\ need' = [need EXCEPT ![Here] = TRUE]
  /\ main' = "stopped"
  /\ UNCHANGED <<ok, queue, spc, at, sigs, stale, loaded, complete,
                 run, snd>>

\* Three seconds later, which a run of the centre needs one of to notice
\* IsNeedStop.
Rearm ==
  /\ main = "stopped"
  /\ Here = "alarm" => run[Here] = "off"
  /\ ok' = [ok EXCEPT ![Here] = TRUE]
  /\ main' = "rearmed"
  /\ UNCHANGED <<need, queue, spc, at, sigs, stale, loaded, complete, run, snd>>

Spawn ==
  /\ main = "rearmed"
  /\ IF Here = "sys" THEN spc' = "start" /\ UNCHANGED run
                     ELSE run' = [run EXCEPT ![Here] = "start"] /\ UNCHANGED spc
  /\ UNCHANGED <<ok, need>>
  /\ VisitNext

-----------------------------------------------------------------------------
EnvStep == Edit \/ \E s \in Signals : Signal(s)
InitStep == InitAlarm \/ InitPro \/ InitLog
VisitStep == VisitUp \/ VisitDown \/ Rearm \/ Spawn
MainStep == TakeSignal \/ InitStep \/ Sleep \/ VisitStep
RunStep(m) == Start(m) \/ Stop(m)
Others == UNCHANGED <<mainVars, run, snd>>

Next ==
  \/ EnvStep
  \/ MainStep
  \/ \E m \in Workers : RunStep(m) \/ Fail(m)
  \/ Receive
  \/ \E c \in Checks : CheckLock(c) \/ CheckRelock(c)
  \/ \E c \in Checks : Send(c)
  \/ SysStep /\ Others

Spec == Init /\ [][Next]_vars

\* Every goroutine goes on whenever it can, and Go serves those who wait on a
\* full channel in their order.  Signals, edits, failures, restarts found by
\* proModify and lines found by nodes just happen.
Fairness ==
  /\ WF_vars(MainStep) /\ WF_vars(Receive)
  /\ \A m \in Workers : WF_vars(RunStep(m))
  /\ \A c \in Checks : WF_vars(CheckRelock(c))
  /\ \A c \in Checks : SF_vars(Send(c))
  /\ WF_vars(SysGo /\ Others) /\ SF_vars(SysSend /\ Others)

FairSpec == Spec /\ Fairness

-----------------------------------------------------------------------------
(* Properties.                                                             *)

TypeOK ==
  /\ ok \in [Modules -> BOOLEAN] /\ need \in [Modules -> BOOLEAN]
  /\ queue \in 0 .. ChanCap
  /\ spc \in SysPcs
  /\ main \in {"poll", "init", "hung", "visit", "stopped", "rearmed"}
  /\ at \in DOMAIN Order
  /\ sigs \in Seq(Signals) /\ Len(sigs) <= SigCap
  /\ stale \in BOOLEAN /\ loaded \in Confs
  /\ complete \subseteq Modules
  /\ run \in [Workers -> {"off", "start", "on"}]
  /\ snd \in [Checks -> {"idle", "relock", "send"}]

\* No module is started while a goroutine still executes it, whoever cleared
\* its flag and whatever a reload did to it in between.
NoDoubleStart ==
  [][\A m \in Workers : run'[m] = "start" => run[m] \in {"off", "start"}]_vars

\* The system monitor's goroutine as its supervisor sees it.
Task == INSTANCE SupervisedTask
          WITH Workers <- {"sys"}, ok <- ok["sys"],
               workers <- IF spc = "off" THEN {} ELSE {"sys"}

\* The system monitor implements SupervisedTask: its loop, which would leave
\* IsSysMonitOk set, never ends, because IsNeedStop is set only when the
\* goroutine is gone already.
SysSupervised == Task!Spec

\* The main goroutine reads an included file for ever; or it waits for
\* _mutex_3 and a check that holds it for reading waits too: for the main
\* goroutine, by asking for the lock again, or for room in MsgCh, which only a
\* centre could make that only the main goroutine could start.
Stuck ==
  \/ main = "hung"
  \/ AtLock /\ \E c \in Checks :
       \/ snd[c] = "relock"
       \/ snd[c] = "send" /\ queue = ChanCap /\ run["alarm"] = "off"

\* Whatever fails however often and whatever was reloaded before: once the
\* configuration stays complete and no signals come in, and unless the main
\* goroutine is held in one of the three ways of Stuck, a module comes up again
\* and again, and a system monitor that is down is started again.
ModulesComeBack ==
  <>[](sigs = <<>> /\ ~Stuck) =>
    /\ \A m \in Workers : <>[](m \in complete) => []<>(run[m] = "on" /\ ok[m])
    /\ []<>(spc # "off")

\* An edit of the configuration file is read if a SIGUSR1 is in the signal
\* channel after it: the two waits for _mutex_3 and the endless reading of
\* Stuck are all that can keep the main goroutine from its loop.  (A SIGUSR1
\* that finds the channel full is lost, which does not matter when it is
\* another SIGUSR1 that fills it.)
SignalledEditRead ==
  (stale /\ \E i \in DOMAIN sigs : sigs[i] = "USR1") ~> (~stale \/ Stuck)

\* Once the mail account is complete for good, nobody waits for room in MsgCh
\* for ever; nor does a reload leave them waiting, unless it never returns:
\* for _mutex_3, or from an included file that cannot be read.
SendersServed ==
  <>[]("alarm" \in complete /\ sigs = <<>> /\ ~Stuck) =>
    /\ \A c \in Checks : []<>(snd[c] # "send")
    /\ []<>(spc # "send")
=============================================================================
