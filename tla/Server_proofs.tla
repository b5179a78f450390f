---------------------------- MODULE Server_proofs ----------------------------
(***************************************************************************)
(* Theorems about the process as a whole, for every capacity of its two    *)
(* channels, every number of checks and every set of configurations: type  *)
(* correctness, NoDoubleStart, and that the system monitor implements      *)
(* SupervisedTask.                                                         *)
(***************************************************************************)
EXTENDS Server, TLAPS

-----------------------------------------------------------------------------
(* Type correctness.                                                       *)

LEMMA HereType == at \in DOMAIN Order => Here \in Modules /\ at \in 1 .. 4
BY ConstAssumption DEF Here

LEMMA TypeInit == Init => TypeOK
<1>. SUFFICES ASSUME Init PROVE TypeOK
  OBVIOUS
<1>1. ok \in [Modules -> BOOLEAN]
  <2>1. \A m \in Modules : (m = "alarm" => m \in loaded) \in BOOLEAN
    OBVIOUS
  <2>. QED BY <2>1 DEF Init
<1>2. need \in [Modules -> BOOLEAN]
  <2>1. \A m \in Modules : (m = "pro" \/ (m = "log" /\ m \notin loaded)) \in BOOLEAN
    OBVIOUS
  <2>. QED BY <2>1 DEF Init
<1>3. sigs \in Seq(Signals) /\ Len(sigs) <= SigCap
  BY ConstAssumption DEF Init
<1>4. run \in [Workers -> {"off", "start", "on"}] /\ snd \in [Checks -> {"idle", "relock", "send"}]
  BY DEF Init
<1>5. complete \subseteq Modules /\ loaded \in Confs /\ stale \in BOOLEAN
  BY ConstAssumption DEF Init
<1>6. at \in DOMAIN Order
  BY ConstAssumption DEF Init
<1>7. queue \in 0 .. ChanCap /\ spc \in SysPcs
      /\ main \in {"poll", "init", "hung", "visit", "stopped", "rearmed"}
  BY ConstAssumption DEF Init, SysPcs
<1>. QED BY <1>1, <1>2, <1>3, <1>4, <1>5, <1>6, <1>7 DEF TypeOK

LEMMA TypeStep == TypeOK /\ [Next]_vars => TypeOK'
<1>. SUFFICES ASSUME TypeOK, [Next]_vars PROVE TypeOK'
  OBVIOUS
<1>. USE ConstAssumption, HereType DEF TypeOK, sysVars, mainVars, Workers, SysPcs
<1>1. CASE EnvStep
  <2>1. CASE Edit
    BY <2>1 DEF Edit
  <2>2. ASSUME NEW s \in Signals, Signal(s) PROVE TypeOK'
    <3>1. sigs' \in Seq(Signals) /\ Len(sigs') <= SigCap
      BY <2>2 DEF Signal
    <3>. QED BY <2>2, <3>1 DEF Signal
  <2>. QED BY <1>1, <2>1, <2>2 DEF EnvStep
<1>2. CASE TakeSignal
  <2>1. sigs' \in Seq(Signals) /\ Len(sigs') <= SigCap
    BY <1>2 DEF TakeSignal, ReadForEver
  <2>. QED BY <1>2, <2>1 DEF TakeSignal, ReadForEver
<1>3. CASE InitStep
  <2>. USE DEF InitNext, Judge
  <2>1. CASE InitAlarm
    <3>1. ok' \in [Modules -> BOOLEAN]
      <4>1. ok' = [ok EXCEPT ![Here] = ok[Here] /\ Here \in complete']
        BY <2>1 DEF InitAlarm
      <4>2. (ok[Here] /\ Here \in complete') \in BOOLEAN
        OBVIOUS
      <4>. QED BY <4>1, <4>2
    <3>. QED BY <2>1, <3>1 DEF InitAlarm, Here
  <2>2. CASE InitPro
    BY <2>2 DEF InitPro, Here
  <2>3. CASE InitLog
    <3>1. need' \in [Modules -> BOOLEAN]
      <4>1. need' = [need EXCEPT ![Here] = need[Here] \/ Here \notin complete']
        BY <2>3 DEF InitLog
      <4>2. (need[Here] \/ Here \notin complete') \in BOOLEAN
        OBVIOUS
      <4>. QED BY <4>1, <4>2
    <3>. QED BY <2>3, <3>1 DEF InitLog, Here
  <2>. QED BY <1>3, <2>1, <2>2, <2>3 DEF InitStep
<1>4. CASE Sleep
  BY <1>4 DEF Sleep
<1>5. CASE VisitStep
  <2>. USE DEF VisitNext
  <2>1. CASE VisitUp
    BY <2>1 DEF VisitUp
  <2>2. CASE VisitDown
    BY <2>2 DEF VisitDown
  <2>3. CASE Rearm
    BY <2>3 DEF Rearm
  <2>4. CASE Spawn
    BY <2>4 DEF Spawn
  <2>. QED BY <1>5, <2>1, <2>2, <2>3, <2>4 DEF VisitStep
<1>6. ASSUME NEW m \in Workers, RunStep(m) \/ Fail(m) PROVE TypeOK'
  <2>1. CASE Start(m)
    <3>1. run' \in [Workers -> {"off", "start", "on"}]
      <4>1. run' = [run EXCEPT ![m] = "on"] \/ run' = [run EXCEPT ![m] = "off"]
        BY <2>1 DEF Start
      <4>. QED BY <4>1
    <3>2. ok' \in [Modules -> BOOLEAN]
      <4>1. ok' = ok \/ ok' = [ok EXCEPT ![m] = FALSE]
        BY <2>1 DEF Start
      <4>. QED BY <4>1
    <3>3. need' \in [Modules -> BOOLEAN]
      <4>1. need' = need \/ need' = [need EXCEPT ![m] = FALSE]
        BY <2>1 DEF Start
      <4>. QED BY <4>1
    <3>. QED BY <2>1, <3>1, <3>2, <3>3 DEF Start
  <2>2. CASE Stop(m)
    <3>1. ok' \in [Modules -> BOOLEAN]
      <4>1. ok' = [ok EXCEPT ![m] = ok[m] /\ m = "alarm"]
        BY <2>2 DEF Stop
      <4>2. (ok[m] /\ m = "alarm") \in BOOLEAN
        OBVIOUS
      <4>. QED BY <4>1, <4>2
    <3>. QED BY <2>2, <3>1 DEF Stop
  <2>3. CASE Fail(m)
    BY <2>3 DEF Fail
  <2>. QED BY <1>6, <2>1, <2>2, <2>3 DEF RunStep
<1>7. CASE Receive
  BY <1>7 DEF Receive
<1>8. ASSUME NEW c \in Checks, CheckLock(c) \/ CheckRelock(c) \/ Send(c) PROVE TypeOK'
  <2>. USE DEF Goto, Still
  <2>1. CASE CheckLock(c)
    BY <2>1 DEF CheckLock
  <2>2. CASE CheckRelock(c)
    BY <2>2 DEF CheckRelock
  <2>3. CASE Send(c)
    BY <2>3 DEF Send
  <2>. QED BY <1>8, <2>1, <2>2, <2>3
<1>9. CASE SysStep /\ Others
  <2>. USE DEF Others
  <2>1. CASE SysStart
    BY <1>9, <2>1 DEF SysStart
  <2>2. CASE SysSend
    BY <1>9, <2>2 DEF SysSend
  <2>3. CASE SysLoop \/ SysRaise \/ SysNoTotal
    BY <1>9, <2>3 DEF SysLoop, SysRaise, SysNoTotal
  <2>. QED BY <1>9, <2>1, <2>2, <2>3 DEF SysStep, SysGo
<1>10. CASE UNCHANGED vars
  BY <1>10 DEF vars
<1>. QED BY <1>1, <1>2, <1>3, <1>4, <1>5, <1>6, <1>7, <1>8, <1>9, <1>10
         DEF Next, MainStep

\* Every state of the process is well typed; neither channel ever holds more
\* than it has room for.
THEOREM TypeCorrect == Spec => []TypeOK
BY TypeInit, TypeStep, PTL DEF Spec

-----------------------------------------------------------------------------
(* A module is started only when no goroutine executes it.                 *)

\* What the supervisor relies on.  A log watcher clears its flag last, so one
\* that is down is gone; and from the moment the supervisor finds a module
\* down to the moment it starts it, nobody else sets the flag or starts it.
DownIsGone ==
  /\ \A m \in {"pro", "log"} : ~ok[m] => run[m] = "off"
  /\ main = "stopped" => ~ok[Here]
  /\ main = "rearmed" /\ Here # "sys" => ok[Here] /\ run[Here] = "off"

LEMMA DownIsGoneInit == Init => DownIsGone
BY ConstAssumption DEF Init, DownIsGone

LEMMA DownIsGoneStep == TypeOK /\ DownIsGone /\ [Next]_vars => DownIsGone'
<1>. SUFFICES ASSUME TypeOK, DownIsGone, [Next]_vars PROVE DownIsGone'
  OBVIOUS
<1>. USE ConstAssumption, HereType DEF TypeOK, DownIsGone, sysVars, mainVars, Workers, Here
<1>1. CASE EnvStep
  BY <1>1 DEF EnvStep, Edit, Signal
<1>2. CASE TakeSignal
  BY <1>2 DEF TakeSignal, ReadForEver
<1>3. CASE InitStep
  BY <1>3 DEF InitStep, InitAlarm, InitPro, InitLog, InitNext, Judge
<1>4. CASE Sleep
  BY <1>4 DEF Sleep
<1>5. CASE VisitStep
  <2>. USE DEF VisitNext
  <2>1. CASE VisitUp
    BY <2>1 DEF VisitUp
  <2>2. CASE VisitDown
    BY <2>2 DEF VisitDown
  <2>3. CASE Rearm
    BY <2>3 DEF Rearm
  <2>4. CASE Spawn
    <3>1. CASE Here = "sys"
      BY <2>4, <3>1 DEF Spawn
    <3>2. CASE Here # "sys"
      <4>1. run' = [run EXCEPT ![Here] = "start"] /\ ok' = ok /\ main' \notin {"stopped", "rearmed"}
        BY <2>4, <3>2 DEF Spawn
      <4>2. PICK m \in Workers : m = Here /\ ok[m] /\ run[m] = "off"
        BY <2>4, <3>2 DEF Spawn
      <4>. QED BY <4>1, <4>2
    <3>. QED BY <3>1, <3>2
  <2>. QED BY <1>5, <2>1, <2>2, <2>3, <2>4 DEF VisitStep
<1>6. ASSUME NEW m \in Workers, RunStep(m) \/ Fail(m) PROVE DownIsGone'
  <2>1. CASE Start(m)
    BY <2>1 DEF Start
  <2>2. CASE Stop(m)
    BY <2>2 DEF Stop
  <2>3. CASE Fail(m)
    BY <2>3 DEF Fail
  <2>. QED BY <1>6, <2>1, <2>2, <2>3 DEF RunStep
<1>7. CASE Receive
  BY <1>7 DEF Receive
<1>8. ASSUME NEW c \in Checks, CheckLock(c) \/ CheckRelock(c) \/ Send(c)
      PROVE  DownIsGone'
  BY <1>8 DEF CheckLock, CheckRelock, Send, Goto, Still
<1>9. CASE SysStep /\ Others
  BY <1>9 DEF Others, SysStep, SysGo, SysStart, SysSend, SysLoop, SysRaise, SysNoTotal
<1>10. CASE UNCHANGED vars
  BY <1>10 DEF vars
<1>. QED BY <1>1, <1>2, <1>3, <1>4, <1>5, <1>6, <1>7, <1>8, <1>9, <1>10
         DEF Next, MainStep

\* run[m] becomes "start" in Spawn only.
LEMMA StartStep ==
  ASSUME TypeOK, DownIsGone, [Next]_vars, NEW m \in Workers, run'[m] = "start"
  PROVE  run[m] \in {"off", "start"}
<1>. USE ConstAssumption, HereType DEF TypeOK, sysVars, mainVars, Workers
<1>1. CASE EnvStep \/ TakeSignal \/ InitStep \/ Sleep
  BY <1>1 DEF EnvStep, Edit, Signal, TakeSignal, ReadForEver, InitStep, InitAlarm, InitPro,
              InitLog, InitNext, Sleep
<1>2. CASE VisitStep
  <2>1. CASE VisitUp \/ VisitDown \/ Rearm
    BY <2>1 DEF VisitUp, VisitDown, Rearm
  <2>2. CASE Spawn
    BY <2>2 DEF Spawn, DownIsGone
  <2>. QED BY <1>2, <2>1, <2>2 DEF VisitStep
<1>3. ASSUME NEW n \in Workers, RunStep(n) \/ Fail(n)
      PROVE  run[m] \in {"off", "start"}
  BY <1>3 DEF RunStep, Start, Stop, Fail
<1>4. CASE Receive
  BY <1>4 DEF Receive
<1>5. ASSUME NEW c \in Checks, CheckLock(c) \/ CheckRelock(c) \/ Send(c)
      PROVE  run[m] \in {"off", "start"}
  BY <1>5 DEF CheckLock, CheckRelock, Send, Goto, Still
<1>6. CASE SysStep /\ Others
  BY <1>6 DEF Others
<1>7. CASE UNCHANGED vars
  BY <1>7 DEF vars
<1>. QED BY <1>1, <1>2, <1>3, <1>4, <1>5, <1>6, <1>7 DEF Next, MainStep

\* StartServer never starts a module a goroutine still executes, although a
\* reload, the module itself and the supervisor all write its two flags.
THEOREM OneRunAtATime == Spec => NoDoubleStart
<1>1. TypeOK /\ DownIsGone /\ [Next]_vars
        => [\A m \in Workers : run'[m] = "start" => run[m] \in {"off", "start"}]_vars
  BY StartStep
<1>. QED BY <1>1, TypeInit, TypeStep, DownIsGoneInit, DownIsGoneStep, PTL
         DEF Spec, NoDoubleStart

-----------------------------------------------------------------------------
(* The system monitor implements SupervisedTask.                           *)

\* The goroutine is gone exactly while its flag is clear or the supervisor is
\* about to start it; and IsNeedStop, which would end the loop and leave the
\* flag set, is set only while no loop runs.
SysInv ==
  /\ ~ok["sys"] => spc = "off"
  /\ spc = "off" => ~ok["sys"] \/ (main = "rearmed" /\ Here = "sys")
  /\ main = "stopped" /\ Here = "sys" => ~ok["sys"]
  /\ main = "rearmed" /\ Here = "sys" => ok["sys"] /\ spc = "off"
  /\ need["sys"] => spc \in {"off", "start"}

LEMMA SysInvInit == Init => SysInv
BY ConstAssumption DEF Init, SysInv, Here

LEMMA SysInvStep == TypeOK /\ SysInv /\ [Next]_vars => SysInv'
<1>. SUFFICES ASSUME TypeOK, SysInv, [Next]_vars PROVE SysInv'
  OBVIOUS
<1>. USE ConstAssumption, HereType DEF TypeOK, SysInv, sysVars, mainVars, Workers, Here
<1>1. CASE EnvStep
  BY <1>1 DEF EnvStep, Edit, Signal
<1>2. CASE TakeSignal
  BY <1>2 DEF TakeSignal, ReadForEver
<1>3. CASE InitStep
  BY <1>3 DEF InitStep, InitAlarm, InitPro, InitLog, InitNext
<1>4. CASE Sleep
  BY <1>4 DEF Sleep
<1>5. CASE VisitStep
  <2>. USE DEF VisitNext
  <2>1. CASE VisitUp
    BY <2>1 DEF VisitUp
  <2>2. CASE VisitDown
    BY <2>2 DEF VisitDown
  <2>3. CASE Rearm
    BY <2>3 DEF Rearm
  <2>4. CASE Spawn
    BY <2>4 DEF Spawn
  <2>. QED BY <1>5, <2>1, <2>2, <2>3, <2>4 DEF VisitStep
<1>6. ASSUME NEW m \in Workers, RunStep(m) \/ Fail(m) PROVE SysInv'
  BY <1>6 DEF RunStep, Start, Stop, Fail
<1>7. CASE Receive
  BY <1>7 DEF Receive
<1>8. ASSUME NEW c \in Checks, CheckLock(c) \/ CheckRelock(c) \/ Send(c)
      PROVE  SysInv'
  BY <1>8 DEF CheckLock, CheckRelock, Send, Goto, Still
<1>9. CASE SysStep /\ Others
  BY <1>9 DEF Others, SysStep, SysGo, SysStart, SysSend, SysLoop, SysRaise,
              SysNoTotal, SysPcs
<1>10. CASE UNCHANGED vars
  BY <1>10 DEF vars
<1>. QED BY <1>1, <1>2, <1>3, <1>4, <1>5, <1>6, <1>7, <1>8, <1>9, <1>10
         DEF Next, MainStep

\* A step that leaves the flag and the goroutine alone is a stutter.
LEMMA SysFrame ==
  ASSUME ok'["sys"] = ok["sys"], (spc' = "off") = (spc = "off")
  PROVE  [Task!Next]_Task!vars
BY DEF Task!vars

LEMMA SysTaskInit == Init => Task!Init
BY ConstAssumption DEF Init, Task!Init

LEMMA SysTaskStep == TypeOK /\ SysInv /\ [Next]_vars => [Task!Next]_Task!vars
<1>. SUFFICES ASSUME TypeOK, SysInv, [Next]_vars PROVE [Task!Next]_Task!vars
  OBVIOUS
<1>. USE ConstAssumption, HereType DEF TypeOK, sysVars, mainVars, Workers, Here
<1>1. CASE EnvStep \/ TakeSignal \/ InitStep \/ Sleep
  BY <1>1, SysFrame DEF EnvStep, Edit, Signal, TakeSignal, ReadForEver, InitStep, InitAlarm,
       InitPro, InitLog, InitNext, Sleep
<1>2. CASE VisitUp \/ VisitDown
  BY <1>2, SysFrame DEF VisitUp, VisitDown, VisitNext
<1>3. CASE Rearm
  <2>1. CASE Here = "sys"
    <3>1. Task!Rearm
      BY <1>3, <2>1 DEF Rearm, Task!Rearm, SysInv
    <3>. QED BY <3>1 DEF Task!Next
  <2>2. CASE Here # "sys"
    BY <1>3, <2>2, SysFrame DEF Rearm
  <2>. QED BY <2>1, <2>2
<1>4. CASE Spawn
  <2>1. CASE Here = "sys"
    <3>1. Task!Launch("sys")
      BY <1>4, <2>1 DEF Spawn, Task!Launch, SysInv
    <3>. QED BY <3>1 DEF Task!Next
  <2>2. CASE Here # "sys"
    BY <1>4, <2>2, SysFrame DEF Spawn
  <2>. QED BY <2>1, <2>2
<1>5. ASSUME NEW m \in Workers, RunStep(m) \/ Fail(m) PROVE [Task!Next]_Task!vars
  BY <1>5, SysFrame DEF RunStep, Start, Stop, Fail
<1>6. CASE Receive
  BY <1>6, SysFrame DEF Receive
<1>7. ASSUME NEW c \in Checks, CheckLock(c) \/ CheckRelock(c) \/ Send(c)
      PROVE  [Task!Next]_Task!vars
  BY <1>7, SysFrame DEF CheckLock, CheckRelock, Send, Goto, Still
<1>8. CASE SysStep /\ Others
  <2>1. CASE SysNoTotal
    <3>1. Task!Die("sys")
      BY <2>1 DEF SysNoTotal, Task!Die
    <3>. QED BY <3>1 DEF Task!Next
  <2>2. CASE SysGo \/ SysRaise
    BY <2>2, SysFrame DEF SysGo, SysStart, SysSend, SysLoop, SysRaise, SysInv
  <2>. QED BY <1>8, <2>1, <2>2 DEF SysStep
<1>9. CASE UNCHANGED vars
  BY <1>9, SysFrame DEF vars
<1>. QED BY <1>1, <1>2, <1>3, <1>4, <1>5, <1>6, <1>7, <1>8, <1>9
         DEF Next, MainStep, VisitStep

\* The supervisor finds the system monitor's flag clear when its goroutine is
\* gone and only then, so that a monitor whose start failed is started again
\* and there is never a second one.
THEOREM SysImplementsTask == Spec => SysSupervised
BY TypeInit, TypeStep, SysInvInit, SysInvStep, SysTaskInit, SysTaskStep, PTL
   DEF Spec, SysSupervised, Task!Spec
=============================================================================
