------------------------- MODULE ProcMonitor_proofs -------------------------
(***************************************************************************)
(* Theorems about the process-restart monitor, for every set of files,     *)
(* runs and checks and every bound: type correctness, SingleMonitor,       *)
(* WatchIsCurrent and OneConfigPerCheck, that it implements                *)
(* SupervisedTask, and, where one log is configured and no two checks      *)
(* overtake each other, MailedOnce and LastAdvances.                       *)
(***************************************************************************)
EXTENDS ProcMonitor, TLAPS

-----------------------------------------------------------------------------
(* The life of the goroutines that execute StartMonit and doMonit.         *)

Active == {r \in Runs : pc[r] # "idle"}

\* SingleMonitor is preserved because the supervisor restarts the monitor
\* only while IsRunOk is FALSE, which it stays until Rearm.
LifeInv ==
  /\ SingleMonitor
  /\ main = "stopped" => ~IsRunOk
  /\ main = "rearmed" => IsRunOk /\ \A r \in Runs : pc[r] = "idle"
  /\ pc \in [Runs -> RunPcs]

LEMMA LifeInit == Init => LifeInv
BY DEF Init, LifeInv, SingleMonitor, RunPcs

\* The steps of the log file, the calendar and the checks leave pc, main and IsRunOk be.
LEMMA EnvFrame ==
  ASSUME (\E f \in Files : EnvStep(f)) \/ NewMonth \/ (\E c \in Checks : CheckStep(c))
  PROVE  UNCHANGED <<pc, main, IsRunOk, IsNeedStop, path, open>>
<1>1. ASSUME NEW f \in Files, EnvStep(f)
      PROVE  UNCHANGED <<pc, main, IsRunOk, IsNeedStop, path, open>>
  BY <1>1 DEF EnvStep, WriteLine, WriteOther, Rotate, Create, flags, super, monit
<1>2. ASSUME NEW c \in Checks, CheckStep(c)
      PROVE  UNCHANGED <<pc, main, IsRunOk, IsNeedStop, path, open>>
  BY <1>2 DEF CheckStep, CheckLock, CheckRead, CheckReadFails, CheckCompare,
              CheckRelock, CheckMail, flags, super, monit
<1>3. CASE NewMonth
  BY <1>3 DEF NewMonth, flags, super, monit
<1>. QED BY <1>1, <1>2, <1>3

\* A step of a run moves that run only, from a place where it is active, and
\* clears IsRunOk exactly when it makes the run idle.
LEMMA RunFrame ==
  ASSUME NEW r \in Runs, RunStep(r), pc \in [Runs -> RunPcs]
  PROVE  /\ pc[r] # "idle" /\ UNCHANGED main
         /\ \/ pc' = pc /\ UNCHANGED IsRunOk
            \/ \E p \in RunPcs \ {"idle"} : pc' = [pc EXCEPT ![r] = p] /\ UNCHANGED IsRunOk
            \/ pc' = [pc EXCEPT ![r] = "idle"] /\ IsRunOk' = FALSE
<1>. USE DEF flags, super, RunPcs
<1>1. CASE StartCheck(r) \/ StartArm(r) \/ StartWatch(r)
  BY <1>1 DEF StartCheck, StartArm, StartWatch
<1>2. CASE HandleModify(r) \/ TimerArm(r)
  BY <1>2 DEF HandleModify, TimerArm
<1>3. CASE HandleGone(r) \/ HandleError(r) \/ TimerStop(r)
  BY <1>3 DEF HandleGone, HandleError, TimerStop
<1>4. CASE GiveUp(r)
  BY <1>4 DEF GiveUp
<1>. QED BY <1>1, <1>2, <1>3, <1>4 DEF RunStep

LEMMA LifeStep == LifeInv /\ [Next]_vars => LifeInv'
<1>. SUFFICES ASSUME LifeInv, [Next]_vars PROVE LifeInv'
  OBVIOUS
<1>. USE DEF LifeInv, SingleMonitor
<1>1. CASE (\E f \in Files : EnvStep(f)) \/ NewMonth \/ (\E c \in Checks : CheckStep(c))
  BY <1>1, EnvFrame
<1>2. ASSUME NEW r \in Runs, RunStep(r) PROVE LifeInv'
  BY <1>2, RunFrame DEF RunPcs
<1>3. ASSUME NEW p \in NewPaths, Reload(p) PROVE LifeInv'
  BY <1>3 DEF Reload, flags
<1>4. CASE InitConfStep
  BY <1>4 DEF InitConfStep, InitLock, InitPath, InitCheck, InitStop, flags
<1>5. CASE Tick \/ Rearm
  BY <1>5 DEF Tick, Rearm
<1>6. ASSUME NEW r \in Runs, Spawn(r) PROVE LifeInv'
  BY <1>6 DEF Spawn, flags, RunPcs
<1>7. CASE UNCHANGED vars
  BY <1>7 DEF vars, flags, super
<1>. QED BY <1>1, <1>2, <1>3, <1>4, <1>5, <1>6, <1>7 DEF Next, SuperviseStep

\* At most one goroutine executes the monitor, and none while IsRunOk is
\* FALSE: the supervisor never starts it twice.
THEOREM SingleMonitorHolds == Spec => []SingleMonitor
BY LifeInit, LifeStep, PTL DEF Spec, LifeInv

\* The monitor implements SupervisedTask, the worker set being the runs that
\* are not idle.
THEOREM ImplementsTask == Spec => SupervisedSpec
<1>1. Init => Task!Init
  BY DEF Init, Task!Init
<1>2. LifeInv /\ LifeInv' /\ [Next]_vars => [Task!Next]_(Task!vars)
  <2>. SUFFICES ASSUME LifeInv, LifeInv', [Next]_vars
                PROVE  Task!Next \/ UNCHANGED <<IsRunOk, Active>>
    BY DEF Task!vars, Active
  <2>. USE DEF LifeInv, SingleMonitor, Active
  <2>1. CASE (\E f \in Files : EnvStep(f)) \/ NewMonth \/ (\E c \in Checks : CheckStep(c))
    BY <2>1, EnvFrame
  <2>2. ASSUME NEW r \in Runs, RunStep(r)
        PROVE  Task!Next \/ UNCHANGED <<IsRunOk, Active>>
    <3>1. CASE pc' = [pc EXCEPT ![r] = "idle"] /\ IsRunOk' = FALSE
      <4>1. Active = {r} /\ Active' = {}
        BY <2>2, <3>1, RunFrame
      <4>2. Task!Die(r)
        BY <3>1, <4>1 DEF Task!Die
      <4>. QED BY <4>2 DEF Task!Next
    <3>2. CASE pc' = pc /\ UNCHANGED IsRunOk
      BY <3>2
    <3>3. ASSUME NEW p \in RunPcs \ {"idle"}, pc' = [pc EXCEPT ![r] = p], UNCHANGED IsRunOk
          PROVE  UNCHANGED <<IsRunOk, Active>>
      <4>1. pc[r] # "idle" /\ pc \in [Runs -> RunPcs]
        BY <2>2, RunFrame
      <4>2. \A q \in Runs : (pc'[q] # "idle") <=> (pc[q] # "idle")
        BY <3>3, <4>1
      <4>. QED BY <3>3, <4>2
    <3>. QED BY <2>2, <3>1, <3>2, <3>3, RunFrame
  <2>3. ASSUME NEW p \in NewPaths, Reload(p) PROVE UNCHANGED <<IsRunOk, Active>>
    BY <2>3 DEF Reload, flags
  <2>4. CASE InitConfStep
    BY <2>4 DEF InitConfStep, InitLock, InitPath, InitCheck, InitStop, flags
  <2>5. CASE Tick
    BY <2>5 DEF Tick
  <2>6. CASE Rearm
    <3>1. Task!Rearm
      BY <2>6 DEF Rearm, Task!Rearm
    <3>. QED BY <3>1 DEF Task!Next
  <2>7. ASSUME NEW r \in Runs, Spawn(r) PROVE Task!Next
    <3>1. Active = {} /\ Active' = {r} /\ IsRunOk /\ UNCHANGED IsRunOk
      BY <2>7 DEF Spawn, flags
    <3>2. Task!Launch(r)
      BY <3>1 DEF Task!Launch
    <3>. QED BY <3>2 DEF Task!Next
  <2>8. CASE UNCHANGED vars
    BY <2>8 DEF vars, flags
  <2>. QED BY <2>1, <2>2, <2>3, <2>4, <2>5, <2>6, <2>7, <2>8 DEF Next, SuperviseStep
<1>. QED BY <1>1, <1>2, LifeInit, LifeStep, PTL DEF Spec, SupervisedSpec, Task!Spec

-----------------------------------------------------------------------------
(* Type correctness.  TimerStop may release an inotify instance: there is  *)
(* one, because the run it stops has created it.                           *)

OpenInv == \A r \in Runs : pc[r] = "loop" => open > 0

TypeInv == TypeOK /\ OpenInv

LEMMA TypeInit == Init => TypeInv
<1>. SUFFICES ASSUME Init PROVE TypeInv
  OBVIOUS
<1>. USE ConstAssumption DEF Init
<1>1. /\ IsRunOk \in BOOLEAN /\ IsconfigOk \in BOOLEAN
      /\ IsNeedStop \in BOOLEAN /\ IsNeedToChk \in BOOLEAN
  <2>1. IsconfigOk = (path \in present)
    OBVIOUS
  <2>2. (path \in present) \in BOOLEAN
    OBVIOUS
  <2>. QED BY <2>1, <2>2
<1>2. path \in Paths /\ newPath \in Paths /\ watch \in Paths /\ present \subseteq Files
  BY DEF Paths
<1>3. /\ events \in Seq({"modify", "gone"}) /\ open \in 0 .. MaxWatchers
      /\ last \in 0 .. MaxLines /\ written \in 0 .. MaxLines
      /\ reloads \in 0 .. MaxReloads /\ faults \in 0 .. MaxFaults
  OBVIOUS
<1>4. cpc \in [Checks -> CheckPcs] /\ snap \in [Checks -> 0 .. MaxLines]
      /\ src \in [Checks -> Paths] /\ asOf \in [Checks -> Months] /\ month \in Months
  BY DEF CheckPcs, Paths, Months
<1>5. content \in [Files -> SUBSET Lines] /\ marks \in [Lines -> SUBSET MonthStrs]
      /\ mails \in [Lines \X Months -> 0 .. MaxMails]
  OBVIOUS
<1>6. pc \in [Runs -> RunPcs] /\ main \in MainPcs /\ OpenInv
  BY DEF RunPcs, MainPcs, OpenInv
<1>. QED BY <1>1, <1>2, <1>3, <1>4, <1>5, <1>6 DEF TypeInv, TypeOK

\* Counting mails up to a bound.
LEMMA MailsTyped ==
  ASSUME mails \in [Lines \X Months -> 0 .. MaxMails], NEW c \in Checks, CheckMail(c)
  PROVE  mails' \in [Lines \X Months -> 0 .. MaxMails]
<1>. DEFINE S == Lines \X Months
            Up(x) == IF x < MaxMails THEN x + 1 ELSE x
<1>1. \A x \in 0 .. MaxMails : Up(x) \in 0 .. MaxMails
  BY ConstAssumption
<1>2. CASE UNCHANGED mails
  BY <1>2
<1>3. ASSUME NEW k, mails' = [mails EXCEPT ![k] = Up(@)]
      PROVE  mails' \in [S -> 0 .. MaxMails]
  <2>. HIDE DEF S, Up
  <2>1. mails \in [S -> 0 .. MaxMails]
    BY DEF S
  <2>2. mails' = [y \in S |-> IF y = k THEN Up(mails[y]) ELSE mails[y]]
    BY <1>3, <2>1
  <2>3. \A y \in S : mails[y] \in 0 .. MaxMails
    BY <2>1
  <2>4. \A y \in S : (IF y = k THEN Up(mails[y]) ELSE mails[y]) \in 0 .. MaxMails
    BY <1>1, <2>3
  <2>. QED BY <2>2, <2>4
<1>4. UNCHANGED mails \/ \E k : mails' = [mails EXCEPT ![k] = Up(@)]
  BY DEF CheckMail
<1>. QED BY <1>2, <1>3, <1>4

LEMMA TypeStep == LifeInv /\ TypeInv /\ [Next]_vars => TypeInv'
<1>. SUFFICES ASSUME LifeInv, TypeInv, [Next]_vars PROVE TypeInv'
  OBVIOUS
<1>. USE ConstAssumption
     DEF TypeInv, TypeOK, OpenInv, flags, monit, check, disk, super
<1>1. ASSUME NEW f \in Files, EnvStep(f) PROVE TypeInv'
  <2>1. CASE WriteLine(f)
    <3>1. written' = written + 1 /\ written' \in Lines /\ written' \in 0 .. MaxLines
      BY <2>1 DEF WriteLine, Lines
    <3>2. content' \in [Files -> SUBSET Lines]
      BY <2>1, <3>1 DEF WriteLine
    <3>3. marks' \in [Lines -> SUBSET MonthStrs]
      <4>1. PICK S \in SUBSET Strays :
              marks' = [marks EXCEPT ![written + 1] = S \cup {MonthStr(month)}]
        BY <2>1 DEF WriteLine
      <4>2. S \cup {MonthStr(month)} \in SUBSET MonthStrs
        BY DEF MonthStrs
      <4>3. marks \in [Lines -> SUBSET MonthStrs]
        OBVIOUS
      <4>. QED BY <4>1, <4>2, <4>3, Zenon
    <3>4. events' \in Seq({"modify", "gone"})
      BY <2>1 DEF WriteLine, Notify
    <3>. QED BY <2>1, <3>1, <3>2, <3>3, <3>4 DEF WriteLine
  <2>2. CASE WriteOther(f)
    BY <2>2 DEF WriteOther, Notify
  <2>3. CASE Rotate(f)
    <3>1. events' \in Seq({"modify", "gone"})
      <4>1. CASE watch # f
        BY <2>3, <4>1 DEF Rotate
      <4>2. CASE watch = f
        <5>1. PICK kept \in {<<>>, events} : events' = Append(kept, "gone")
          BY <2>3, <4>2 DEF Rotate
        <5>2. kept \in Seq({"modify", "gone"})
          <6>1. <<>> \in Seq({"modify", "gone"})
            OBVIOUS
          <6>2. kept = <<>> \/ kept = events
            BY <5>1, Zenon
          <6>. QED BY <6>1, <6>2, Zenon
        <5>. QED BY <5>1, <5>2
      <4>. QED BY <4>1, <4>2
    <3>2. watch' \in Paths /\ present' \subseteq Files
      BY <2>3 DEF Rotate, Paths
    <3>3. faults' \in 0 .. MaxFaults /\ content' \in [Files -> SUBSET Lines]
      BY <2>3 DEF Rotate
    <3>. QED BY <2>3, <3>1, <3>2, <3>3 DEF Rotate
  <2>4. CASE Create(f)
    BY <2>4 DEF Create
  <2>. QED BY <1>1, <2>1, <2>2, <2>3, <2>4 DEF EnvStep
<1>2. ASSUME NEW r \in Runs, RunStep(r) PROVE TypeInv'
  <2>. USE DEF RunPcs
  <2>1. CASE StartCheck(r)
    BY <2>1 DEF StartCheck
  <2>2. CASE StartArm(r)
    BY <2>2 DEF StartArm
  <2>3. CASE StartWatch(r)
    <3>1. CASE open = MaxWatchers
      BY <2>3, <3>1 DEF StartWatch
    <3>2. CASE open # MaxWatchers
      <4>1. open' = open + 1 /\ events' = <<>> /\ watch' \in {path, NoFile}
        BY <2>3, <3>2 DEF StartWatch
      <4>2. pc' \in [Runs -> RunPcs]
        <5>1. \E p \in {"loop", "failing"} : pc' = [pc EXCEPT ![r] = p]
          BY <2>3, <3>2 DEF StartWatch
        <5>. QED BY <5>1
      <4>3. open' \in 0 .. MaxWatchers /\ open' > 0
        BY <3>2, <4>1
      <4>4. watch' \in Paths /\ events' \in Seq({"modify", "gone"})
        BY <4>1 DEF Paths
      <4>. QED BY <2>3, <4>2, <4>3, <4>4 DEF StartWatch
    <3>. QED BY <3>1, <3>2
  <2>4. CASE HandleModify(r)
    <3>1. events' \in Seq({"modify", "gone"})
      <4>1. events # <<>> /\ events' = Tail(events)
        BY <2>4 DEF HandleModify
      <4>. QED BY <4>1
    <3>2. cpc' \in [Checks -> CheckPcs]
      BY <2>4 DEF HandleModify, CheckPcs
    <3>. QED BY <2>4, <3>1, <3>2 DEF HandleModify
  <2>5. CASE HandleGone(r)
    BY <2>5 DEF HandleGone, Paths
  <2>6. CASE HandleError(r)
    BY <2>6 DEF HandleError, Paths
  <2>7. CASE TimerStop(r)
    <3>1. \A s \in Runs : pc'[s] # "loop"
      BY <2>7 DEF TimerStop, LifeInv, SingleMonitor
    <3>. QED BY <2>7, <3>1 DEF TimerStop, Paths
  <2>8. CASE TimerArm(r)
    BY <2>8 DEF TimerArm
  <2>9. CASE GiveUp(r)
    BY <2>9 DEF GiveUp
  <2>. QED BY <1>2, <2>1, <2>2, <2>3, <2>4, <2>5, <2>6, <2>7, <2>8, <2>9 DEF RunStep
<1>3. ASSUME NEW c \in Checks, CheckStep(c) PROVE TypeInv'
  <2>. USE DEF Goto, CheckPcs
  <2>0. ASSUME Leave(c)
        PROVE  /\ snap' \in [Checks -> 0 .. MaxLines] /\ src' \in [Checks -> Paths]
               /\ asOf' \in [Checks -> Months]
    BY <2>0 DEF Leave, Paths, Months
  <2>1. CASE CheckLock(c) \/ CheckRelock(c)
    BY <2>1 DEF CheckLock, CheckRelock
  <2>2. CASE CheckRead(c)
    <3>1. cpc' \in [Checks -> CheckPcs]
      BY <2>2 DEF CheckRead
    <3>2. CASE Found = {} /\ UNCHANGED <<snap, src, asOf>>
      BY <2>2, <3>1, <3>2 DEF CheckRead
    <3>3. ASSUME NEW n \in Newest(Found), snap' = [snap EXCEPT ![c] = n],
                 src' = [src EXCEPT ![c] = path], asOf' = [asOf EXCEPT ![c] = month]
          PROVE  TypeInv'
      <4>1. n \in 0 .. MaxLines
        BY DEF Newest, Found, Lines
      <4>2. snap' \in [Checks -> 0 .. MaxLines] /\ src' \in [Checks -> Paths]
            /\ asOf' \in [Checks -> Months]
        BY <3>3, <4>1
      <4>. QED BY <2>2, <3>1, <4>2 DEF CheckRead
    <3>. QED BY <2>2, <3>2, <3>3 DEF CheckRead
  <2>3. CASE CheckReadFails(c)
    BY <2>3 DEF CheckReadFails
  <2>4. CASE CheckCompare(c)
    <3>1. cpc' \in [Checks -> CheckPcs] /\ last' \in 0 .. MaxLines
      BY <2>4 DEF CheckCompare
    <3>2. snap' \in [Checks -> 0 .. MaxLines] /\ src' \in [Checks -> Paths]
          /\ asOf' \in [Checks -> Months]
      BY <2>0, <2>4 DEF CheckCompare
    <3>. QED BY <2>4, <3>1, <3>2 DEF CheckCompare
  <2>5. CASE CheckMail(c)
    <3>1. mails' \in [Lines \X Months -> 0 .. MaxMails]
      BY <2>5, MailsTyped
    <3>2. cpc' \in [Checks -> CheckPcs]
      BY <2>5 DEF CheckMail
    <3>. QED BY <2>0, <2>5, <3>1, <3>2 DEF CheckMail
  <2>. QED BY <1>3, <2>1, <2>2, <2>3, <2>4, <2>5 DEF CheckStep
<1>4. ASSUME NEW p \in NewPaths, Reload(p) PROVE TypeInv'
  BY <1>4 DEF Reload, MainPcs, Paths
<1>5. CASE InitConfStep
  <2>. USE DEF MainPcs, Paths
  <2>1. CASE InitLock \/ InitPath \/ InitStop
    BY <2>1 DEF InitLock, InitPath, InitStop
  <2>2. CASE InitCheck
    <3>1. IsconfigOk' \in BOOLEAN
      <4>1. IsconfigOk' = (path \in present)
        BY <2>2 DEF InitCheck
      <4>2. (path \in present) \in BOOLEAN
        OBVIOUS
      <4>. QED BY <4>1, <4>2
    <3>. QED BY <2>2, <3>1 DEF InitCheck
  <2>. QED BY <1>5, <2>1, <2>2 DEF InitConfStep
<1>6. CASE SuperviseStep
  BY <1>6 DEF SuperviseStep, Tick, Rearm, Spawn, MainPcs, RunPcs
<1>7. CASE NewMonth
  BY <1>7 DEF NewMonth, Months
<1>8. CASE UNCHANGED vars
  BY <1>8 DEF vars
<1>. QED BY <1>1, <1>2, <1>3, <1>4, <1>5, <1>6, <1>7, <1>8 DEF Next

\* Every state of the monitor is well typed; in particular it never holds more
\* inotify instances than it is granted, and never releases one it has not.
THEOREM TypeCorrect == Spec => []TypeOK
BY LifeInit, LifeStep, TypeInit, TypeStep, PTL DEF Spec, TypeInv

-----------------------------------------------------------------------------
(* WatchIsCurrent.                                                         *)

LEMMA WatchStep == LifeInv /\ TypeOK /\ WatchIsCurrent /\ [Next]_vars => WatchIsCurrent'
<1>. SUFFICES ASSUME LifeInv, TypeOK, WatchIsCurrent, [Next]_vars PROVE WatchIsCurrent'
  OBVIOUS
<1>. USE DEF WatchIsCurrent, flags, monit, check, disk, super
<1>0. events \in Seq({"modify", "gone"}) /\ pc \in [Runs -> RunPcs]
  BY DEF TypeOK
<1>1. ASSUME NEW f \in Files, EnvStep(f) PROVE WatchIsCurrent'
  <2>0. UNCHANGED <<pc, main, IsNeedStop, path>>
    BY <1>1, EnvFrame
  <2>1. CASE Rotate(f)
    <3>1. CASE watch = f
      <4>1. PICK kept \in {<<>>, events} : events' = Append(kept, "gone")
        BY <2>1, <3>1 DEF Rotate
      <4>2. \E i \in DOMAIN events' : events'[i] = "gone"
        <5>1. Len(kept) + 1 \in DOMAIN events' /\ events'[Len(kept) + 1] = "gone"
          BY <1>0, <4>1
        <5>. QED BY <5>1
      <4>. QED BY <4>2
    <3>2. CASE watch # f
      BY <2>0, <2>1, <3>2 DEF Rotate
    <3>. QED BY <3>1, <3>2
  <2>2. CASE WriteLine(f) \/ WriteOther(f)
    <3>1. UNCHANGED watch /\ (events' = events \/ events' = Append(events, "modify"))
      BY <2>2 DEF WriteLine, WriteOther, Notify
    <3>2. \A i \in DOMAIN events : i \in DOMAIN events' /\ events'[i] = events[i]
      BY <1>0, <3>1
    <3>. QED BY <2>0, <3>1, <3>2
  <2>3. CASE Create(f)
    BY <2>0, <2>3 DEF Create
  <2>. QED BY <1>1, <2>1, <2>2, <2>3 DEF EnvStep
<1>2. ASSUME NEW r \in Runs, RunStep(r) PROVE WatchIsCurrent'
  <2>0. \A s \in Runs : s # r => pc[s] = "idle" /\ pc'[s] = "idle"
    BY <1>2, RunFrame DEF LifeInv, SingleMonitor
  <2>1. CASE HandleModify(r)
    <3>1. /\ events # <<>> /\ Head(events) = "modify" /\ events' = Tail(events)
          /\ UNCHANGED <<pc, watch, path, main, IsNeedStop>>
      BY <2>1 DEF HandleModify
    <3>2. ASSUME NEW i \in DOMAIN events, events[i] = "gone"
          PROVE  \E j \in DOMAIN events' : events'[j] = "gone"
      <4>1. i \in 2 .. Len(events)
        BY <1>0, <3>1, <3>2
      <4>2. i - 1 \in DOMAIN events' /\ events'[i - 1] = events[i]
        BY <1>0, <3>1, <4>1
      <4>. QED BY <3>2, <4>2
    <3>. QED BY <3>1, <3>2
  <2>2. CASE StartWatch(r)
    BY <1>0, <2>0, <2>2 DEF StartWatch, RunPcs
  <2>3. CASE StartCheck(r) \/ StartArm(r) \/ HandleGone(r) \/ HandleError(r)
             \/ TimerStop(r) \/ GiveUp(r)
    BY <1>0, <2>0, <2>3 DEF StartCheck, StartArm, HandleGone, HandleError,
                            TimerStop, GiveUp, RunPcs
  <2>4. CASE TimerArm(r)
    BY <2>4 DEF TimerArm
  <2>. QED BY <1>2, <2>1, <2>2, <2>3, <2>4 DEF RunStep
<1>3. ASSUME NEW c \in Checks, CheckStep(c) PROVE WatchIsCurrent'
  <2>1. UNCHANGED <<watch, events>>
    BY <1>3 DEF CheckStep, CheckLock, CheckRead, CheckReadFails, CheckCompare,
                CheckRelock, CheckMail
  <2>. QED BY <1>3, <2>1, EnvFrame
<1>4. ASSUME NEW p \in NewPaths, Reload(p) PROVE WatchIsCurrent'
  BY <1>4 DEF Reload
<1>5. CASE InitConfStep
  BY <1>5 DEF InitConfStep, InitLock, InitPath, InitCheck, InitStop
<1>6. CASE Tick \/ Rearm
  BY <1>6 DEF Tick, Rearm
<1>7. ASSUME NEW r \in Runs, Spawn(r) PROVE WatchIsCurrent'
  BY <1>0, <1>7 DEF Spawn, LifeInv
<1>8. CASE NewMonth
  BY <1>8 DEF NewMonth
<1>9. CASE UNCHANGED vars
  BY <1>9 DEF vars
<1>. QED BY <1>1, <1>2, <1>3, <1>4, <1>5, <1>6, <1>7, <1>8, <1>9 DEF Next, SuperviseStep

\* No reload is ever lost on a running monitor.
THEOREM WatchIsCurrentHolds == Spec => []WatchIsCurrent
<1>1. Init => WatchIsCurrent
  BY DEF Init, WatchIsCurrent
<1>. QED BY <1>1, WatchStep, LifeInit, LifeStep, TypeCorrect, PTL DEF Spec

-----------------------------------------------------------------------------
(* OneConfigPerCheck.                                                      *)

\* _mutex_3: InitConf writes only while no check holds it for reading.
CheckInv ==
  /\ OneConfigPerCheck
  /\ main \in {"path", "check", "stop"} => Readers = {}

\* A check compares and mails in the configuration it has read the file in.
THEOREM OneConfigPerCheckHolds == Spec => []OneConfigPerCheck
<1>1. Init => CheckInv
  BY DEF Init, CheckInv, OneConfigPerCheck
<1>2. TypeOK /\ CheckInv /\ [Next]_vars => CheckInv'
  <2>. SUFFICES ASSUME TypeOK, CheckInv, [Next]_vars PROVE CheckInv'
    OBVIOUS
  <2>. USE DEF CheckInv, OneConfigPerCheck, Readers, flags, monit, check, disk, super
  <2>0. cpc \in [Checks -> CheckPcs] /\ src \in [Checks -> Paths]
    BY DEF TypeOK
  <2>1. ASSUME NEW f \in Files, EnvStep(f) PROVE CheckInv'
    BY <2>1 DEF EnvStep, WriteLine, WriteOther, Rotate, Create
  <2>2. ASSUME NEW r \in Runs, RunStep(r) PROVE CheckInv'
    <3>1. CASE HandleModify(r)
      BY <2>0, <3>1 DEF HandleModify
    <3>2. CASE ~HandleModify(r)
      BY <2>2, <3>2 DEF RunStep, StartCheck, StartArm, StartWatch, HandleGone,
                        HandleError, TimerStop, TimerArm, GiveUp
    <3>. QED BY <3>1, <3>2
  <2>3. ASSUME NEW c \in Checks, CheckStep(c) PROVE CheckInv'
    <3>. USE DEF Goto
    <3>0. UNCHANGED <<main, path>>
      BY <2>3, EnvFrame
    <3>1. CASE CheckLock(c) \/ CheckRelock(c)
      BY <2>0, <3>0, <3>1 DEF CheckLock, CheckRelock, WriterAhead
    <3>2. CASE CheckRead(c)
      BY <2>0, <3>0, <3>2 DEF CheckRead
    <3>3. CASE CheckReadFails(c)
      BY <2>0, <3>0, <3>3 DEF CheckReadFails
    <3>4. CASE CheckCompare(c) \/ CheckMail(c)
      BY <2>0, <3>0, <3>4 DEF CheckCompare, CheckMail, Leave
    <3>. QED BY <2>3, <3>1, <3>2, <3>3, <3>4 DEF CheckStep
  <2>4. ASSUME NEW p \in NewPaths, Reload(p) PROVE CheckInv'
    BY <2>4 DEF Reload
  <2>5. CASE InitConfStep
    BY <2>5 DEF InitConfStep, InitLock, InitPath, InitCheck, InitStop
  <2>6. CASE SuperviseStep
    BY <2>6 DEF SuperviseStep, Tick, Rearm, Spawn
  <2>7. CASE NewMonth
    BY <2>7 DEF NewMonth
  <2>8. CASE UNCHANGED vars
    BY <2>8 DEF vars
  <2>. QED BY <2>1, <2>2, <2>3, <2>4, <2>5, <2>6, <2>7, <2>8 DEF Next
<1>. QED BY <1>1, <1>2, TypeCorrect, PTL DEF Spec, CheckInv

-----------------------------------------------------------------------------
(* MailedOnce and LastAdvances.  Neither holds of the monitor as it is:    *)
(* proModify reads the file before it takes _mutex_1, so that two checks   *)
(* can compare in the opposite order, and lastAlarmData outlives a reload  *)
(* to another file.  They hold when neither happens, which is what the     *)
(* theorems assume: f is the only log that is ever configured, and         *)
(* SerialChecks.  Nothing is assumed of the calendar, nor of the strings   *)
(* that occur in a line besides its month's.                               *)

Comparing == {c \in Checks : cpc[c] = "compare"}
Mailing == {c \in Checks : cpc[c] \in {"relock", "parse"}}

\* A check of month m finds line n, if it is still in the file.
Shows(n, m) == MonthStr(m) \in marks[n]

\* Line n is still in the file, or everything that is in it is younger.
Kept(f, n) == n \in content[f] \/ \A k \in content[f] : n < k

\* Line n has been mailed by a check of month m, or is about to be.
Told(n, m) == \/ mails[<<n, m>>] # 0
              \/ \E c \in Mailing : snap[c] = n /\ asOf[c] = m

\* What a check compares is not older than lastAlarmData, unless its month
\* does not show lastAlarmData.
LastInv(f) ==
  /\ {path, newPath} \subseteq {f, NoFile}
  /\ last <= written /\ Kept(f, last)
  /\ \A k \in content[f] : k <= written
  /\ \A c, d \in Comparing : c = d
  /\ \A c \in Comparing :
       /\ snap[c] \in 1 .. written /\ Kept(f, snap[c])
       /\ asOf[c] <= month /\ Shows(snap[c], asOf[c])
       /\ last <= snap[c] \/ ~Shows(last, asOf[c])

\* Months pass in order, for the checks too; and as long as checks of a month
\* may come, lastAlarmData is the last line they have told of.
ToldInv ==
  \A n \in Lines, m \in Months : Told(n, m) =>
    /\ m <= month /\ \A c \in Comparing : m <= asOf[c]
    /\ (m = month \/ \E c \in Comparing : asOf[c] = m) => n <= last /\ Shows(last, m)

\* No two checks of a month are about to mail the same line, nor one that was
\* mailed by that month.
OnceInv ==
  /\ \A c \in Mailing : snap[c] \in 1 .. written /\ mails[<<snap[c], asOf[c]>>] = 0
  /\ \A c, d \in Mailing : snap[c] = snap[d] /\ asOf[c] = asOf[d] => c = d
  /\ MailedOnce

MailInv(f) == LastInv(f) /\ ToldInv /\ OnceInv

LEMMA MailInit ==
  ASSUME NEW f \in Files, NewPaths \subseteq {f, NoFile}
  PROVE  Init => MailInv(f)
<1>. SUFFICES ASSUME Init PROVE MailInv(f)
  OBVIOUS
<1>1. Comparing = {} /\ Mailing = {}
  BY DEF Init, Comparing, Mailing
<1>2. LastInv(f)
  BY <1>1 DEF Init, LastInv, Kept
<1>3. \A n \in Lines, m \in Months : mails[<<n, m>>] = 0
  BY DEF Init
<1>. QED BY <1>1, <1>2, <1>3 DEF MailInv, ToldInv, Told, OnceInv, MailedOnce

\* A step that leaves the lines, the checks and the paths be.
LEMMA MailFrame ==
  ASSUME NEW f \in Files, MailInv(f),
         UNCHANGED <<check, content, marks, month, written, path, newPath>>
  PROVE  MailInv(f)'
BY DEF MailInv, LastInv, ToldInv, Told, OnceInv, MailedOnce, Comparing, Mailing,
       Shows, Kept, check

\* Told, the checks that compare and those that mail, when the checks stand
\* still.
LEMMA CheckFrame ==
  ASSUME UNCHANGED check
  PROVE  /\ Comparing' = Comparing /\ Mailing' = Mailing
         /\ \A n, m : Told(n, m)' = Told(n, m)
         /\ UNCHANGED <<cpc, snap, asOf, last, mails>>
BY DEF Comparing, Mailing, Told, check

\* A new line is younger than every other one.
LEMMA MailWrite ==
  ASSUME NEW f \in Files, NEW g \in Files, TypeOK, MailInv(f), WriteLine(g)
  PROVE  MailInv(f)'
<1>. USE ConstAssumption
<1>1. /\ UNCHANGED <<check, path, newPath, month>> /\ written' = written + 1
      /\ written \in Nat /\ written + 1 \in Lines
  BY DEF WriteLine, TypeOK, super, Lines
<1>2. content'[f] \in {content[f], content[f] \cup {written + 1}}
  BY DEF WriteLine, TypeOK
<1>3. \A n \in 1 .. written : \A m : Shows(n, m)' = Shows(n, m)
  <2>1. \A n \in 1 .. written : n \in Lines /\ n # written + 1
    BY <1>1 DEF Lines
  <2>2. PICK S : marks' = [marks EXCEPT ![written + 1] = S]
    BY DEF WriteLine
  <2>3. \A n \in 1 .. written : marks'[n] = marks[n]
    BY <2>1, <2>2 DEF TypeOK
  <2>. QED BY <2>3 DEF Shows
<1>4. \A n \in 0 .. written : Kept(f, n) => Kept(f, n)'
  BY <1>1, <1>2 DEF Kept
<1>5. last \in Nat /\ last <= written /\ asOf \in [Checks -> Months]
  BY DEF TypeOK, MailInv, LastInv
<1>6. LastInv(f)'
  <2>1. \A k \in content'[f] : k <= written'
    BY <1>1, <1>2 DEF MailInv, LastInv, TypeOK, Lines
  <2>2. Kept(f, last)'
    BY <1>1, <1>4, <1>5, CheckFrame DEF MailInv, LastInv
  <2>3. ASSUME NEW c \in Comparing
        PROVE  /\ snap'[c] \in 1 .. written' /\ Kept(f, snap[c])'
               /\ asOf'[c] <= month' /\ Shows(snap[c], asOf[c])'
               /\ last' <= snap'[c] \/ ~Shows(last, asOf[c])'
    <3>1. /\ snap[c] \in 1 .. written /\ Kept(f, snap[c]) /\ asOf[c] <= month
          /\ Shows(snap[c], asOf[c])
          /\ last <= snap[c] \/ ~Shows(last, asOf[c])
      BY DEF MailInv, LastInv
    <3>2. last = 0 \/ last \in 1 .. written
      BY <1>1, <1>5
    <3>3. UNCHANGED <<snap, asOf, last, month>>
      BY <1>1, CheckFrame
    <3>4. Kept(f, snap[c])'
      BY <1>1, <1>4, <3>1, <3>3
    <3>5. Shows(snap[c], asOf[c])'
      BY <1>3, <3>1, <3>3
    <3>6. last <= snap[c] \/ ~Shows(last, asOf[c])'
      BY <1>3, <3>1, <3>2, <3>3
    <3>. QED BY <1>1, <3>1, <3>3, <3>4, <3>5, <3>6
  <2>4. last' <= written'
    BY <1>1, <1>5, CheckFrame
  <2>. QED BY <1>1, <2>1, <2>2, <2>3, <2>4, CheckFrame DEF LastInv, MailInv
<1>7. ToldInv'
  <2>. SUFFICES ASSUME NEW n \in Lines, NEW m \in Months, Told(n, m)'
                PROVE  /\ m <= month' /\ \A c \in Comparing' : m <= asOf'[c]
                       /\ (m = month' \/ \E c \in Comparing' : asOf'[c] = m)
                            => n <= last' /\ Shows(last, m)'
    BY DEF ToldInv
  <2>1. Told(n, m) /\ UNCHANGED <<last, asOf, month>> /\ Comparing' = Comparing
    BY <1>1, CheckFrame
  <2>2. /\ m <= month /\ \A c \in Comparing : m <= asOf[c]
        /\ (m = month \/ \E c \in Comparing : asOf[c] = m) => n <= last /\ Shows(last, m)
    BY <2>1 DEF MailInv, ToldInv
  <2>3. n <= last => last \in 1 .. written
    BY <1>1, <1>5 DEF Lines
  <2>4. n <= last => Shows(last, m)' = Shows(last, m)
    BY <1>3, <2>1, <2>3
  <2>. QED BY <2>1, <2>2, <2>4
<1>8. OnceInv'
  BY <1>1, CheckFrame DEF MailInv, OnceInv, MailedOnce
<1>. QED BY <1>6, <1>7, <1>8 DEF MailInv

\* A log that is gone has no line older than any other.
LEMMA MailRotate ==
  ASSUME NEW f \in Files, NEW g \in Files, TypeOK, MailInv(f), Rotate(g)
  PROVE  MailInv(f)'
<1>1. UNCHANGED <<check, marks, month, written, path, newPath>>
  BY DEF Rotate, super
<1>2. content'[f] \in {content[f], {}}
  BY DEF Rotate, TypeOK
<1>3. \A n : Kept(f, n) => Kept(f, n)'
  BY <1>2 DEF Kept
<1>4. \A n, m : Shows(n, m)' = Shows(n, m)
  BY <1>1 DEF Shows
<1>5. LastInv(f)'
  BY <1>1, <1>2, <1>3, <1>4, CheckFrame DEF MailInv, LastInv
<1>6. ToldInv'
  BY <1>1, <1>4, CheckFrame DEF MailInv, ToldInv
<1>7. OnceInv'
  BY <1>1, CheckFrame DEF MailInv, OnceInv, MailedOnce
<1>. QED BY <1>5, <1>6, <1>7 DEF MailInv

\* Nothing was told in a month that has just begun.
LEMMA MailMonth ==
  ASSUME NEW f \in Files, TypeOK, MailInv(f), NewMonth
  PROVE  MailInv(f)'
<1>. USE ConstAssumption
<1>1. UNCHANGED <<check, marks, content, written, path, newPath>> /\ month' = month + 1
  BY DEF NewMonth, super
<1>2. \A n, m : Shows(n, m)' = Shows(n, m) /\ Kept(f, n)' = Kept(f, n)
  BY <1>1 DEF Shows, Kept
<1>3. asOf \in [Checks -> Months] /\ month \in Nat /\ Months \subseteq Nat
  BY DEF TypeOK, Months
<1>4. LastInv(f)'
  <2>1. ASSUME NEW c \in Comparing, asOf[c] <= month PROVE asOf[c] <= month'
    <3>1. asOf[c] \in Nat
      BY <1>3 DEF Comparing
    <3>. QED BY <1>1, <1>3, <2>1, <3>1
  <2>. QED BY <1>1, <1>2, <2>1, CheckFrame DEF MailInv, LastInv
<1>5. ToldInv'
  <2>1. ASSUME NEW n \in Lines, NEW m \in Months, Told(n, m)
        PROVE  m <= month' /\ m # month'
    <3>1. m <= month
      BY <2>1 DEF MailInv, ToldInv
    <3>. QED BY <1>1, <1>3, <3>1
  <2>. QED BY <1>1, <1>2, <2>1, CheckFrame DEF MailInv, ToldInv
<1>6. OnceInv'
  BY <1>1, CheckFrame DEF MailInv, OnceInv, MailedOnce
<1>. QED BY <1>4, <1>5, <1>6 DEF MailInv

\* A line that is read is the last one of the file that its month shows.
LEMMA MailRead ==
  ASSUME SerialChecks, NEW f \in Files, NEW c \in Checks, TypeOK, MailInv(f),
         CheckRead(c)
  PROVE  MailInv(f)'
<1>. USE ConstAssumption DEF Goto
<1>0. /\ cpc \in [Checks -> CheckPcs] /\ snap \in [Checks -> 0 .. MaxLines]
      /\ asOf \in [Checks -> Months] /\ month \in Nat /\ Months \subseteq Nat
  BY DEF TypeOK, Months
<1>1. UNCHANGED <<content, marks, month, written, path, newPath, last, mails>>
  BY DEF CheckRead, disk, super
<1>2. Comparing = {} /\ Mailing' = Mailing /\ Comparing' \subseteq {c} /\ c \notin Mailing
  BY <1>0 DEF CheckRead, Comparing, Mailing
<1>3. \A d \in Checks : d # c => snap'[d] = snap[d] /\ asOf'[d] = asOf[d]
  BY <1>0 DEF CheckRead
<1>4. \A n, m : /\ Shows(n, m)' = Shows(n, m) /\ Kept(f, n)' = Kept(f, n)
  BY <1>1 DEF Shows, Kept
<1>5. \A n, m : Told(n, m)' = Told(n, m)
  BY <1>1, <1>2, <1>3 DEF Told, Mailing
<1>6. ASSUME c \in Comparing'
      PROVE  /\ asOf'[c] = month /\ snap'[c] \in content[f]
             /\ Shows(snap'[c], month)
             /\ \A k \in content[f] : Shows(k, month) => k <= snap'[c]
  <2>1. cpc'[c] = "compare"
    BY <1>6 DEF Comparing
  <2>2. PICK n \in Newest(Found) : /\ snap' = [snap EXCEPT ![c] = n]
                                   /\ asOf' = [asOf EXCEPT ![c] = month]
    BY <1>0, <2>1 DEF CheckRead
  <2>3. path = f /\ Found = {k \in content[f] : Shows(k, month)}
    <3>1. path \in present
      BY <2>2 DEF Newest, Found
    <3>2. path = f
      BY <3>1 DEF TypeOK, MailInv, LastInv
    <3>. QED BY <3>1, <3>2 DEF Found, Shows
  <2>4. n \in content[f] /\ Shows(n, month) /\ \A k \in content[f] : Shows(k, month) => k <= n
    BY <2>3 DEF Newest
  <2>. QED BY <1>0, <2>2, <2>4
<1>7. LastInv(f)'
  <2>1. content[f] \subseteq Lines /\ last \in Nat /\ written \in Nat
    BY DEF TypeOK
  <2>2. ASSUME c \in Comparing'
        PROVE  /\ snap'[c] \in 1 .. written /\ Kept(f, snap'[c])
               /\ asOf'[c] <= month /\ Shows(snap'[c], asOf'[c])
               /\ last <= snap'[c] \/ ~Shows(last, asOf'[c])
    <3>1. snap'[c] \in 1 .. written
      BY <1>6, <2>1, <2>2 DEF MailInv, LastInv, Lines
    <3>2. Kept(f, snap'[c])
      BY <1>6, <2>2 DEF Kept
    <3>3. CASE last \in content[f]
      BY <1>0, <1>6, <2>2, <3>1, <3>2, <3>3
    <3>4. CASE last \notin content[f]
      <4>1. last < snap'[c]
        BY <1>6, <2>2, <3>4 DEF MailInv, LastInv, Kept
      <4>. QED BY <1>0, <1>6, <2>1, <2>2, <3>1, <3>2, <4>1
    <3>. QED BY <3>3, <3>4
  <2>3. \A d \in Comparing' : d = c
    BY <1>2
  <2>4. ASSUME NEW d \in Comparing'
        PROVE  /\ snap'[d] \in 1 .. written' /\ Kept(f, snap[d])'
               /\ asOf'[d] <= month' /\ Shows(snap[d], asOf[d])'
               /\ last' <= snap'[d] \/ ~Shows(last, asOf[d])'
    BY <1>1, <2>2, <2>3 DEF Kept, Shows
  <2>. QED BY <1>1, <1>4, <2>3, <2>4 DEF MailInv, LastInv
<1>8. ToldInv'
  <2>. SUFFICES ASSUME NEW n \in Lines, NEW m \in Months, Told(n, m)
                PROVE  /\ m <= month /\ \A d \in Comparing' : m <= asOf'[d]
                       /\ (m = month \/ \E d \in Comparing' : asOf'[d] = m)
                            => n <= last /\ Shows(last, m)
    BY <1>1, <1>5 DEF ToldInv, Shows
  <2>1. m <= month /\ (m = month => n <= last /\ Shows(last, m))
    BY DEF MailInv, ToldInv
  <2>2. \A d \in Comparing' : asOf'[d] = month
    BY <1>2, <1>6
  <2>. QED BY <2>1, <2>2
<1>9. OnceInv'
  BY <1>1, <1>2, <1>3 DEF MailInv, OnceInv, MailedOnce, Mailing
<1>. QED BY <1>7, <1>8, <1>9 DEF MailInv

\* A line that is compared becomes lastAlarmData; it is mailed only when checks
\* of its month have not told of it before.
LEMMA MailCompare ==
  ASSUME NEW f \in Files, NEW c \in Checks, TypeOK, MailInv(f), CheckCompare(c)
  PROVE  MailInv(f)'
<1>. USE ConstAssumption DEF Goto
<1>0. /\ cpc \in [Checks -> CheckPcs] /\ snap \in [Checks -> 0 .. MaxLines]
      /\ asOf \in [Checks -> Months] /\ month \in Nat /\ Months \subseteq Nat
      /\ last \in Nat /\ written \in 0 .. MaxLines
  BY DEF TypeOK, Months
<1>1. /\ UNCHANGED <<content, marks, month, written, path, newPath, mails>>
      /\ last' = snap[c] /\ c \in Comparing /\ c \notin Mailing
  BY DEF CheckCompare, disk, super, Comparing, Mailing
<1>2. /\ snap[c] \in Lines /\ snap[c] \in 1 .. written /\ Kept(f, snap[c])
      /\ asOf[c] \in Months /\ asOf[c] <= month /\ Shows(snap[c], asOf[c])
      /\ last <= snap[c] \/ ~Shows(last, asOf[c])
  BY <1>0, <1>1 DEF MailInv, LastInv, Lines
<1>3. Comparing' = {}
  BY <1>0, <1>1 DEF CheckCompare, Comparing, MailInv, LastInv
<1>4. \A d \in Checks : d # c => snap'[d] = snap[d] /\ asOf'[d] = asOf[d]
  BY <1>0 DEF CheckCompare, Leave
<1>5. \/ Mailing' = Mailing
      \/ /\ Mailing' = Mailing \cup {c} /\ last # snap[c]
         /\ UNCHANGED <<snap, asOf>>
  <2>1. CASE last \in {0, snap[c]}
    BY <1>0, <2>1 DEF CheckCompare, Mailing, Comparing
  <2>2. CASE last \notin {0, snap[c]}
    BY <1>0, <2>2 DEF CheckCompare, Mailing, Comparing
  <2>. QED BY <2>1, <2>2
<1>6. \A n, m : Shows(n, m)' = Shows(n, m) /\ Kept(f, n)' = Kept(f, n)
  BY <1>1 DEF Shows, Kept
\* As long as checks of the month of c may come, last is what they told last.
<1>7. \A n \in Lines : Told(n, asOf[c]) => n <= last /\ last <= snap[c]
  BY <1>1, <1>2 DEF MailInv, ToldInv
<1>8. last # snap[c] => ~Told(snap[c], asOf[c])
  BY <1>0, <1>2, <1>7
<1>9. ASSUME NEW n, NEW m, Told(n, m)', ~Told(n, m)
      PROVE  n = snap[c] /\ m = asOf[c]
  <2>1. PICK d \in Mailing' : snap'[d] = n /\ asOf'[d] = m
    BY <1>1, <1>9 DEF Told
  <2>2. d \notin Mailing
    BY <1>1, <1>4, <1>9, <2>1 DEF Told, Mailing
  <2>. QED BY <1>5, <2>1, <2>2
<1>10. LastInv(f)'
  <2>1. last' <= written' /\ Kept(f, last)'
    BY <1>1, <1>2, <1>6 DEF Kept
  <2>. QED BY <1>1, <1>3, <2>1 DEF MailInv, LastInv
<1>11. ToldInv'
  <2>. SUFFICES ASSUME NEW n \in Lines, NEW m \in Months, Told(n, m)'
                PROVE  m <= month /\ (m = month => n <= snap[c] /\ Shows(snap[c], m))
    BY <1>1, <1>3 DEF ToldInv, Shows
  <2>1. CASE n = snap[c] /\ m = asOf[c]
    BY <1>0, <1>2, <2>1
  <2>2. CASE Told(n, m)
    <3>1. m <= month /\ m <= asOf[c]
      BY <1>1, <2>2 DEF MailInv, ToldInv
    <3>2. m = month => m = asOf[c]
      <4>1. m \in Nat /\ asOf[c] \in Nat /\ asOf[c] <= month
        BY <1>0, <1>2
      <4>. QED BY <3>1, <4>1
    <3>3. m = asOf[c] => n <= snap[c]
      BY <1>0, <1>2, <1>7, <2>2 DEF Lines
    <3>. QED BY <1>2, <3>1, <3>2, <3>3
  <2>. QED BY <1>9, <2>1, <2>2
<1>12. OnceInv'
  <2>1. ASSUME NEW d \in Mailing
        PROVE  /\ snap'[d] = snap[d] /\ asOf'[d] = asOf[d]
               /\ Told(snap[d], asOf[d])
    BY <1>1, <1>4 DEF Told, Mailing
  <2>2. \A d \in Mailing : /\ snap'[d] \in 1 .. written
                           /\ mails[<<snap'[d], asOf'[d]>>] = 0
    BY <2>1 DEF MailInv, OnceInv
  <2>3. \A d, e \in Mailing : snap'[d] = snap'[e] /\ asOf'[d] = asOf'[e] => d = e
    BY <2>1 DEF MailInv, OnceInv
  <2>4. MailedOnce'
    BY <1>1 DEF MailInv, OnceInv, MailedOnce
  <2>5. CASE Mailing' = Mailing
    BY <1>1, <2>2, <2>3, <2>4, <2>5 DEF OnceInv
  <2>6. CASE Mailing' = Mailing \cup {c} /\ last # snap[c] /\ UNCHANGED <<snap, asOf>>
    <3>1. mails[<<snap[c], asOf[c]>>] = 0
      BY <1>8, <2>6 DEF Told
    <3>2. \A d \in Mailing : ~(snap[d] = snap[c] /\ asOf[d] = asOf[c])
      BY <1>8, <2>6 DEF Told
    <3>. QED BY <1>1, <1>2, <2>2, <2>3, <2>4, <2>6, <3>1, <3>2 DEF OnceInv
  <2>. QED BY <1>5, <2>5, <2>6
<1>. QED BY <1>10, <1>11, <1>12 DEF MailInv

\* A mail is the first one of its month about its line.
LEMMA MailMail ==
  ASSUME NEW f \in Files, NEW c \in Checks, TypeOK, MailInv(f), CheckMail(c)
  PROVE  MailInv(f)'
<1>. USE ConstAssumption DEF Goto
<1>0. /\ cpc \in [Checks -> CheckPcs] /\ snap \in [Checks -> 0 .. MaxLines]
      /\ asOf \in [Checks -> Months] /\ mails \in [Lines \X Months -> 0 .. MaxMails]
      /\ written \in 0 .. MaxLines
  BY DEF TypeOK
<1>1. /\ UNCHANGED <<content, marks, month, written, path, newPath, last>>
      /\ c \in Mailing
  BY DEF CheckMail, disk, super, Mailing
<1>2. Comparing' = Comparing /\ Mailing' = Mailing \ {c} /\ c \notin Comparing
  BY <1>0 DEF CheckMail, Comparing, Mailing
<1>3. \A d \in Checks : d # c => snap'[d] = snap[d] /\ asOf'[d] = asOf[d]
  BY <1>0 DEF CheckMail, Leave
<1>4. \A n, m : Shows(n, m)' = Shows(n, m) /\ Kept(f, n)' = Kept(f, n)
  BY <1>1 DEF Shows, Kept
<1>. DEFINE k == <<snap[c], asOf[c]>>
<1>5. k \in Lines \X Months /\ mails[k] = 0
  BY <1>0, <1>1 DEF MailInv, OnceInv, Lines
<1>6. UNCHANGED mails \/ \E n \in {0, 1} : mails' = [mails EXCEPT ![k] = n]
  BY <1>5 DEF CheckMail
<1>. HIDE DEF k
<1>7. \A j \in Lines \X Months : /\ j # k => mails'[j] = mails[j]
                                 /\ j = k => mails'[j] \in {0, 1}
  BY <1>0, <1>5, <1>6
<1>8. \A n \in Lines, m \in Months : Told(n, m)' => Told(n, m)
  <2>. SUFFICES ASSUME NEW n \in Lines, NEW m \in Months, Told(n, m)', <<n, m>> # k
                PROVE  Told(n, m)
    BY <1>1 DEF Told, k
  <2>1. mails'[<<n, m>>] = mails[<<n, m>>]
    BY <1>7
  <2>2. \A d \in Mailing' : d \in Mailing /\ snap'[d] = snap[d] /\ asOf'[d] = asOf[d]
    BY <1>2, <1>3 DEF Mailing
  <2>. QED BY <2>1, <2>2 DEF Told
<1>9. LastInv(f)'
  <2>1. \A d \in Comparing : snap'[d] = snap[d] /\ asOf'[d] = asOf[d]
    BY <1>2, <1>3 DEF Comparing
  <2>2. ASSUME NEW d \in Comparing
        PROVE  /\ snap'[d] \in 1 .. written' /\ Kept(f, snap[d])'
               /\ asOf'[d] <= month' /\ Shows(snap[d], asOf[d])'
               /\ last' <= snap'[d] \/ ~Shows(last, asOf[d])'
    BY <1>1, <2>1 DEF MailInv, LastInv, Kept, Shows
  <2>. QED BY <1>1, <1>2, <1>4, <2>2 DEF MailInv, LastInv
<1>10. ToldInv'
  <2>1. \A d \in Comparing : asOf'[d] = asOf[d]
    BY <1>2, <1>3 DEF Comparing
  <2>. QED BY <1>1, <1>2, <1>4, <1>8, <2>1 DEF MailInv, ToldInv
<1>11. OnceInv'
  <2>1. ASSUME NEW d \in Mailing'
        PROVE  /\ snap'[d] = snap[d] /\ asOf'[d] = asOf[d]
               /\ snap[d] \in 1 .. written /\ mails[<<snap[d], asOf[d]>>] = 0
               /\ mails'[<<snap[d], asOf[d]>>] = 0 /\ d \in Mailing
    <3>1. d \in Mailing /\ d # c /\ d \in Checks
      BY <1>2 DEF Mailing
    <3>2. snap[d] \in 1 .. written /\ mails[<<snap[d], asOf[d]>>] = 0
      BY <3>1 DEF MailInv, OnceInv
    <3>3. ~(snap[d] = snap[c] /\ asOf[d] = asOf[c])
      BY <1>1, <3>1 DEF MailInv, OnceInv
    <3>4. snap[d] \in Lines /\ asOf[d] \in Months
      BY <1>0, <3>1, <3>2 DEF Lines
    <3>5. <<snap[d], asOf[d]>> \in Lines \X Months /\ <<snap[d], asOf[d]>> # k
      BY <3>3, <3>4 DEF k
    <3>6. mails'[<<snap[d], asOf[d]>>] = 0
      BY <1>7, <3>2, <3>5
    <3>. QED BY <1>3, <3>1, <3>2, <3>6
  <2>2. ASSUME NEW d \in Mailing' PROVE mails'[<<snap'[d], asOf'[d]>>] = 0
    BY <2>1
  <2>3. ASSUME NEW d \in Mailing', NEW e \in Mailing',
               snap'[d] = snap'[e], asOf'[d] = asOf'[e]
        PROVE  d = e
    <3>1. /\ d \in Mailing /\ e \in Mailing
          /\ snap[d] = snap[e] /\ asOf[d] = asOf[e]
      BY <2>1, <2>3
    <3>. QED BY <3>1 DEF MailInv, OnceInv
  <2>4. \A n \in Lines, m \in Months : mails'[<<n, m>>] < 2
    <3>. SUFFICES ASSUME NEW n \in Lines, NEW m \in Months PROVE mails'[<<n, m>>] < 2
      OBVIOUS
    <3>1. mails[<<n, m>>] < 2
      BY DEF MailInv, OnceInv, MailedOnce
    <3>. QED BY <1>7, <3>1
  <2>. QED BY <1>1, <2>1, <2>2, <2>3, <2>4 DEF OnceInv, MailedOnce
<1>. QED BY <1>9, <1>10, <1>11 DEF MailInv

LEMMA MailStep ==
  ASSUME SerialChecks, NEW f \in Files, NewPaths \subseteq {f, NoFile},
         TypeOK, MailInv(f), [Next]_vars
  PROVE  MailInv(f)'
<1>. USE DEF flags, monit, check, disk, super
<1>1. ASSUME NEW g \in Files, EnvStep(g) PROVE MailInv(f)'
  <2>1. CASE WriteOther(g) \/ Create(g)
    BY <2>1, MailFrame DEF WriteOther, Create
  <2>. QED BY <1>1, <2>1, MailWrite, MailRotate DEF EnvStep
<1>2. ASSUME NEW r \in Runs, RunStep(r) PROVE MailInv(f)'
  <2>1. CASE HandleModify(r)
    <3>1. Comparing' = Comparing /\ Mailing' = Mailing
      BY <2>1 DEF HandleModify, Comparing, Mailing, TypeOK
    <3>2. UNCHANGED <<snap, asOf, last, mails, content, marks, month, written,
                      path, newPath>>
      BY <2>1 DEF HandleModify
    <3>. QED BY <3>1, <3>2 DEF MailInv, LastInv, ToldInv, Told, OnceInv,
                               MailedOnce, Shows, Kept
  <2>2. CASE ~HandleModify(r)
    BY <1>2, <2>2, MailFrame DEF RunStep, StartCheck, StartArm, StartWatch,
       HandleGone, HandleError, TimerStop, TimerArm, GiveUp
  <2>. QED BY <2>1, <2>2
<1>3. ASSUME NEW c \in Checks, CheckStep(c) PROVE MailInv(f)'
  <2>1. CASE CheckLock(c) \/ CheckRelock(c) \/ CheckReadFails(c)
    <3>1. Comparing' = Comparing /\ Mailing' = Mailing
      BY <2>1 DEF CheckLock, CheckRelock, CheckReadFails, Comparing, Mailing,
                  Goto, TypeOK
    <3>2. UNCHANGED <<snap, asOf, last, mails, content, marks, month, written,
                      path, newPath>>
      BY <2>1 DEF CheckLock, CheckRelock, CheckReadFails
    <3>. QED BY <3>1, <3>2 DEF MailInv, LastInv, ToldInv, Told, OnceInv,
                               MailedOnce, Shows, Kept
  <2>. QED BY <1>3, <2>1, MailRead, MailCompare, MailMail DEF CheckStep
<1>4. ASSUME NEW p \in NewPaths, Reload(p) PROVE MailInv(f)'
  <2>1. UNCHANGED <<check, content, marks, month, written, path>>
        /\ newPath' \in {f, NoFile}
    BY <1>4 DEF Reload
  <2>. QED BY <2>1 DEF MailInv, LastInv, ToldInv, Told, OnceInv, MailedOnce,
                       Shows, Kept, Comparing, Mailing
<1>5. CASE InitConfStep
  <2>1. UNCHANGED <<check, content, marks, month, written, newPath>>
        /\ path' \in {path, newPath, NoFile}
    BY <1>5 DEF InitConfStep, InitLock, InitPath, InitCheck, InitStop
  <2>. QED BY <2>1 DEF MailInv, LastInv, ToldInv, Told, OnceInv, MailedOnce,
                       Shows, Kept, Comparing, Mailing
<1>6. CASE SuperviseStep
  BY <1>6, MailFrame DEF SuperviseStep, Tick, Rearm, Spawn
<1>7. CASE UNCHANGED vars
  BY <1>7, MailFrame DEF vars
<1>. QED BY <1>1, <1>2, <1>3, <1>4, <1>5, <1>6, <1>7, MailMonth DEF Next

\* lastAlarmData does what it is for: whatever restarts of the monitor,
\* rotations, reloads and changes of month come in between, no restart is
\* mailed twice by the checks of one month.
THEOREM MailedOnceHolds ==
  ASSUME SerialChecks, NEW f \in Files, NewPaths \subseteq {f, NoFile}
  PROVE  Spec => []MailedOnce
<1>1. Init => MailInv(f)
  BY MailInit
<1>2. TypeOK /\ MailInv(f) /\ [Next]_vars => MailInv(f)'
  BY MailStep
<1>3. MailInv(f) => MailedOnce
  BY DEF MailInv, OnceInv
<1>. QED BY <1>1, <1>2, <1>3, TypeCorrect, PTL DEF Spec

\* lastAlarmData moves back to an older line only in a check whose month does
\* not show the younger one.
THEOREM LastAdvancesHolds ==
  ASSUME SerialChecks, NEW f \in Files, NewPaths \subseteq {f, NoFile}
  PROVE  Spec => LastAdvances
<1>. DEFINE Back == last' < last =>
              \E c \in Checks : /\ cpc[c] = "compare" /\ last' = snap[c]
                                /\ MonthStr(asOf[c]) \notin marks[last]
<1>1. Init => MailInv(f)
  BY MailInit
<1>2. TypeOK /\ MailInv(f) /\ [Next]_vars => MailInv(f)'
  BY MailStep
<1>3. TypeOK /\ MailInv(f) /\ [Next]_vars => [Back]_vars
  <2>. SUFFICES ASSUME TypeOK, MailInv(f), [Next]_vars, last' < last
                PROVE  \E c \in Checks : /\ cpc[c] = "compare" /\ last' = snap[c]
                                         /\ MonthStr(asOf[c]) \notin marks[last]
    OBVIOUS
  <2>. USE DEF flags, monit, check, disk, super
  <2>0. last' # last
    BY DEF TypeOK
  <2>1. ASSUME NEW g \in Files, EnvStep(g) PROVE last' = last
    BY <2>1 DEF EnvStep, WriteLine, WriteOther, Rotate, Create
  <2>2. ASSUME NEW r \in Runs, RunStep(r) PROVE last' = last
    BY <2>2 DEF RunStep, StartCheck, StartArm, StartWatch, HandleModify,
                HandleGone, HandleError, TimerStop, TimerArm, GiveUp
  <2>3. ASSUME NEW c \in Checks, CheckStep(c)
        PROVE  /\ cpc[c] = "compare" /\ last' = snap[c]
               /\ MonthStr(asOf[c]) \notin marks[last]
    <3>1. last' = snap[c] /\ c \in Comparing
      BY <2>0, <2>3 DEF CheckStep, CheckLock, CheckRead, CheckReadFails,
                  CheckCompare, CheckRelock, CheckMail, Goto, Comparing
    <3>2. last <= snap[c] \/ ~Shows(last, asOf[c])
      BY <3>1 DEF MailInv, LastInv
    <3>3. last \in Nat /\ snap[c] \in Nat
      BY DEF TypeOK
    <3>. QED BY <3>1, <3>2, <3>3 DEF Comparing, Shows
  <2>4. ASSUME NEW p \in NewPaths, Reload(p) PROVE last' = last
    BY <2>4 DEF Reload
  <2>5. CASE NewMonth \/ InitConfStep \/ SuperviseStep
    BY <2>0, <2>5 DEF NewMonth, InitConfStep, InitLock, InitPath, InitCheck,
                InitStop, SuperviseStep, Tick, Rearm, Spawn
  <2>6. CASE UNCHANGED vars
    BY <2>0, <2>6 DEF vars
  <2>. QED BY <2>0, <2>1, <2>2, <2>3, <2>4, <2>5, <2>6 DEF Next
<1>. QED BY <1>1, <1>2, <1>3, TypeCorrect, PTL DEF Spec, LastAdvances
=============================================================================
