------------------------- MODULE AlarmCenter_proofs -------------------------
(***************************************************************************)
(* Theorems about the alarm centre, for every set of alarms and runs and   *)
(* every channel capacity: its type invariant, RunOkIsServed,              *)
(* NoTornAccount, NothingLostUndegraded, and that it implements            *)
(* AlarmDelivery.                                                          *)
(***************************************************************************)
EXTENDS AlarmCenter, TLAPS

-----------------------------------------------------------------------------
(* Type correctness.                                                       *)

\* Every state of the alarm centre is well typed: in particular the channel
\* never holds more than its capacity.
THEOREM TypeCorrect == Spec => []TypeOK
<1>. USE ConstAssumption DEF Fields
<1>1. Init => TypeOK
  <2>. SUFFICES ASSUME Init PROVE TypeOK
    OBVIOUS
  <2>. USE DEF Init
  <2>1. /\ account \in [Fields -> Nat] /\ used \in [Alarms -> [Fields -> Nat]]
        /\ confs \in Seq(SUBSET Fields) /\ confs # <<>>
    BY DEF Unused
  <2>2. MsgCh \in Seq(Alarms) /\ Len(MsgCh) <= ChanCap
    OBVIOUS
  <2>3. pc \in [Runs -> RunPcs] /\ held \in [Runs -> Alarms \cup {NoAlarm}]
    BY DEF RunPcs
  <2>4. IsRunOk \in BOOLEAN /\ IsConfigOk \in BOOLEAN /\ IsNeedStop \in BOOLEAN
    OBVIOUS
  <2>5. /\ readers \subseteq Alarms /\ writer \in {"free", "waiting", "held"}
        /\ stage \in [Alarms -> Stages] /\ main \in MainPcs
    BY DEF Stages, MainPcs
  <2>. QED BY <2>1, <2>2, <2>3, <2>4, <2>5 DEF TypeOK
<1>2. TypeOK /\ [Next]_vars => TypeOK'
  <2>. SUFFICES ASSUME TypeOK, [Next]_vars PROVE TypeOK'
    OBVIOUS
  <2>. USE DEF TypeOK, flags, mutex, Stages, RunPcs, MainPcs, Move
  <2>1. ASSUME NEW a \in Alarms, Raise(a) PROVE TypeOK'
    BY <2>1 DEF Raise
  <2>2. ASSUME NEW a \in Alarms, Send(a) PROVE TypeOK'
    BY <2>2 DEF Send
  <2>3. ASSUME NEW a \in Alarms, MailStep(a) PROVE TypeOK'
    <3>1. CASE MailLock(a)
      BY <3>1 DEF MailLock
    <3>2. CASE MailFilter(a)
      BY <3>2 DEF MailFilter
    <3>3. CASE MailAuth(a)
      BY <3>3 DEF MailAuth
    <3>4. CASE MailSend(a)
      BY <3>4 DEF MailSend
    <3>. QED BY <2>3, <3>1, <3>2, <3>3, <3>4 DEF MailStep
  <2>4. ASSUME NEW r \in Runs, RunStep(r) PROVE TypeOK'
    <3>1. CASE StartCheck(r) \/ StartArm(r) \/ GiveUp(r) \/ TimerStop(r)
      BY <3>1 DEF StartCheck, StartArm, GiveUp, TimerStop
    <3>2. CASE Receive(r)
      <4>1. Head(MsgCh) \in Alarms /\ Tail(MsgCh) \in Seq(Alarms)
            /\ Len(Tail(MsgCh)) <= ChanCap
        BY <3>2 DEF Receive
      <4>. QED BY <3>2, <4>1 DEF Receive
    <3>3. CASE Dispatch(r)
      BY <3>3 DEF Dispatch
    <3>. QED BY <2>4, <3>1, <3>2, <3>3 DEF RunStep
  <2>5. ASSUME NEW c \in SUBSET Fields, Reload(c) PROVE TypeOK'
    <3>1. confs' \in Seq(SUBSET Fields) /\ confs' # <<>>
      BY <2>5 DEF Reload
    <3>. QED BY <2>5, <3>1 DEF Reload
  <2>6. CASE InitConfStep
    <3>1. Len(confs) \in Nat
      OBVIOUS
    <3>2. CASE InitLock
      BY <3>2 DEF InitLock, Unused
    <3>3. ASSUME NEW f \in Fields, InitField(f) PROVE TypeOK'
      BY <3>1, <3>3 DEF InitField
    <3>4. CASE InitFinish
      <4>1. IsConfigOk' \in BOOLEAN
        BY <3>4 DEF InitFinish
      <4>2. main' \in MainPcs /\ writer' \in {"free", "waiting", "held"}
        BY <3>4 DEF InitFinish
      <4>. QED BY <3>4, <4>1, <4>2 DEF InitFinish
    <3>5. CASE InitBad
      BY <3>5 DEF InitBad
    <3>. QED BY <2>6, <3>2, <3>3, <3>4, <3>5 DEF InitConfStep
  <2>7. CASE SuperviseStep
    BY <2>7 DEF SuperviseStep, Tick, Rearm, Spawn
  <2>8. CASE UNCHANGED vars
    BY <2>8 DEF vars
  <2>. QED BY <2>1, <2>2, <2>3, <2>4, <2>5, <2>6, <2>7, <2>8 DEF Next, MonitorStep
<1>. QED BY <1>1, <1>2, PTL DEF Spec

-----------------------------------------------------------------------------
(* RunOkIsServed.                                                          *)

\* A run that has not reset IsNeedStop yet, or is about to clear IsRunOk.
Deciding(r) == pc[r] \in {"start", "armed", "failing"}

\* RunOkIsServed is not inductive: a run that returns on IsNeedStop might be
\* the last one.  It is not, because IsNeedStop and IsRunOk are both set
\* only between a restart and the moment the new run resets IsNeedStop.
ServedInv ==
  /\ RunOkIsServed
  /\ IsRunOk /\ IsNeedStop /\ main # "rearmed" => \E r \in Runs : Deciding(r)

\* While IsRunOk is set, outside the instant of a restart, some run of
\* StartAlarm is there to serve the channel or to clear the flag.
THEOREM RunOkServed == Spec => []RunOkIsServed
<1>1. Init => ServedInv
  BY DEF Init, ServedInv, RunOkIsServed, Serving
<1>2. TypeOK /\ ServedInv /\ [Next]_vars => ServedInv'
  <2>. SUFFICES ASSUME TypeOK, ServedInv, [Next]_vars PROVE ServedInv'
    OBVIOUS
  <2>. USE DEF TypeOK, ServedInv, RunOkIsServed, Serving, Deciding, flags
  <2>1. ASSUME NEW a \in Alarms, MonitorStep(a) \/ MailStep(a) PROVE ServedInv'
    BY <2>1 DEF MonitorStep, Raise, Send, MailStep, MailLock, MailFilter,
                MailAuth, MailSend
  <2>2. ASSUME NEW r \in Runs, RunStep(r) PROVE ServedInv'
    <3>1. CASE StartCheck(r)
      BY <3>1 DEF StartCheck
    <3>2. CASE StartArm(r)
      BY <3>2 DEF StartArm
    <3>3. CASE Receive(r)
      BY <3>3 DEF Receive
    <3>4. CASE Dispatch(r)
      BY <3>4 DEF Dispatch
    <3>5. CASE GiveUp(r)
      BY <3>5 DEF GiveUp
    <3>6. CASE TimerStop(r)
      BY <3>6 DEF TimerStop
    <3>. QED BY <2>2, <3>1, <3>2, <3>3, <3>4, <3>5, <3>6 DEF RunStep
  <2>3. ASSUME NEW c \in SUBSET Fields, Reload(c) PROVE ServedInv'
    BY <2>3 DEF Reload
  <2>4. CASE InitConfStep
    <3>1. IsRunOk' => IsRunOk
      BY <2>4 DEF InitConfStep, InitLock, InitField, InitFinish, InitBad
    <3>2. main # "rearmed" /\ UNCHANGED <<IsNeedStop, pc>>
      BY <2>4 DEF InitConfStep, InitLock, InitField, InitFinish, InitBad
    <3>. QED BY <3>1, <3>2
  <2>5. CASE SuperviseStep
    BY <2>5 DEF SuperviseStep, Tick, Rearm, Spawn
  <2>6. CASE UNCHANGED vars
    BY <2>6 DEF vars
  <2>. QED BY <2>1, <2>2, <2>3, <2>4, <2>5, <2>6 DEF Next
<1>. QED BY <1>1, <1>2, TypeCorrect, PTL DEF Spec, ServedInv

-----------------------------------------------------------------------------
(* NoTornAccount.                                                          *)

\* InitConf owns _mutex_1 exactly while it rewrites the account.
LockInv ==
  /\ writer = "held" <=> main \in {"fill", "bad"}
  /\ writer = "waiting" <=> main = "lock"
  /\ main \in {"fill", "bad"} => readers = {}
  /\ \A a \in Alarms : stage[a] \in {"reading", "auth"} => a \in readers

\* Outside that section the account is the one of the last configuration
\* loaded, or of the one before while InitConf waits for the lock.
AccountInv ==
  /\ main = "lock" => Len(confs) > 1 /\ account = AccountOf(Len(confs) - 1)
  /\ main \notin {"lock", "fill"} => account = AccountOf(Len(confs))
  /\ \A a \in Alarms : stage[a] = "auth" => used[a]["User"] = account["User"]

TornInv == LockInv /\ AccountInv /\ NoTornAccount

\* A configuration, once loaded, stays what it was.
LEMMA ReloadAppends ==
  ASSUME TypeOK, NEW c \in SUBSET Fields, Reload(c)
  PROVE  /\ Len(confs) \in Nat \ {0} /\ Len(confs') = Len(confs) + 1
         /\ DOMAIN confs = 1 .. Len(confs) /\ DOMAIN confs' = 1 .. Len(confs) + 1
         /\ \A v \in DOMAIN confs : AccountOf(v)' = AccountOf(v)
<1>1. confs \in Seq(SUBSET Fields) /\ confs # <<>> /\ confs' = Append(confs, c)
  BY DEF TypeOK, Reload
<1>2. /\ Len(confs) \in Nat \ {0} /\ Len(confs') = Len(confs) + 1
      /\ DOMAIN confs = 1 .. Len(confs) /\ DOMAIN confs' = 1 .. Len(confs) + 1
  BY <1>1
<1>3. \A v \in DOMAIN confs : confs'[v] = confs[v]
  BY <1>1, <1>2
<1>. QED BY <1>2, <1>3 DEF AccountOf

\* Every mail that goes out used the account data of one configuration.
THEOREM AccountNeverTorn == Spec => []NoTornAccount
<1>1. TypeOK /\ Init => TornInv
  <2>. SUFFICES ASSUME TypeOK, Init PROVE TornInv
    OBVIOUS
  <2>1. account = AccountOf(Len(confs))
    BY DEF Init, AccountOf
  <2>. QED BY <2>1 DEF Init, TornInv, LockInv, AccountInv, NoTornAccount
<1>2. TypeOK /\ TypeOK' /\ TornInv /\ [Next]_vars => TornInv'
  <2>. SUFFICES ASSUME TypeOK, TypeOK', TornInv, [Next]_vars PROVE TornInv'
    OBVIOUS
  <2>. USE DEF TornInv, LockInv, AccountInv, NoTornAccount, AccountOf, Move
  <2>0. /\ stage \in [Alarms -> Stages] /\ used \in [Alarms -> [Fields -> Nat]]
        /\ account \in [Fields -> Nat] /\ readers \subseteq Alarms
        /\ held \in [Runs -> Alarms \cup {NoAlarm}]
    BY DEF TypeOK
  <2>1. ASSUME NEW a \in Alarms, Raise(a) \/ Send(a) PROVE TornInv'
    <3>1. \A b \in Alarms : stage'[b] \in {"reading", "auth", "sent", "failed"}
                             => stage'[b] = stage[b]
      BY <2>0, <2>1 DEF Raise, Send
    <3>2. UNCHANGED <<account, readers, writer, used, main, confs>>
      BY <2>1 DEF Raise, Send, mutex
    <3>. QED BY <3>1, <3>2
  <2>2. ASSUME NEW a \in Alarms, MailStep(a) PROVE TornInv'
    <3>1. CASE MailLock(a)
      BY <2>0, <3>1 DEF MailLock
    <3>2. CASE MailFilter(a)
      BY <2>0, <3>2 DEF MailFilter
    <3>3. CASE MailAuth(a)
      BY <2>0, <3>3 DEF MailAuth, mutex, Fields
    <3>4. CASE MailSend(a)
      <4>1. stage[a] = "auth" /\ stage'[a] \in {"sent", "failed"}
            /\ \A b \in Alarms \ {a} : stage'[b] = stage[b] /\ used'[b] = used[b]
        BY <2>0, <3>4 DEF MailSend
      <4>2. used'[a] = account
        <5>1. used[a]["User"] = account["User"]
          BY <4>1
        <5>2. used'[a] = [used[a] EXCEPT !["Host"] = account["Host"]]
          BY <2>0, <3>4 DEF MailSend
        <5>. QED BY <2>0, <5>1, <5>2 DEF Fields
      <4>3. \E v \in DOMAIN confs : account = AccountOf(v)
        <5>1. a \in readers /\ main \notin {"fill", "bad"}
          BY <4>1
        <5>2. confs \in Seq(SUBSET Fields) /\ Len(confs) > 0
          BY DEF TypeOK
        <5>3. CASE main = "lock"
          BY <5>2, <5>3
        <5>4. CASE main # "lock"
          BY <5>1, <5>2, <5>4
        <5>. QED BY <5>3, <5>4
      <4>. QED BY <3>4, <4>1, <4>2, <4>3 DEF MailSend
    <3>. QED BY <2>2, <3>1, <3>2, <3>3, <3>4 DEF MailStep
  <2>3. ASSUME NEW r \in Runs, RunStep(r) PROVE TornInv'
    <3>1. CASE Receive(r)
      BY <2>0, <3>1 DEF Receive, mutex, TypeOK
    <3>2. CASE Dispatch(r)
      BY <2>0, <3>2 DEF Dispatch, mutex
    <3>3. CASE StartCheck(r) \/ StartArm(r) \/ GiveUp(r) \/ TimerStop(r)
      BY <3>3 DEF StartCheck, StartArm, GiveUp, TimerStop, mutex
    <3>. QED BY <2>3, <3>1, <3>2, <3>3 DEF RunStep
  <2>4. ASSUME NEW c \in SUBSET Fields, Reload(c) PROVE TornInv'
    <3>1. /\ main = "poll" /\ main' = "lock" /\ writer' = "waiting"
          /\ UNCHANGED <<account, readers, stage, used>>
      BY <2>4 DEF Reload
    <3>2. LockInv'
      BY <3>1
    <3>. HIDE DEF AccountOf
    <3>3. account = AccountOf(Len(confs))
      BY <3>1
    <3>4. Len(confs') - 1 = Len(confs) /\ Len(confs) \in DOMAIN confs /\ Len(confs') > 1
      BY <2>4, ReloadAppends
    <3>5. PICK v \in DOMAIN confs : v = Len(confs) /\ v = Len(confs') - 1
      BY <3>4
    <3>6. account' = AccountOf(v)'
      BY <2>4, <3>1, <3>3, <3>5, ReloadAppends
    <3>7. AccountInv'
      BY <3>1, <3>4, <3>5, <3>6 DEF AccountOf
    <3>8. NoTornAccount'
      <4>. SUFFICES ASSUME NEW a \in Alarms, stage[a] \in {"sent", "failed"}
                    PROVE  \E u \in DOMAIN confs' : used[a] = AccountOf(u)'
        BY <3>1
      <4>1. PICK w \in DOMAIN confs : used[a] = AccountOf(w)
        OBVIOUS
      <4>2. w \in DOMAIN confs' /\ AccountOf(w)' = AccountOf(w)
        BY <2>4, ReloadAppends
      <4>. QED BY <4>1, <4>2
    <3>. QED BY <3>2, <3>7, <3>8
  <2>5. CASE InitConfStep
    <3>1. CASE InitLock
      BY <3>1 DEF InitLock
    <3>2. ASSUME NEW f \in Fields, InitField(f) PROVE TornInv'
      BY <3>2 DEF InitField, mutex
    <3>3. CASE InitFinish
      BY <3>3 DEF InitFinish
    <3>4. CASE InitBad
      BY <3>4 DEF InitBad
    <3>. QED BY <2>5, <3>1, <3>2, <3>3, <3>4 DEF InitConfStep
  <2>6. CASE SuperviseStep
    BY <2>6 DEF SuperviseStep, Tick, Rearm, Spawn, mutex
  <2>7. CASE UNCHANGED vars
    BY <2>7 DEF vars, mutex
  <2>. QED BY <2>1, <2>2, <2>3, <2>4, <2>5, <2>6, <2>7 DEF Next, MonitorStep
<1>. QED BY <1>1, <1>2, TypeCorrect, PTL DEF Spec, TornInv

-----------------------------------------------------------------------------
(* NothingLostUndegraded.                                                  *)

\* As long as every configuration was complete, the flags stay set, no run
\* fails and the main goroutine has no reason to stop the centre.
UndegradedInv ==
  ~Degraded =>
    /\ IsRunOk /\ IsConfigOk
    /\ \A r \in Runs : pc[r] # "failing"
    /\ main \in {"poll", "lock", "fill"}
    /\ \A a \in Alarms : stage[a] \notin {"dropped", "lost"}

\* A process is degraded for good, by the first incomplete configuration.
LEMMA DegradedForGood ==
  ASSUME TypeOK, NEW c \in SUBSET Fields, Reload(c)
  PROVE  Degraded' <=> Degraded \/ c # Fields
<1>1. confs \in Seq(SUBSET Fields) /\ confs' = Append(confs, c)
  BY DEF TypeOK, Reload
<1>2. /\ Len(confs) \in Nat /\ DOMAIN confs = 1 .. Len(confs)
      /\ DOMAIN confs' = 1 .. Len(confs) + 1
      /\ \A w \in DOMAIN confs : confs'[w] = confs[w]
      /\ confs'[Len(confs) + 1] = c
  BY <1>1
<1>3. DOMAIN confs' = DOMAIN confs \cup {Len(confs) + 1}
  BY <1>2
<1>. QED BY <1>2, <1>3 DEF Degraded

\* Only Reload loads a configuration.
LEMMA Unloaded ==
  ASSUME [Next]_vars, \A c \in SUBSET Fields : ~Reload(c)
  PROVE  UNCHANGED confs
<1>1. ASSUME NEW a \in Alarms, MonitorStep(a) \/ MailStep(a)
      PROVE  UNCHANGED confs
  BY <1>1 DEF MonitorStep, Raise, Send, MailStep, MailLock, MailFilter,
              MailAuth, MailSend
<1>2. ASSUME NEW r \in Runs, RunStep(r) PROVE UNCHANGED confs
  BY <1>2 DEF RunStep, StartCheck, StartArm, Receive, Dispatch, GiveUp, TimerStop
<1>3. CASE InitConfStep \/ SuperviseStep
  BY <1>3 DEF InitConfStep, InitLock, InitField, InitFinish, InitBad,
              SuperviseStep, Tick, Rearm, Spawn
<1>. QED BY <1>1, <1>2, <1>3 DEF Next, vars

\* The strengthening is an invariant of the centre.
LEMMA UndegradedAlways == Spec => []UndegradedInv
<1>1. Init => UndegradedInv
  <2>. SUFFICES ASSUME Init, ~Degraded PROVE UndegradedInv
    BY DEF UndegradedInv
  <2>1. PICK c \in SUBSET Fields : /\ confs = <<c>>
                                    /\ IsConfigOk = (c = Fields)
                                    /\ IsRunOk = (c = Fields)
    BY DEF Init
  <2>2. 1 \in DOMAIN confs /\ confs[1] = c
    BY <2>1
  <2>3. c = Fields
    BY <2>2 DEF Degraded
  <2>. QED BY <2>1, <2>3 DEF Init, UndegradedInv
<1>2. TypeOK /\ UndegradedInv /\ [Next]_vars => UndegradedInv'
  <2>. SUFFICES ASSUME TypeOK, UndegradedInv, [Next]_vars PROVE UndegradedInv'
    OBVIOUS
  <2>0. stage \in [Alarms -> Stages] /\ pc \in [Runs -> RunPcs]
        /\ held \in [Runs -> Alarms \cup {NoAlarm}]
    BY DEF TypeOK
  <2>1. ASSUME NEW c \in SUBSET Fields, Reload(c) PROVE UndegradedInv'
    <3>1. Degraded => Degraded'
      BY <2>1, DegradedForGood
    <3>. QED BY <2>1, <3>1 DEF UndegradedInv, Reload, flags
  <2>2. ASSUME UNCHANGED confs, ~Degraded, UndegradedInv,
               [Next]_vars, \A c \in SUBSET Fields : ~Reload(c)
        PROVE  UndegradedInv'
    <3>. USE <2>0, <2>2 DEF UndegradedInv, Move, flags, mutex
    <3>1. ASSUME NEW a \in Alarms, MonitorStep(a) \/ MailStep(a)
          PROVE UndegradedInv'
      BY <3>1 DEF MonitorStep, Raise, Send, MailStep, MailLock, MailFilter,
                  MailAuth, MailSend
    <3>2. ASSUME NEW r \in Runs, RunStep(r) PROVE UndegradedInv'
      <4>1. CASE StartCheck(r) \/ StartArm(r) \/ GiveUp(r) \/ TimerStop(r)
        BY <4>1 DEF StartCheck, StartArm, GiveUp, TimerStop
      <4>2. CASE Receive(r)
        BY <4>2 DEF Receive
      <4>3. CASE Dispatch(r)
        BY <4>3 DEF Dispatch
      <4>. QED BY <3>2, <4>1, <4>2, <4>3 DEF RunStep
    <3>3. CASE InitConfStep
      <4>1. CASE InitLock
        BY <4>1 DEF InitLock
      <4>2. ASSUME NEW f \in Fields, InitField(f) PROVE UndegradedInv'
        BY <4>2 DEF InitField
      <4>3. CASE InitFinish
        <5>1. confs \in Seq(SUBSET Fields) /\ confs # <<>>
          BY DEF TypeOK
        <5>2. Len(confs) \in DOMAIN confs /\ Len(confs) # 0
          BY <5>1
        <5>3. account = [f \in Fields |-> Len(confs)]
          BY <4>3, <5>2 DEF InitFinish, AccountOf, Degraded
        <5>4. IsConfigOk' = TRUE
          BY <4>3, <5>2, <5>3 DEF InitFinish
        <5>. QED BY <4>3, <5>4 DEF InitFinish
      <4>4. CASE InitBad
        BY <4>4 DEF InitBad
      <4>. QED BY <3>3, <4>1, <4>2, <4>3, <4>4 DEF InitConfStep
    <3>4. CASE SuperviseStep
      BY <3>4 DEF SuperviseStep, Tick, Rearm, Spawn
    <3>5. CASE UNCHANGED vars
      BY <3>5 DEF vars
    <3>. QED BY <3>1, <3>2, <3>3, <3>4, <3>5 DEF Next
  <2>3. CASE \A c \in SUBSET Fields : ~Reload(c)
    <3>1. UNCHANGED confs
      BY <2>3, Unloaded
    <3>2. CASE Degraded
      BY <3>1, <3>2 DEF UndegradedInv, Degraded
    <3>. QED BY <2>2, <2>3, <3>1, <3>2
  <2>. QED BY <2>1, <2>3
<1>. QED BY <1>1, <1>2, TypeCorrect, PTL DEF Spec

\* Alarms are dropped or thrown away only in a process that has been given an
\* incomplete configuration; in any other one IsRunOk is never cleared.
THEOREM NothingLost == Spec => []NothingLostUndegraded
<1>1. UndegradedInv => NothingLostUndegraded
  BY DEF UndegradedInv, NothingLostUndegraded
<1>. QED BY <1>1, UndegradedAlways, PTL

-----------------------------------------------------------------------------
(* Refinement.                                                             *)

\* Every alarm is in one place: in the channel once, or with one run.
PlaceInv ==
  /\ \A i \in 1 .. Len(MsgCh) : stage[MsgCh[i]] = "queued"
  /\ \A i, j \in 1 .. Len(MsgCh) : MsgCh[i] = MsgCh[j] => i = j
  /\ \A r \in Runs : pc[r] = "got" =>
       /\ held[r] \in Alarms
       /\ stage[held[r]] = "held"
       /\ \A s \in Runs \ {r} : pc[s] = "got" => held[s] # held[r]

\* What a step that moves one alarm does to the abstract state.
LEMMA FateMoves ==
  ASSUME stage \in [Alarms -> Stages], NEW a \in Alarms, NEW t \in Stages,
         stage' = [stage EXCEPT ![a] = t]
  PROVE  fate' = [fate EXCEPT ![a] = FateOf(t)] /\ fate[a] = FateOf(stage[a])
<1>. DEFINE g == [fate EXCEPT ![a] = FateOf(t)]
<1>1. fate' = [b \in Alarms |-> FateOf(stage'[b])]
  BY DEF fate, FateOf
<1>2. g = [b \in Alarms |-> IF b = a THEN FateOf(t) ELSE FateOf(stage[b])]
  BY DEF fate
<1>3. \A b \in Alarms : stage'[b] = IF b = a THEN t ELSE stage[b]
  OBVIOUS
<1>4. fate' = g
  BY <1>1, <1>2, <1>3
<1>. QED BY <1>4 DEF fate

\* A move between two stages of one fate is invisible to AlarmDelivery.
LEMMA FateStays ==
  ASSUME stage \in [Alarms -> Stages], NEW a \in Alarms, NEW t \in Stages,
         stage' = [stage EXCEPT ![a] = t], FateOf(t) = FateOf(stage[a])
  PROVE  UNCHANGED fate
BY FateMoves DEF fate

\* Alarms wait in one place at a time.
LEMMA PlaceStep == TypeOK /\ PlaceInv /\ [Next]_vars => PlaceInv'
<1>. SUFFICES ASSUME TypeOK, PlaceInv, [Next]_vars PROVE PlaceInv'
  OBVIOUS
<1>0. /\ stage \in [Alarms -> Stages] /\ pc \in [Runs -> RunPcs]
      /\ held \in [Runs -> Alarms \cup {NoAlarm}]
      /\ MsgCh \in Seq(Alarms) /\ Len(MsgCh) \in Nat
  BY DEF TypeOK
<1>. USE <1>0 DEF PlaceInv, Move
<1>1. ASSUME NEW a \in Alarms, Raise(a) \/ MailStep(a) PROVE PlaceInv'
  <2>1. stage[a] \notin {"queued", "held"} /\ UNCHANGED <<MsgCh, pc, held>>
        /\ \A b \in Alarms \ {a} : stage'[b] = stage[b]
    BY <1>1 DEF Raise, MailStep, MailLock, MailFilter, MailAuth, MailSend
  <2>2. \A i \in 1 .. Len(MsgCh) : MsgCh[i] \in Alarms
    OBVIOUS
  <2>. QED BY <2>1, <2>2
<1>2. ASSUME NEW a \in Alarms, Send(a) PROVE PlaceInv'
  <2>1. /\ stage[a] = "checked" /\ stage'[a] = "queued" /\ UNCHANGED <<pc, held>>
        /\ \A b \in Alarms \ {a} : stage'[b] = stage[b]
        /\ MsgCh' = Append(MsgCh, a)
    BY <1>2 DEF Send
  <2>2. /\ Len(MsgCh') = Len(MsgCh) + 1 /\ MsgCh'[Len(MsgCh) + 1] = a
        /\ \A i \in 1 .. Len(MsgCh) : /\ MsgCh[i] \in Alarms \ {a}
                                      /\ MsgCh'[i] = MsgCh[i]
    BY <2>1
  <2>3. \A i \in 1 .. Len(MsgCh') : i \in 1 .. Len(MsgCh) \/ i = Len(MsgCh) + 1
    BY <2>2
  <2>. QED BY <2>1, <2>2, <2>3
<1>3. ASSUME NEW r \in Runs, RunStep(r) PROVE PlaceInv'
  <2>1. CASE StartCheck(r) \/ StartArm(r) \/ GiveUp(r) \/ TimerStop(r)
    BY <2>1 DEF StartCheck, StartArm, GiveUp, TimerStop
  <2>2. CASE Receive(r)
    <3>. DEFINE h == MsgCh[1]
    <3>1. /\ h \in Alarms /\ stage[h] = "queued" /\ stage'[h] = "held"
          /\ \A b \in Alarms \ {h} : stage'[b] = stage[b]
          /\ pc[r] = "loop" /\ pc'[r] = "got" /\ held'[r] = h
          /\ \A s \in Runs \ {r} : pc'[s] = pc[s] /\ held'[s] = held[s]
      BY <2>2 DEF Receive
    <3>2. /\ Len(MsgCh') = Len(MsgCh) - 1 /\ Len(MsgCh) > 0
          /\ \A i \in 1 .. Len(MsgCh') : MsgCh'[i] = MsgCh[i + 1]
      BY <2>2 DEF Receive
    <3>3. \A i \in 1 .. Len(MsgCh') : i + 1 \in 1 .. Len(MsgCh) /\ i + 1 # 1
      BY <3>2
    <3>4. \A i \in 1 .. Len(MsgCh') : MsgCh'[i] \in Alarms \ {h}
      BY <3>2, <3>3
    <3>. HIDE DEF h
    <3>5. \A i, j \in 1 .. Len(MsgCh') : MsgCh'[i] = MsgCh'[j] => i = j
      BY <3>2, <3>3
    <3>. QED BY <3>1, <3>2, <3>3, <3>4, <3>5
  <2>3. CASE Dispatch(r)
    <3>. DEFINE h == held[r]
    <3>1. /\ h \in Alarms /\ stage[h] = "held" /\ UNCHANGED MsgCh
          /\ \A b \in Alarms \ {h} : stage'[b] = stage[b]
          /\ pc'[r] # "got"
          /\ \A s \in Runs \ {r} : pc'[s] = pc[s] /\ held'[s] = held[s]
      BY <2>3 DEF Dispatch
    <3>2. \A s \in Runs \ {r} : pc[s] = "got" => held[s] # h
      BY <2>3 DEF Dispatch
    <3>3. \A i \in 1 .. Len(MsgCh) : MsgCh[i] \in Alarms \ {h}
      BY <3>1
    <3>. QED BY <3>1, <3>2, <3>3
  <2>. QED BY <1>3, <2>1, <2>2, <2>3 DEF RunStep
<1>4. CASE UNCHANGED <<MsgCh, stage, held>> /\
           \A r \in Runs : pc'[r] = "got" => pc[r] = "got"
  BY <1>4
<1>5. ASSUME NEW c \in SUBSET Fields, Reload(c) PROVE PlaceInv'
  BY <1>4, <1>5 DEF Reload
<1>6. CASE InitConfStep
  BY <1>4, <1>6 DEF InitConfStep, InitLock, InitField, InitFinish, InitBad
<1>7. CASE SuperviseStep
  BY <1>4, <1>7 DEF SuperviseStep, Tick, Rearm, Spawn
<1>8. CASE UNCHANGED vars
  BY <1>4, <1>8 DEF vars
<1>. QED BY <1>1, <1>2, <1>3, <1>5, <1>6, <1>7, <1>8 DEF Next, MonitorStep

\* Every step of the centre is a step of AlarmDelivery or leaves it alone.
LEMMA StepImplements ==
  TypeOK /\ PlaceInv /\ UndegradedInv /\ [Next]_vars
    => [Delivery!Next]_(Delivery!vars)
<1>. SUFFICES ASSUME TypeOK, PlaceInv, UndegradedInv, [Next]_vars
              PROVE  [Delivery!Next]_(Delivery!vars)
  OBVIOUS
<1>0. /\ stage \in [Alarms -> Stages] /\ MsgCh \in Seq(Alarms)
      /\ Degraded \in BOOLEAN
  BY DEF TypeOK, Degraded
<1>. USE DEF Delivery!Next, Delivery!vars
<1>1. ASSUME NEW c \in SUBSET Fields, Reload(c)
      PROVE  [Delivery!Next]_(Delivery!vars)
  <2>1. UNCHANGED fate
    BY <1>1 DEF Reload, fate
  <2>2. Degraded' = TRUE \/ Degraded' = Degraded
    <3>1. Degraded' <=> Degraded \/ c # Fields
      BY <1>1, DegradedForGood
    <3>2. Degraded' \in BOOLEAN
      BY DEF Degraded
    <3>. QED BY <1>0, <3>1, <3>2
  <2>. QED BY <2>1, <2>2 DEF Delivery!Degrade
<1>2. ASSUME NEW a \in Alarms, Raise(a)
      PROVE  [Delivery!Next]_(Delivery!vars)
  <2>1. UNCHANGED Degraded /\ stage[a] = "new"
    BY <1>2 DEF Raise, Move, Degraded
  <2>2. CASE IsRunOk
    <3>1. stage' = [stage EXCEPT ![a] = "checked"]
      BY <1>2, <2>2 DEF Raise, Move
    <3>2. fate' = [fate EXCEPT ![a] = "accepted"] /\ fate[a] = "new"
      BY <1>0, <2>1, <3>1, FateMoves DEF Stages, FateOf
    <3>. QED BY <2>1, <3>2 DEF Delivery!Accept
  <2>3. CASE ~IsRunOk
    <3>1. stage' = [stage EXCEPT ![a] = "dropped"]
      BY <1>2, <2>3 DEF Raise, Move
    <3>2. fate' = [fate EXCEPT ![a] = "refused"] /\ fate[a] = "new"
      BY <1>0, <2>1, <3>1, FateMoves DEF Stages, FateOf
    <3>3. Degraded
      BY <2>3 DEF UndegradedInv
    <3>. QED BY <2>1, <3>2, <3>3 DEF Delivery!Refuse
  <2>. QED BY <2>2, <2>3
<1>3. ASSUME NEW r \in Runs, Dispatch(r)
      PROVE  [Delivery!Next]_(Delivery!vars)
  <2>. DEFINE h == held[r]
  <2>1. UNCHANGED Degraded /\ h \in Alarms /\ stage[h] = "held"
    BY <1>3 DEF Dispatch, Degraded, PlaceInv
  <2>2. CASE IsRunOk
    <3>1. stage' = [stage EXCEPT ![h] = "mail"]
      BY <1>3, <2>2 DEF Dispatch
    <3>. HIDE DEF h
    <3>2. fate' = [fate EXCEPT ![h] = "attempted"] /\ fate[h] = "accepted"
      BY <1>0, <2>1, <3>1, FateMoves DEF Stages, FateOf
    <3>. QED BY <2>1, <3>2 DEF Delivery!Attempt
  <2>3. CASE ~IsRunOk
    <3>1. stage' = [stage EXCEPT ![h] = "lost"]
      BY <1>3, <2>3 DEF Dispatch
    <3>. HIDE DEF h
    <3>2. fate' = [fate EXCEPT ![h] = "lost"] /\ fate[h] = "accepted"
      BY <1>0, <2>1, <3>1, FateMoves DEF Stages, FateOf
    <3>3. Degraded
      BY <2>3 DEF UndegradedInv
    <3>. QED BY <2>1, <3>2, <3>3 DEF Delivery!Lose
  <2>. QED BY <2>2, <2>3
<1>4. ASSUME NEW a \in Alarms, Send(a) \/ MailStep(a)
      PROVE  UNCHANGED fate /\ UNCHANGED Degraded
  <2>1. UNCHANGED confs
    BY <1>4 DEF Send, MailStep, MailLock, MailFilter, MailAuth, MailSend
  <2>2. PICK t \in Stages :
          /\ stage' = [stage EXCEPT ![a] = t]
          /\ \/ t = "queued" /\ stage[a] = "checked"
             \/ /\ t \in {"reading", "filtered", "auth", "sent", "failed"}
                /\ stage[a] \in {"mail", "reading", "auth"}
    BY <1>4 DEF Send, MailStep, MailLock, MailFilter, MailAuth, MailSend, Move,
                Stages
  <2>3. FateOf(t) = FateOf(stage[a])
    BY <2>2 DEF FateOf
  <2>. QED BY <1>0, <2>1, <2>2, <2>3, FateStays DEF Degraded
<1>5. ASSUME NEW r \in Runs, Receive(r)
      PROVE  UNCHANGED fate /\ UNCHANGED Degraded
  <2>. DEFINE h == Head(MsgCh)
  <2>1. h \in Alarms /\ stage[h] = "queued"
    BY <1>0, <1>5 DEF Receive, PlaceInv
  <2>2. stage' = [stage EXCEPT ![h] = "held"] /\ UNCHANGED confs
    BY <1>5 DEF Receive
  <2>. HIDE DEF h
  <2>3. "held" \in Stages /\ FateOf("held") = FateOf(stage[h])
    BY <2>1 DEF FateOf, Stages
  <2>. QED BY <1>0, <2>1, <2>2, <2>3, FateStays DEF Degraded
<1>6. ASSUME NEW r \in Runs,
             StartCheck(r) \/ StartArm(r) \/ GiveUp(r) \/ TimerStop(r)
      PROVE  UNCHANGED <<stage, confs>>
  BY <1>6 DEF StartCheck, StartArm, GiveUp, TimerStop
<1>7. CASE InitConfStep \/ SuperviseStep \/ UNCHANGED vars
  <2>1. UNCHANGED <<stage, confs>>
    BY <1>7 DEF InitConfStep, InitLock, InitField, InitFinish, InitBad,
                SuperviseStep, Tick, Rearm, Spawn, vars
  <2>. QED BY <2>1 DEF fate, Degraded
<1>8. ASSUME NEW r \in Runs, RunStep(r)
      PROVE  [Delivery!Next]_(Delivery!vars)
  <2>1. CASE Dispatch(r)
    BY <1>3, <2>1
  <2>2. CASE Receive(r)
    BY <1>5, <2>2
  <2>3. CASE StartCheck(r) \/ StartArm(r) \/ GiveUp(r) \/ TimerStop(r)
    BY <1>6, <2>3 DEF fate, Degraded
  <2>. QED BY <1>8, <2>1, <2>2, <2>3 DEF RunStep
<1>. QED BY <1>1, <1>2, <1>4, <1>7, <1>8 DEF Next, MonitorStep

\* The alarm centre keeps the promise of AlarmDelivery: an alarm is accepted
\* or refused once, gets at most one mail attempt, and is refused or thrown
\* away only in a degraded process.
THEOREM CentreImplementsDelivery == Spec => DeliverySpec
<1>1. Init => Delivery!Init
  <2>. SUFFICES ASSUME Init PROVE Delivery!Init
    OBVIOUS
  <2>1. fate = [a \in Alarms |-> "new"]
    BY DEF Init, fate, FateOf
  <2>2. Degraded \in BOOLEAN
    BY DEF Degraded
  <2>. QED BY <2>1, <2>2 DEF Delivery!Init
<1>2. Init => PlaceInv
  BY DEF Init, PlaceInv
<1>. QED BY <1>1, <1>2, TypeCorrect, UndegradedAlways, PlaceStep, StepImplements, PTL
         DEF Spec, DeliverySpec, Delivery!Spec
=============================================================================
