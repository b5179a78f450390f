---------------------------- MODULE AlarmCenter ----------------------------
(***************************************************************************)
(* The alarm centre (src/src/alarm/alarm.go): the channel MsgCh that every *)
(* monitor sends its alarms to, the goroutines executing StartAlarm and    *)
(* doAlarm, one mail goroutine per alarm, the account data behind          *)
(* _mutex_1, and the main goroutine (src/src/ucserv/ucserv.go), which      *)
(* reloads the configuration and restarts the centre whenever IsRunOk is   *)
(* FALSE.                                                                  *)
(*                                                                         *)
(* An alarm is a member of Alarms, raised at most once; stage[a] is also   *)
(* the program counter of the goroutine that raises it and, later, of the  *)
(* goroutine that mails it.  The flags are read and written without any    *)
(* lock, one at a time, as in the code.                                    *)
(***************************************************************************)
EXTENDS Naturals, Sequences

CONSTANTS
  Alarms,       \* the alarms the monitors raise
  Runs,         \* goroutines available to execute StartAlarm
  ChanCap,      \* capacity of MsgCh (1024 in the code)
  MaxConfs,     \* bound: configurations loaded, the one at start included
  PromptStop,   \* TRUE: the sleeps of the main goroutine (5 s, 3 s) outlast
                \* what a run needs to start, or to notice IsNeedStop (1 s)
  NoAlarm       \* held[r] when run r holds no alarm

ASSUME ConstAssumption ==
  /\ ChanCap \in Nat \ {0}
  /\ MaxConfs \in Nat \ {0}
  /\ PromptStop \in BOOLEAN
  /\ NoAlarm \notin Alarms

VARIABLES
  IsRunOk, IsConfigOk, IsNeedStop,   \* the flags of alarmObject
  account,      \* account[f]: the configuration field f came from, 0 for ""
  readers,      \* alarms whose mail goroutine holds _mutex_1.RLock
  writer,       \* _mutex_1: "free", "waiting" (Lock called) or "held"
  MsgCh,        \* contents of the channel
  stage,        \* stage[a]: where alarm a is
  used,         \* used[a]: the account fields its mail was sent with
  pc, held,     \* the runs of StartAlarm and the alarm each has received
  main,         \* where the main goroutine is
  confs         \* confs[v]: the account fields configuration v provides

flags == <<IsRunOk, IsConfigOk, IsNeedStop>>
mutex == <<readers, writer>>
vars  == <<flags, account, mutex, MsgCh, stage, used, pc, held, main, confs>>

\* Host stands for Host and ServerAddr, User for User and PassWord.
Fields == {"Host", "User"}

Stages == {"new", "dropped", "checked", "queued", "held", "lost",
           "mail", "reading", "auth", "filtered", "sent", "failed"}
RunPcs == {"idle", "start", "armed", "loop", "got", "failing"}
MainPcs == {"poll", "lock", "fill", "bad", "stopped", "rearmed"}

Unused == [f \in Fields |-> 0]
AccountOf(v) == [f \in Fields |-> IF f \in confs[v] THEN v ELSE 0]

Init ==
  /\ \E c \in SUBSET Fields :
       /\ confs = <<c>>
       /\ account = [f \in Fields |-> IF f \in c THEN 1 ELSE 0]
       /\ IsConfigOk = (c = Fields)
       /\ IsRunOk = (c = Fields)
  /\ IsNeedStop = FALSE
  /\ readers = {}
  /\ writer = "free"
  /\ MsgCh = <<>>
  /\ stage = [a \in Alarms |-> "new"]
  /\ used = [a \in Alarms |-> Unused]
  /\ \E r \in Runs : pc = [s \in Runs |-> IF s = r THEN "start" ELSE "idle"]
  /\ held = [r \in Runs |-> NoAlarm]
  /\ main = "poll"

-----------------------------------------------------------------------------
(* The monitors: parseLog, proParse and sendAlarmMsg all test IsRunOk and  *)
(* then send, which blocks while the channel is full.                      *)

Move(a, from, to) ==
  /\ stage[a] = from
  /\ stage' = [stage EXCEPT ![a] = to]

Raise(a) ==
  /\ Move(a, "new", IF IsRunOk THEN "checked" ELSE "dropped")
  /\ UNCHANGED <<flags, account, mutex, MsgCh, used, pc, held, main, confs>>

\* mutant: a send that does not wait for room in the channel
Send_Unbounded(a) ==
  /\ Move(a, "checked", "queued")
  /\ MsgCh' = Append(MsgCh, a)
  /\ UNCHANGED <<flags, account, mutex, used, pc, held, main, confs>>

Send(a) ==
  /\ Move(a, "checked", "queued")
  /\ Len(MsgCh) < ChanCap
  /\ MsgCh' = Append(MsgCh, a)
  /\ UNCHANGED <<flags, account, mutex, used, pc, held, main, confs>>

-----------------------------------------------------------------------------
(* StartAlarm and doAlarm, executed by run r.                              *)

StartCheck(r) ==
  /\ pc[r] = "start"
  /\ pc' = [pc EXCEPT ![r] = IF IsConfigOk THEN "armed" ELSE "failing"]
  /\ UNCHANGED <<flags, account, mutex, MsgCh, stage, used, held, main, confs>>

\* mutant: IsNeedStop is not reset when the centre starts again
StartArm_NoReset(r) ==
  /\ pc[r] = "armed"
  /\ pc' = [pc EXCEPT ![r] = "loop"]
  /\ UNCHANGED <<flags, account, mutex, MsgCh, stage, used, held, main, confs>>

StartArm(r) ==
  /\ pc[r] = "armed"
  /\ pc' = [pc EXCEPT ![r] = "loop"]
  /\ IsNeedStop' = FALSE
  /\ UNCHANGED <<IsRunOk, IsConfigOk, account, mutex, MsgCh, stage, used,
                 held, main, confs>>

Receive(r) ==
  /\ pc[r] = "loop"
  /\ MsgCh # <<>>
  /\ stage' = [stage EXCEPT ![Head(MsgCh)] = "held"]
  /\ held' = [held EXCEPT ![r] = Head(MsgCh)]
  /\ MsgCh' = Tail(MsgCh)
  /\ pc' = [pc EXCEPT ![r] = "got"]
  /\ UNCHANGED <<flags, account, mutex, used, main, confs>>

\* mutant: the test of IsRunOk is inverted
Dispatch_Inverted(r) ==
  /\ pc[r] = "got"
  /\ stage' = [stage EXCEPT ![held[r]] = IF IsRunOk THEN "lost" ELSE "mail"]
  /\ held' = [held EXCEPT ![r] = NoAlarm]
  /\ pc' = [pc EXCEPT ![r] = IF IsRunOk THEN "failing" ELSE "loop"]
  /\ UNCHANGED <<flags, account, mutex, MsgCh, used, main, confs>>

\* IsRunOk is read after the receive: TRUE starts a mail goroutine, FALSE
\* throws the alarm away and ends the run.
Dispatch(r) ==
  /\ pc[r] = "got"
  /\ stage' = [stage EXCEPT ![held[r]] = IF IsRunOk THEN "mail" ELSE "lost"]
  /\ held' = [held EXCEPT ![r] = NoAlarm]
  /\ pc' = [pc EXCEPT ![r] = IF IsRunOk THEN "loop" ELSE "failing"]
  /\ UNCHANGED <<flags, account, mutex, MsgCh, used, main, confs>>

\* mutant: a run that ends leaves IsRunOk set
GiveUp_KeepsFlag(r) ==
  /\ pc[r] = "failing"
  /\ pc' = [pc EXCEPT ![r] = "idle"]
  /\ UNCHANGED <<flags, account, mutex, MsgCh, stage, used, held, main, confs>>

GiveUp(r) ==
  /\ pc[r] = "failing"
  /\ pc' = [pc EXCEPT ![r] = "idle"]
  /\ IsRunOk' = FALSE
  /\ UNCHANGED <<IsConfigOk, IsNeedStop, account, mutex, MsgCh, stage, used,
                 held, main, confs>>

\* The one-second timer: a run that finds IsNeedStop set returns, and leaves
\* IsRunOk alone.
TimerStop(r) ==
  /\ pc[r] = "loop"
  /\ IsNeedStop
  /\ pc' = [pc EXCEPT ![r] = "idle"]
  /\ UNCHANGED <<flags, account, mutex, MsgCh, stage, used, held, main, confs>>

-----------------------------------------------------------------------------
(* sendEmail, in a goroutine of its own for each alarm, under RLock.  A    *)
(* waiting Lock already keeps new readers out (sync.RWMutex).              *)

MailLock(a) ==
  /\ writer = "free"
  /\ Move(a, "mail", "reading")
  /\ readers' = readers \cup {a}
  /\ UNCHANGED <<flags, account, writer, MsgCh, used, pc, held, main, confs>>

\* mutant: the early return for a filtered alarm keeps the read lock
MailFilter_KeepsLock(a) ==
  /\ Move(a, "reading", "filtered")
  /\ UNCHANGED <<flags, account, mutex, MsgCh, used, pc, held, main, confs>>

MailFilter(a) ==
  /\ Move(a, "reading", "filtered")
  /\ readers' = readers \ {a}
  /\ UNCHANGED <<flags, account, writer, MsgCh, used, pc, held, main, confs>>

MailAuth(a) ==
  /\ Move(a, "reading", "auth")
  /\ used' = [used EXCEPT ![a]["User"] = account["User"]]
  /\ UNCHANGED <<flags, account, mutex, MsgCh, pc, held, main, confs>>

MailSend(a) ==
  /\ \E outcome \in {"sent", "failed"} : Move(a, "auth", outcome)
  /\ used' = [used EXCEPT ![a]["Host"] = account["Host"]]
  /\ readers' = readers \ {a}
  /\ UNCHANGED <<flags, account, writer, MsgCh, pc, held, main, confs>>

-----------------------------------------------------------------------------
(* InitConf, called by the main goroutine for SIGUSR1.                     *)

Reload(c) ==
  /\ main = "poll"
  /\ Len(confs) < MaxConfs
  /\ main' = "lock"
  /\ writer' = "waiting"
  /\ confs' = Append(confs, c)
  /\ UNCHANGED <<flags, account, readers, MsgCh, stage, used, pc, held>>

\* mutant: the account is cleared while mail goroutines are reading it
InitLock_NoWait ==
  /\ main = "lock"
  /\ main' = "fill"
  /\ writer' = "held"
  /\ account' = Unused
  /\ UNCHANGED <<flags, readers, MsgCh, stage, used, pc, held, confs>>

InitLock ==
  /\ main = "lock"
  /\ readers = {}
  /\ main' = "fill"
  /\ writer' = "held"
  /\ account' = Unused
  /\ UNCHANGED <<flags, readers, MsgCh, stage, used, pc, held, confs>>

\* One round of the loop over the configuration, in any order of its keys.
InitField(f) ==
  /\ main = "fill"
  /\ f \in confs[Len(confs)]
  /\ account[f] = 0
  /\ account' = [account EXCEPT ![f] = Len(confs)]
  /\ UNCHANGED <<flags, mutex, MsgCh, stage, used, pc, held, main, confs>>

\* mutant: the branch for an incomplete account is taken every time
InitFinish_AlwaysBad ==
  /\ main = "fill"
  /\ account = AccountOf(Len(confs))
  /\ IsConfigOk' = FALSE
  /\ main' = "bad"
  /\ UNCHANGED <<IsRunOk, IsNeedStop, account, mutex, MsgCh, stage, used,
                 pc, held, confs>>

\* mutant: InitConf returns with _mutex_1 locked
InitFinish_KeepsLock ==
  /\ main = "fill"
  /\ account = AccountOf(Len(confs))
  /\ IsConfigOk' = (\A f \in Fields : account[f] # 0)
  /\ main' = IF IsConfigOk' THEN "poll" ELSE "bad"
  /\ UNCHANGED <<IsRunOk, IsNeedStop, account, mutex, MsgCh, stage, used,
                 pc, held, confs>>

InitFinish ==
  /\ main = "fill"
  /\ account = AccountOf(Len(confs))
  /\ IsConfigOk' = (\A f \in Fields : account[f] # 0)
  /\ IF IsConfigOk'
     THEN main' = "poll" /\ writer' = "free"
     ELSE main' = "bad"  /\ UNCHANGED writer
  /\ UNCHANGED <<IsRunOk, IsNeedStop, account, readers, MsgCh, stage, used,
                 pc, held, confs>>

InitBad ==
  /\ main = "bad"
  /\ main' = "poll"
  /\ IsRunOk' = FALSE
  /\ writer' = "free"
  /\ UNCHANGED <<IsConfigOk, IsNeedStop, account, readers, MsgCh, stage, used,
                 pc, held, confs>>

-----------------------------------------------------------------------------
(* The loop of StartServer in ucserv.go: StopAlarm, three seconds, restart.*)

Tick ==
  /\ main = "poll"
  /\ ~IsRunOk
  /\ PromptStop => \A r \in Runs : pc[r] \notin {"start", "armed"}
  /\ main' = "stopped"
  /\ IsNeedStop' = TRUE
  /\ UNCHANGED <<IsRunOk, IsConfigOk, account, mutex, MsgCh, stage, used,
                 pc, held, confs>>

Rearm ==
  /\ main = "stopped"
  /\ PromptStop => \A r \in Runs : pc[r] = "idle"
  /\ main' = "rearmed"
  /\ IsRunOk' = TRUE
  /\ UNCHANGED <<IsConfigOk, IsNeedStop, account, mutex, MsgCh, stage, used,
                 pc, held, confs>>

Spawn(r) ==
  /\ main = "rearmed"
  /\ pc[r] = "idle"
  /\ main' = "poll"
  /\ pc' = [pc EXCEPT ![r] = "start"]
  /\ UNCHANGED <<flags, account, mutex, MsgCh, stage, used, held, confs>>

-----------------------------------------------------------------------------
MonitorStep(a) == Raise(a) \/ Send(a)
MailStep(a) == MailLock(a) \/ MailFilter(a) \/ MailAuth(a) \/ MailSend(a)
RunStep(r) == \/ StartCheck(r) \/ StartArm(r) \/ Receive(r) \/ Dispatch(r)
              \/ GiveUp(r) \/ TimerStop(r)
InitConfStep == InitLock \/ InitFinish \/ InitBad \/ \E f \in Fields : InitField(f)
SuperviseStep == Tick \/ Rearm \/ \E r \in Runs : Spawn(r)

Next ==
  \/ \E a \in Alarms : MonitorStep(a) \/ MailStep(a)
  \/ \E r \in Runs : RunStep(r)
  \/ \E c \in SUBSET Fields : Reload(c)
  \/ InitConfStep
  \/ SuperviseStep

Spec == Init /\ [][Next]_vars

\* Every goroutine that can go on does: the Go scheduler is preemptive, the
\* timer case of doAlarm's select recurs every second, and SendMail is taken
\* to return.  Raising an alarm and reloading are the environment's choice.
Fairness ==
  /\ \A a \in Alarms : WF_vars(Send(a)) /\ WF_vars(MailStep(a))
  /\ \A r \in Runs : /\ WF_vars(StartCheck(r) \/ StartArm(r) \/ GiveUp(r))
                     /\ WF_vars(Receive(r) \/ Dispatch(r))
                     /\ WF_vars(TimerStop(r))
  /\ WF_vars(InitConfStep)
  /\ WF_vars(SuperviseStep)

FairSpec == Spec /\ Fairness

-----------------------------------------------------------------------------
(* Properties.                                                             *)

TypeOK ==
  /\ IsRunOk \in BOOLEAN /\ IsConfigOk \in BOOLEAN /\ IsNeedStop \in BOOLEAN
  /\ account \in [Fields -> Nat]
  /\ readers \subseteq Alarms
  /\ writer \in {"free", "waiting", "held"}
  /\ MsgCh \in Seq(Alarms) /\ Len(MsgCh) <= ChanCap
  /\ stage \in [Alarms -> Stages]
  /\ used \in [Alarms -> [Fields -> Nat]]
  /\ pc \in [Runs -> RunPcs]
  /\ held \in [Runs -> Alarms \cup {NoAlarm}]
  /\ main \in MainPcs
  /\ confs \in Seq(SUBSET Fields) /\ confs # <<>>

\* An incomplete account section has been loaded at some time.
Degraded == \E v \in DOMAIN confs : confs[v] # Fields

\* A run that consumes the channel, or is on its way to decide whether to.
Serving(r) == pc[r] # "idle"

\* While IsRunOk invites the monitors to send, some run of StartAlarm is
\* there to receive what they send or to withdraw the invitation; only the
\* instant between IsRunOk = true and go StartAlarm() is excepted.  A run
\* that ended on IsNeedStop without clearing IsRunOk would break it.
RunOkIsServed == IsRunOk /\ main # "rearmed" => \E r \in Runs : Serving(r)

\* A mail that went out used the account of one configuration, as InitConf
\* left it: never the fields of two configurations, never fields that
\* InitConf had cleared and not yet filled again.
NoTornAccount ==
  \A a \in Alarms : stage[a] \in {"sent", "failed"} =>
    \E v \in DOMAIN confs : used[a] = AccountOf(v)

\* The restart protocol loses nothing by itself: as long as every loaded
\* configuration was complete, IsRunOk stays TRUE and no alarm is dropped by
\* a monitor or thrown away by doAlarm.
NothingLostUndegraded ==
  ~Degraded => /\ IsRunOk
               /\ \A a \in Alarms : stage[a] \notin {"dropped", "lost"}

\* What the promise of module AlarmDelivery is about.
FateOf(s) == CASE s = "new" -> "new"
               [] s = "dropped" -> "refused"
               [] s \in {"checked", "queued", "held"} -> "accepted"
               [] s = "lost" -> "lost"
               [] OTHER -> "attempted"

fate == [a \in Alarms |-> FateOf(stage[a])]

Delivery == INSTANCE AlarmDelivery WITH fate <- fate, degraded <- Degraded

\* The centre implements AlarmDelivery: one decision per alarm, at most one
\* mail attempt, no refusal and no loss in a process never degraded.
DeliverySpec == Delivery!Spec

\* Once the configuration is complete for good, the supervision brings the
\* centre up and keeps it up, whatever the flags looked like before.
CentreRecovers ==
  <>[]IsConfigOk => <>[](IsRunOk /\ \E r \in Runs : pc[r] \in {"loop", "got"})

\* Once the configuration is complete for good, every alarm whose monitor
\* found IsRunOk set is disposed of: no monitor stays blocked on MsgCh and
\* nothing stays in the channel.
AlarmsDisposedOf ==
  <>[]IsConfigOk =>
    \A a \in Alarms : [](stage[a] = "checked" =>
      <>(stage[a] \in {"lost", "filtered", "sent", "failed"}))

\* A reload gets _mutex_1 and the main goroutine returns to its loop,
\* although mail goroutines hold the lock for as long as they send.
ReloadReturns == (main = "lock") ~> (main = "poll")
=============================================================================
