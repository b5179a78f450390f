----------------------------- MODULE SysMonitor -----------------------------
(***************************************************************************)
(* The system monitor (src/src/alarmsys): the goroutine of StartMonit,     *)
(* which measures the host again and again and sends what is over a limit  *)
(* to the alarm centre.  What the commands print and what the parsers of   *)
(* alarmsys_cpumem.go make of it is abstracted to whether there is one more *)
(* alarm to raise in a sweep.                                              *)
(*                                                                         *)
(* Module Server starts and restarts this goroutine and gives it an alarm  *)
(* centre to send to.                                                      *)
(***************************************************************************)
EXTENDS Naturals, Sequences

CONSTANTS
  Modules,      \* "alarm", "pro", "log", "sys"
  ChanCap       \* capacity of the alarm centre's MsgCh (1024 in the code)

VARIABLES
  ok, need,     \* the "run ok" and IsNeedStop flags of the modules
  queue,        \* alarms in MsgCh
  spc           \* StartMonit: where it is

sysVars == <<ok, need, queue, spc>>

SysPcs == {"off", "start", "sweep", "send"}

\* getSysMemTotal fails: the module reports that it is down.
SysNoTotal ==
  /\ spc = "start"
  /\ spc' = "off"
  /\ ok' = [ok EXCEPT !["sys"] = FALSE]
  /\ UNCHANGED <<need, queue>>

\* mutant: IsNeedStop is not reset
SysStart_NoReset ==
  /\ spc = "start"
  /\ spc' = "sweep"
  /\ UNCHANGED <<ok, need, queue>>

SysStart ==
  /\ spc = "start"
  /\ spc' = "sweep"
  /\ need' = [need EXCEPT !["sys"] = FALSE]
  /\ UNCHANGED <<ok, queue>>

\* A check finds something over its limit: a process, the cpu, the memory or
\* the disks.  sendAlarmMsg, up to the send.
SysRaise ==
  /\ spc = "sweep"
  /\ ok["alarm"]
  /\ spc' = "send"
  /\ UNCHANGED <<ok, need, queue>>

SysSend ==
  /\ spc = "send"
  /\ queue < ChanCap
  /\ queue' = queue + 1
  /\ spc' = "sweep"
  /\ UNCHANGED <<ok, need>>

\* The checks are done, those whose command failed are skipped; the head of
\* the loop.  A loop that ended here would leave IsSysMonitOk set.
SysLoop ==
  /\ spc = "sweep"
  /\ spc' = IF need["sys"] THEN "off" ELSE "sweep"
  /\ UNCHANGED <<ok, need, queue>>

\* What the goroutine does when the host answers, and all it does.
SysGo == SysStart \/ SysSend \/ SysLoop
SysStep == SysGo \/ SysRaise \/ SysNoTotal
=============================================================================
