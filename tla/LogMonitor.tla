---------------------------- MODULE LogMonitor -----------------------------
(***************************************************************************)
(* The log monitor (src/src/alarmlog/alarmlog.go): the goroutine executing *)
(* StartMonit, one goroutine per monitored service (a node, doMonit_), the *)
(* table MonitedMap, the channel MsgCh that stops each node, and the main  *)
(* goroutine, which loads configurations (InitConf), empties the table     *)
(* (StopMonit) and restarts StartMonit while IsLogMonitorOk is FALSE       *)
(* (src/src/ucserv/ucserv.go).  What a node reads and mails is left out.   *)
(*                                                                         *)
(* MonitedMap holds copies of the nodes.  The flag IslogNodeOk of a copy   *)
(* is TRUE for ever, so the branch of StartMonit that replaces a node with *)
(* the flag cleared is never taken and has no action here.                 *)
(***************************************************************************)
EXTENDS Naturals

CONSTANTS
  Services, Keys, Files,  \* names, key lists and log files in configurations
  ShortKeys,              \* key lists that StartMonit skips (at most 2 bytes)
  Missing,                \* log files that cannot be opened
  Confs,                  \* configurations: records of two maps, keys and files
  Nodes,                  \* goroutines available for nodes
  MaxReloads,             \* bound: reloads
  MaxFaults               \* bound: nodes that end on a failing command

Maps(D, R) == UNION {[S -> R] : S \in SUBSET D}

ASSUME ConstAssumption ==
  /\ ShortKeys \subseteq Keys /\ Missing \subseteq Files
  /\ Confs \subseteq [keys : Maps(Services, Keys), files : Maps(Services, Files)]
  /\ MaxReloads \in Nat /\ MaxFaults \in Nat

VARIABLES
  IsLogMonitorOk, IsNeedReload, IsconfigOk, IsNeedStop,   \* flags of logMonitor
  KeyMap, FilePathMap,     \* the configuration in force
  MonitedMap,              \* MonitedMap[s]: the node registered for service s
  npc, chan, spec,         \* the nodes: where they are, MsgCh, key list and file
  mon, phase, work, cur,   \* the goroutine executing StartMonit
  main, newConf,           \* the main goroutine and what it is loading
  reloads, faults

flags  == <<IsLogMonitorOk, IsNeedReload, IsconfigOk, IsNeedStop>>
confs  == <<KeyMap, FilePathMap>>
nodes  == <<npc, chan, spec>>
loop   == <<mon, phase, work, cur>>
super  == <<main, newConf, reloads>>
vars   == <<flags, confs, MonitedMap, nodes, loop, super, faults>>

NodePcs == {"dead", "sweep", "asleep"}
MonPcs == {"idle", "start", "arm", "iter", "stop", "drop", "open", "forget",
           "register", "check", "gate", "reset", "len", "sleep", "panic"}
Phases == {"add", "keys", "files", "prune"}
MainPcs == {"poll", "keys", "files", "swapped", "flag", "drain", "halt",
            "drainTick", "haltTick", "stopped", "rearmed", "panic"}

Empty == [s \in {} |-> {}]
Put(f, s, x) == [t \in DOMAIN f \cup {s} |-> IF t = s THEN x ELSE f[t]]
Without(f, s) == [t \in DOMAIN f \ {s} |-> f[t]]

Live(n) == npc[n] # "dead"
Registered(n) == \E s \in DOMAIN MonitedMap : MonitedMap[s] = n

Complete(c) == DOMAIN c.keys # {} /\ DOMAIN c.files # {}

\* _mutex_2 is held across steps only by StopMonit, _mutex_4 only by the part
\* of StartMonit that follows a change of the configuration.
TableLocked == main \in {"drain", "drainTick"}
ReloadLocked == \/ mon = "reset"
                \/ phase # "add" /\ mon \in {"iter", "stop", "drop", "open",
                                             "forget", "register"}

\* The state after the first InitConfig, as StartServer starts the monitor.
Init ==
  /\ newConf \in Confs
  /\ IsconfigOk = Complete(newConf)
  /\ IsNeedReload = IsconfigOk /\ IsNeedStop = ~IsconfigOk
  /\ IsLogMonitorOk = TRUE
  /\ KeyMap = IF IsconfigOk THEN newConf.keys ELSE Empty
  /\ FilePathMap = IF IsconfigOk THEN newConf.files ELSE Empty
  /\ MonitedMap = Empty
  /\ npc = [n \in Nodes |-> "dead"]
  /\ chan = [n \in Nodes |-> "closed"]
  /\ spec = [n \in Nodes |-> Empty]
  /\ mon = "start" /\ phase = "add" /\ work = Empty /\ cur = Empty
  /\ main = "poll"
  /\ reloads = 0 /\ faults = 0

-----------------------------------------------------------------------------
(* A node: proModify, then the select of doMonit_.                         *)

NodeSweep(n) ==
  /\ npc[n] = "sweep"
  /\ IF chan[n] = "stop"
     THEN /\ npc' = [npc EXCEPT ![n] = "dead"]
          /\ chan' = [chan EXCEPT ![n] = "closed"]
     ELSE /\ npc' = [npc EXCEPT ![n] = "asleep"]
          /\ UNCHANGED chan
  /\ UNCHANGED <<flags, confs, MonitedMap, spec, loop, super, faults>>

NodeWake(n) ==
  /\ npc[n] = "asleep"
  /\ npc' = [npc EXCEPT ![n] = IF IsNeedStop THEN "dead" ELSE "sweep"]
  /\ UNCHANGED <<flags, confs, MonitedMap, chan, spec, loop, super, faults>>

\* A command of proModify fails: the goroutine ends, its channel stays open.
NodeFail(n) ==
  /\ npc[n] = "sweep"
  /\ faults < MaxFaults
  /\ faults' = faults + 1
  /\ npc' = [npc EXCEPT ![n] = "dead"]
  /\ UNCHANGED <<flags, confs, MonitedMap, chan, spec, loop, super>>

-----------------------------------------------------------------------------
(* StartMonit: the first round over FilePathMap.                           *)

\* mutant: StartMonit returns without a word
GiveUp_Silent == mon' = "idle" /\ UNCHANGED flags

GiveUp ==
  /\ mon' = "idle"
  /\ IsLogMonitorOk' = FALSE
  /\ UNCHANGED <<IsNeedReload, IsconfigOk, IsNeedStop>>

Begin ==
  /\ mon = "start"
  /\ \/ IsconfigOk /\ mon' = "arm" /\ UNCHANGED flags
     \/ ~IsconfigOk /\ GiveUp
  /\ UNCHANGED <<confs, MonitedMap, nodes, phase, work, cur, super, faults>>

\* A range statement iterates over the map it starts with, whatever InitConf
\* puts in its place meanwhile.
Arm ==
  /\ mon = "arm"
  /\ IsNeedStop' = FALSE
  /\ mon' = "iter" /\ phase' = "add" /\ work' = FilePathMap
  /\ UNCHANGED <<IsLogMonitorOk, IsNeedReload, IsconfigOk, confs, MonitedMap,
                 nodes, cur, super, faults>>

\* The rest of a loop body that goes on to AddMonit(k, s, f), if there are
\* both a key list and a file for the service.
AddIfPaired(s, ks, fs) ==
  IF s \in DOMAIN ks /\ s \in DOMAIN fs
  THEN mon' = "open" /\ cur' = [srv |-> s, key |-> ks[s], file |-> fs[s]]
  ELSE mon' = "iter" /\ cur' = Empty

AddRound(s) ==
  /\ mon = "iter" /\ phase = "add"
  /\ s \in DOMAIN work
  /\ work' = Without(work, s)
  /\ IF s \in DOMAIN KeyMap /\ KeyMap[s] \in ShortKeys
     THEN UNCHANGED <<mon, cur>>
     ELSE AddIfPaired(s, KeyMap, work)
  /\ UNCHANGED <<flags, confs, MonitedMap, nodes, phase, super, faults>>

-----------------------------------------------------------------------------
(* AddMonit and doMonit.                                                   *)

Open ==
  /\ mon = "open"
  /\ mon' = IF cur.file \in Missing THEN "forget" ELSE "register"
  /\ UNCHANGED <<flags, confs, MonitedMap, nodes, phase, work, cur, super, faults>>

\* The service is deleted from the maps that are in force now.
Forget ==
  /\ mon = "forget"
  /\ FilePathMap' = Without(FilePathMap, cur.srv)
  /\ KeyMap' = Without(KeyMap, cur.srv)
  /\ mon' = "iter" /\ cur' = Empty
  /\ UNCHANGED <<flags, MonitedMap, nodes, phase, work, super, faults>>

Register(n) ==
  /\ mon = "register"
  /\ ~TableLocked
  /\ ~Live(n) /\ ~Registered(n)
  /\ MonitedMap' = Put(MonitedMap, cur.srv, n)
  /\ npc' = [npc EXCEPT ![n] = "sweep"]
  /\ chan' = [chan EXCEPT ![n] = "empty"]
  /\ spec' = [spec EXCEPT ![n] = cur]
  /\ mon' = "iter" /\ cur' = Empty
  /\ UNCHANGED <<flags, confs, phase, work, super, faults>>

-----------------------------------------------------------------------------
(* StartMonit: the loop that follows changes of the configuration, under   *)
(* _mutex_4.RLock but without _mutex_2.                                    *)

\* _mutex_2 is taken and released; no registered copy has IslogNodeOk FALSE.
Check ==
  /\ mon = "check"
  /\ ~TableLocked
  /\ mon' = "gate"
  /\ UNCHANGED <<flags, confs, MonitedMap, nodes, phase, work, cur, super, faults>>

Gate ==
  /\ mon = "gate"
  /\ main # "flag"
  /\ IF IsNeedReload
     THEN mon' = "iter" /\ phase' = "keys" /\ work' = KeyMap
     ELSE mon' = "reset" /\ UNCHANGED <<phase, work>>
  /\ UNCHANGED <<flags, confs, MonitedMap, nodes, cur, super, faults>>

\* A registered service is stopped and added again if its key list changed
\* (phase "keys") or its file (phase "files"); another one is added.
FollowRound(s) ==
  /\ mon = "iter" /\ phase \in {"keys", "files"}
  /\ s \in DOMAIN work
  /\ work' = Without(work, s)
  /\ IF s \notin DOMAIN MonitedMap
     THEN AddIfPaired(s, IF phase = "keys" THEN work ELSE KeyMap,
                         IF phase = "files" THEN work ELSE FilePathMap)
     ELSE LET n == MonitedMap[s]
              same == IF phase = "keys" THEN spec[n].key = work[s]
                                        ELSE spec[n].file = work[s]
          IN IF same THEN mon' = "iter" /\ cur' = Empty
             ELSE mon' = "stop" /\ cur' = [srv |-> s, old |-> n, new |-> work[s]]
  /\ UNCHANGED <<flags, confs, MonitedMap, nodes, phase, super, faults>>

\* A registered service without key list or file is stopped.
PruneRound(s) ==
  /\ mon = "iter" /\ phase = "prune"
  /\ s \in DOMAIN work
  /\ work' = Without(work, s)
  /\ IF s \in DOMAIN MonitedMap /\ (s \notin DOMAIN KeyMap \/ s \notin DOMAIN FilePathMap)
     THEN mon' = "stop" /\ cur' = [srv |-> s, old |-> MonitedMap[s], new |-> ""]
     ELSE UNCHANGED <<mon, cur>>
  /\ UNCHANGED <<flags, confs, MonitedMap, nodes, phase, super, faults>>

\* node.MsgCh <- 1: blocks on a full channel, panics on a closed one.
StopOld ==
  /\ mon = "stop"
  /\ chan[cur.old] # "stop"
  /\ chan' = [chan EXCEPT ![cur.old] = IF @ = "closed" THEN @ ELSE "stop"]
  /\ mon' = IF chan[cur.old] = "closed" THEN "panic" ELSE "drop"
  /\ UNCHANGED <<flags, confs, MonitedMap, npc, spec, phase, work, cur, super, faults>>

\* mutant: the service is not taken off the table
DropOld_Keeps ==
  /\ mon = "drop"
  /\ LET s == cur.srv IN
       CASE phase = "keys"  -> AddIfPaired(s, [t \in {s} |-> cur.new], FilePathMap)
         [] phase = "files" -> AddIfPaired(s, KeyMap, [t \in {s} |-> cur.new])
         [] phase = "prune" -> mon' = "iter" /\ cur' = Empty
  /\ UNCHANGED <<flags, confs, MonitedMap, nodes, phase, work, super, faults>>

DropOld ==
  /\ mon = "drop"
  /\ MonitedMap' = Without(MonitedMap, cur.srv)
  /\ LET s == cur.srv IN
       CASE phase = "keys"  -> AddIfPaired(s, [t \in {s} |-> cur.new], FilePathMap)
         [] phase = "files" -> AddIfPaired(s, KeyMap, [t \in {s} |-> cur.new])
         [] phase = "prune" -> mon' = "iter" /\ cur' = Empty
  /\ UNCHANGED <<flags, confs, nodes, phase, work, super, faults>>

\* One range statement is done.
RoundDone ==
  /\ mon = "iter" /\ work = Empty
  /\ CASE phase = "add" ->
            /\ IF MonitedMap = Empty THEN GiveUp ELSE mon' = "check" /\ UNCHANGED flags
            /\ UNCHANGED <<phase, work>>
       [] phase = "keys" ->
            phase' = "files" /\ work' = FilePathMap /\ UNCHANGED <<mon, flags>>
       [] phase = "files" ->
            phase' = "prune" /\ work' = MonitedMap /\ UNCHANGED <<mon, flags>>
       [] phase = "prune" ->
            phase' = "add" /\ mon' = "reset" /\ UNCHANGED <<work, flags>>
  /\ UNCHANGED <<confs, MonitedMap, nodes, cur, super, faults>>

Reset ==
  /\ mon = "reset"
  /\ IsNeedReload' = FALSE
  /\ mon' = "len"
  /\ UNCHANGED <<IsLogMonitorOk, IsconfigOk, IsNeedStop, confs, MonitedMap,
                 nodes, phase, work, cur, super, faults>>

CheckLen ==
  /\ mon = "len"
  /\ IF MonitedMap = Empty THEN GiveUp ELSE mon' = "sleep" /\ UNCHANGED flags
  /\ UNCHANGED <<confs, MonitedMap, nodes, phase, work, cur, super, faults>>

Wake ==
  /\ mon = "sleep"
  /\ mon' = "check"
  /\ UNCHANGED <<flags, confs, MonitedMap, nodes, phase, work, cur, super, faults>>

-----------------------------------------------------------------------------
(* InitConf and StopMonit, in the main goroutine.                          *)

Reload(c) ==
  /\ main = "poll"
  /\ reloads < MaxReloads
  /\ reloads' = reloads + 1
  /\ newConf' = c
  /\ IsconfigOk' = Complete(c)
  /\ main' = IF Complete(c) THEN "keys" ELSE "drain"
  /\ UNCHANGED <<IsLogMonitorOk, IsNeedReload, IsNeedStop, confs, MonitedMap,
                 nodes, loop, faults>>

\* mutant: the maps are mixed up
SwapKeys_Files ==
  /\ main = "keys"
  /\ KeyMap' = newConf.files
  /\ main' = "files"
  /\ UNCHANGED <<flags, FilePathMap, MonitedMap, nodes, loop, newConf, reloads, faults>>

SwapKeys ==
  /\ main = "keys"
  /\ KeyMap' = newConf.keys
  /\ main' = "files"
  /\ UNCHANGED <<flags, FilePathMap, MonitedMap, nodes, loop, newConf, reloads, faults>>

SwapFiles ==
  /\ main = "files"
  /\ FilePathMap' = newConf.files
  /\ main' = "swapped"
  /\ UNCHANGED <<flags, KeyMap, MonitedMap, nodes, loop, newConf, reloads, faults>>

\* _mutex_4.Lock is called: from now on Gate cannot lock it for reading.
CallLock ==
  /\ main = "swapped"
  /\ main' = "flag"
  /\ UNCHANGED <<flags, confs, MonitedMap, nodes, loop, newConf, reloads, faults>>

\* mutant: IsNeedReload is set without _mutex_4
SetFlag_NoLock ==
  /\ main = "flag"
  /\ IsNeedReload' = TRUE
  /\ main' = "poll"
  /\ UNCHANGED <<IsLogMonitorOk, IsconfigOk, IsNeedStop, confs, MonitedMap,
                 nodes, loop, newConf, reloads, faults>>

SetFlag ==
  /\ main = "flag"
  /\ ~ReloadLocked
  /\ IsNeedReload' = TRUE
  /\ main' = "poll"
  /\ UNCHANGED <<IsLogMonitorOk, IsconfigOk, IsNeedStop, confs, MonitedMap,
                 nodes, loop, newConf, reloads, faults>>

\* mutant: StopMonit takes a node off the table without stopping it
DrainOne_Silent(s) ==
  /\ TableLocked
  /\ s \in DOMAIN MonitedMap
  /\ MonitedMap' = Without(MonitedMap, s)
  /\ UNCHANGED <<flags, confs, nodes, loop, super, faults>>

DrainOne(s) ==
  /\ TableLocked
  /\ s \in DOMAIN MonitedMap
  /\ LET n == MonitedMap[s] IN
       /\ chan[n] # "stop"
       /\ chan' = [chan EXCEPT ![n] = IF @ = "closed" THEN @ ELSE "stop"]
       /\ main' = IF chan[n] = "closed" THEN "panic" ELSE main
  /\ MonitedMap' = Without(MonitedMap, s)
  /\ UNCHANGED <<flags, confs, npc, spec, loop, newConf, reloads, faults>>

DrainDone ==
  /\ TableLocked
  /\ MonitedMap = Empty
  /\ main' = IF main = "drain" THEN "halt" ELSE "haltTick"
  /\ UNCHANGED <<flags, confs, MonitedMap, nodes, loop, newConf, reloads, faults>>

Halt ==
  /\ main \in {"halt", "haltTick"}
  /\ IsNeedStop' = TRUE
  /\ main' = IF main = "halt" THEN "poll" ELSE "stopped"
  /\ UNCHANGED <<IsLogMonitorOk, IsNeedReload, IsconfigOk, confs, MonitedMap,
                 nodes, loop, newConf, reloads, faults>>

-----------------------------------------------------------------------------
(* The loop of StartServer.                                                *)

Tick ==
  /\ main = "poll"
  /\ ~IsLogMonitorOk
  /\ main' = "drainTick"
  /\ UNCHANGED <<flags, confs, MonitedMap, nodes, loop, newConf, reloads, faults>>

Rearm ==
  /\ main = "stopped"
  /\ IsLogMonitorOk' = TRUE
  /\ main' = "rearmed"
  /\ UNCHANGED <<IsNeedReload, IsconfigOk, IsNeedStop, confs, MonitedMap,
                 nodes, loop, newConf, reloads, faults>>

Spawn ==
  /\ main = "rearmed"
  /\ mon' = "start"
  /\ main' = "poll"
  /\ UNCHANGED <<flags, confs, MonitedMap, nodes, phase, work, cur, newConf,
                 reloads, faults>>

-----------------------------------------------------------------------------
NodeStep(n) == NodeSweep(n) \/ NodeWake(n) \/ NodeFail(n)
MonStep ==
  \/ Begin \/ Arm \/ Open \/ Forget \/ Check \/ Gate \/ StopOld \/ DropOld
  \/ RoundDone \/ Reset \/ CheckLen \/ Wake
  \/ \E s \in Services : AddRound(s) \/ FollowRound(s) \/ PruneRound(s)
  \/ \E n \in Nodes : Register(n)
MainStep ==
  \/ SwapKeys \/ SwapFiles \/ CallLock \/ SetFlag \/ DrainDone \/ Halt
  \/ Tick \/ Rearm \/ Spawn
  \/ \E s \in Services : DrainOne(s)

Next ==
  \/ \E n \in Nodes : NodeStep(n)
  \/ MonStep
  \/ MainStep
  \/ \E c \in Confs : Reload(c)

Spec == Init /\ [][Next]_vars

\* Every goroutine that can go on does.  Reloads and failures are not fair.
FairSpec ==
  /\ Spec
  /\ \A n \in Nodes : WF_vars(NodeSweep(n) \/ NodeWake(n))
  /\ WF_vars(MonStep)
  /\ WF_vars(MainStep)

-----------------------------------------------------------------------------
(* Properties.                                                             *)

TypeOK ==
  /\ IsLogMonitorOk \in BOOLEAN /\ IsNeedReload \in BOOLEAN
  /\ IsconfigOk \in BOOLEAN /\ IsNeedStop \in BOOLEAN
  /\ KeyMap \in Maps(Services, Keys) /\ FilePathMap \in Maps(Services, Files)
  /\ MonitedMap \in Maps(Services, Nodes)
  /\ npc \in [Nodes -> NodePcs]
  /\ chan \in [Nodes -> {"empty", "stop", "closed"}]
  /\ mon \in MonPcs /\ phase \in Phases /\ main \in MainPcs
  /\ DOMAIN work \subseteq Services
  /\ newConf \in Confs
  /\ reloads \in 0 .. MaxReloads /\ faults \in 0 .. MaxFaults

\* No node runs on unseen: one that has not been told to stop is registered
\* under its service, so no two of them monitor, and mail for, the same one.
NoOrphan ==
  \A n \in Nodes : Live(n) /\ chan[n] = "empty" =>
    /\ spec[n].srv \in DOMAIN MonitedMap
    /\ MonitedMap[spec[n].srv] = n

\* When the monitor sleeps and no change is announced, the table is exactly
\* what the configuration in force asks for: no reload has been lost, whatever
\* StartMonit was doing when InitConf exchanged the maps.
SyncedWhenIdle ==
  mon = "sleep" /\ ~IsNeedReload /\ main = "poll" /\ IsconfigOk =>
    /\ DOMAIN MonitedMap = DOMAIN KeyMap \cap DOMAIN FilePathMap
    /\ \A s \in DOMAIN MonitedMap :
         /\ spec[MonitedMap[s]].key = KeyMap[s]
         /\ spec[MonitedMap[s]].file = FilePathMap[s]

\* A node is told to stop once: nobody sends on the channel it has closed.
NoPanic == mon # "panic" /\ main # "panic"

\* StartServer starts StartMonit, whose loop nobody but itself can end, only
\* when the last one has returned.
NoDoubleStart == [][main = "rearmed" /\ main' = "poll" => mon = "idle"]_vars

\* The goroutine executing StartMonit as its supervisor sees it.
Task == INSTANCE SupervisedTask
          WITH Workers <- {"StartMonit"}, ok <- IsLogMonitorOk,
               workers <- IF mon = "idle" THEN {} ELSE {"StartMonit"}

\* StartMonit implements SupervisedTask: it clears the flag whenever it
\* returns, nobody else clears or sets it while it runs, StopMonit and
\* InitConf included, and it is not started twice.
SupervisedSpec == Task!Spec /\ NoDoubleStart

\* Every service of the last configuration, and no other, ends up with a live
\* node that has its key list and its file.
InForce ==
  /\ DOMAIN MonitedMap = DOMAIN newConf.keys \cap DOMAIN newConf.files
  /\ \A s \in DOMAIN MonitedMap : LET n == MonitedMap[s] IN
       Live(n) /\ spec[n].key = newConf.keys[s] /\ spec[n].file = newConf.files[s]

ReloadTakesEffect == <>[](main = "poll" /\ IsconfigOk) => <>[]InForce

\* A service in the table of monitored logs is being monitored, or will be
\* again, or leaves the table.
RegisteredIsMonitored ==
  <>[]IsconfigOk =>
    \A n \in Nodes : []<>(Registered(n) => Live(n))
=============================================================================
