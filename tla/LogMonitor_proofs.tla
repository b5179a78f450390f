------------------------- MODULE LogMonitor_proofs --------------------------
(***************************************************************************)
(* Theorems about the log monitor, for every set of services, key lists,   *)
(* files, configurations and nodes, and every bound: type correctness,     *)
(* NoOrphan, SyncedWhenIdle, NoDoubleStart, that it implements             *)
(* SupervisedTask and, when every configuration that is loaded monitors at *)
(* least one log, NoPanic.                                                 *)
(***************************************************************************)
EXTENDS LogMonitor, TLAPS

-----------------------------------------------------------------------------
(* Maps.                                                                   *)

LEMMA MapsElim ==
  ASSUME NEW D, NEW R, NEW f \in Maps(D, R)
  PROVE  DOMAIN f \subseteq D /\ \A x \in DOMAIN f : f[x] \in R
BY DEF Maps

LEMMA EmptyMap ==
  ASSUME NEW D, NEW R
  PROVE  Empty \in Maps(D, R) /\ DOMAIN Empty = {}
<1>1. Empty \in [{} -> R] /\ {} \in SUBSET D
  BY DEF Empty
<1>. QED BY <1>1 DEF Maps

LEMMA PutMap ==
  ASSUME NEW D, NEW R, NEW f \in Maps(D, R), NEW s \in D, NEW x \in R
  PROVE  Put(f, s, x) \in Maps(D, R)
<1>1. DOMAIN f \subseteq D /\ \A t \in DOMAIN f : f[t] \in R
  BY MapsElim
<1>2. \A t \in DOMAIN f \cup {s} : (IF t = s THEN x ELSE f[t]) \in R
  BY <1>1
<1>3. Put(f, s, x) \in [DOMAIN f \cup {s} -> R]
  BY <1>2 DEF Put
<1>4. DOMAIN f \cup {s} \in SUBSET D
  BY <1>1
<1>. QED BY <1>3, <1>4 DEF Maps

LEMMA WithoutMap ==
  ASSUME NEW D, NEW R, NEW f \in Maps(D, R), NEW s
  PROVE  Without(f, s) \in Maps(D, R)
<1>1. Without(f, s) \in [DOMAIN f \ {s} -> R]
  BY MapsElim DEF Without
<1>2. DOMAIN f \ {s} \in SUBSET D
  BY MapsElim
<1>. QED BY <1>1, <1>2 DEF Maps

\* What Without makes of a map.
LEMMA WithoutValues ==
  ASSUME NEW f, NEW s
  PROVE  /\ DOMAIN Without(f, s) = DOMAIN f \ {s}
         /\ \A t \in DOMAIN f : t # s => Without(f, s)[t] = f[t]
BY DEF Without

\* The maps of a configuration.
LEMMA ConfMaps ==
  ASSUME NEW c \in Confs
  PROVE  c.keys \in Maps(Services, Keys) /\ c.files \in Maps(Services, Files)
BY ConstAssumption

-----------------------------------------------------------------------------
(* Type correctness.                                                       *)

\* StartMonit is in AddMonit, or it is stopping a node.
Adding == mon \in {"open", "forget", "register"}
Stopping == mon \in {"stop", "drop"}

FlagsOK == /\ IsLogMonitorOk \in BOOLEAN /\ IsNeedReload \in BOOLEAN
           /\ IsconfigOk \in BOOLEAN /\ IsNeedStop \in BOOLEAN
ConfsOK == KeyMap \in Maps(Services, Keys) /\ FilePathMap \in Maps(Services, Files)
TableOK == MonitedMap \in Maps(Services, Nodes)
NodesOK == /\ npc \in [Nodes -> NodePcs]
           /\ chan \in [Nodes -> {"empty", "stop", "closed"}]
           /\ DOMAIN spec = Nodes
LoopOK == /\ mon \in MonPcs /\ phase \in Phases
          /\ DOMAIN work \subseteq Services
          /\ Adding => cur.srv \in Services
          /\ Stopping => cur.srv \in Services /\ cur.old \in Nodes /\ phase # "add"
SuperOK == /\ main \in MainPcs /\ newConf \in Confs
           /\ reloads \in 0 .. MaxReloads /\ faults \in 0 .. MaxFaults

TypeInv == FlagsOK /\ ConfsOK /\ TableOK /\ NodesOK /\ LoopOK /\ SuperOK

\* A step that leaves a group of variables alone leaves its part alone.
LEMMA TypeFrames ==
  /\ UNCHANGED flags /\ FlagsOK => FlagsOK'
  /\ UNCHANGED confs /\ ConfsOK => ConfsOK'
  /\ UNCHANGED MonitedMap /\ TableOK => TableOK'
  /\ UNCHANGED nodes /\ NodesOK => NodesOK'
  /\ UNCHANGED loop /\ LoopOK => LoopOK'
  /\ UNCHANGED <<super, faults>> /\ SuperOK => SuperOK'
BY DEF flags, confs, nodes, loop, super, FlagsOK, ConfsOK, TableOK, NodesOK,
       LoopOK, SuperOK, Adding, Stopping

LEMMA BoundsNat == MaxReloads \in Nat /\ MaxFaults \in Nat
BY ConstAssumption

LEMMA TypeInit == Init => TypeInv
<1>. SUFFICES ASSUME Init PROVE TypeInv
  OBVIOUS
<1>1. IsconfigOk \in BOOLEAN
  BY DEF Init, Complete
<1>2. FlagsOK
  <2>1. IsNeedReload \in BOOLEAN /\ IsNeedStop \in BOOLEAN /\ IsLogMonitorOk \in BOOLEAN
    BY <1>1 DEF Init
  <2>. QED BY <1>1, <2>1 DEF FlagsOK
<1>3. ConfsOK
  BY ConfMaps, EmptyMap DEF Init, ConfsOK
<1>4. TableOK
  BY EmptyMap DEF Init, TableOK
<1>5. NodesOK
  BY DEF Init, NodesOK, NodePcs
<1>6. LoopOK
  BY EmptyMap DEF Init, LoopOK, MonPcs, Phases, Adding, Stopping
<1>7. SuperOK
  BY BoundsNat DEF Init, SuperOK, MainPcs
<1>. QED BY <1>2, <1>3, <1>4, <1>5, <1>6, <1>7 DEF TypeInv

\* AddIfPaired goes to AddMonit with its service, or back to the range.
LEMMA AddIfPairedMoves ==
  ASSUME NEW s, NEW ks, NEW fs, AddIfPaired(s, ks, fs)
  PROVE  \/ /\ s \in DOMAIN ks \cap DOMAIN fs /\ mon' = "open"
            /\ cur'.srv = s /\ cur'.key = ks[s] /\ cur'.file = fs[s]
         \/ s \notin DOMAIN ks \cap DOMAIN fs /\ mon' = "iter"
<1>1. CASE s \in DOMAIN ks /\ s \in DOMAIN fs
  <2>1. mon' = "open" /\ cur' = [srv |-> s, key |-> ks[s], file |-> fs[s]]
    BY <1>1 DEF AddIfPaired
  <2>. QED BY <1>1, <2>1
<1>2. CASE ~(s \in DOMAIN ks /\ s \in DOMAIN fs)
  BY <1>2 DEF AddIfPaired
<1>. QED BY <1>1, <1>2

\* What one turn of each range statement does with its service.
LEMMA AddRoundMoves ==
  ASSUME NEW s, AddRound(s)
  PROVE  \/ mon' = "iter" /\ cur' = cur
         \/ mon' = "iter" /\ s \notin DOMAIN KeyMap
         \/ mon' = "open" /\ cur'.srv = s /\ s \in DOMAIN KeyMap
<1>1. CASE s \in DOMAIN KeyMap /\ KeyMap[s] \in ShortKeys
  BY <1>1 DEF AddRound
<1>2. CASE ~(s \in DOMAIN KeyMap /\ KeyMap[s] \in ShortKeys)
  <2>1. AddIfPaired(s, KeyMap, work) /\ s \in DOMAIN work
    BY <1>2 DEF AddRound
  <2>. QED BY <2>1, AddIfPairedMoves
<1>. QED BY <1>1, <1>2

LEMMA FollowKeysMoves ==
  ASSUME NEW s, FollowRound(s), phase = "keys"
  PROVE  \/ /\ s \notin DOMAIN MonitedMap /\ s \in DOMAIN FilePathMap /\ mon' = "open"
            /\ cur'.srv = s /\ cur'.key = work[s] /\ cur'.file = FilePathMap[s]
         \/ s \notin DOMAIN MonitedMap /\ s \notin DOMAIN FilePathMap /\ mon' = "iter"
         \/ s \in DOMAIN MonitedMap /\ spec[MonitedMap[s]].key = work[s] /\ mon' = "iter"
         \/ /\ s \in DOMAIN MonitedMap /\ mon' = "stop"
            /\ cur'.srv = s /\ cur'.old = MonitedMap[s] /\ cur'.new = work[s]
<1>1. CASE s \notin DOMAIN MonitedMap
  <2>1. AddIfPaired(s, work, FilePathMap) /\ s \in DOMAIN work
    BY <1>1 DEF FollowRound
  <2>. QED BY <1>1, <2>1, AddIfPairedMoves
<1>2. CASE s \in DOMAIN MonitedMap
  <2>1. \/ spec[MonitedMap[s]].key = work[s] /\ mon' = "iter"
        \/ mon' = "stop" /\ cur' = [srv |-> s, old |-> MonitedMap[s], new |-> work[s]]
    BY <1>2 DEF FollowRound
  <2>2. cur' = [srv |-> s, old |-> MonitedMap[s], new |-> work[s]] =>
          cur'.srv = s /\ cur'.old = MonitedMap[s] /\ cur'.new = work[s]
    OBVIOUS
  <2>. QED BY <1>2, <2>1, <2>2
<1>. QED BY <1>1, <1>2

LEMMA FollowFilesMoves ==
  ASSUME NEW s, FollowRound(s), phase = "files"
  PROVE  \/ /\ s \notin DOMAIN MonitedMap /\ s \in DOMAIN KeyMap /\ mon' = "open"
            /\ cur'.srv = s /\ cur'.key = KeyMap[s] /\ cur'.file = work[s]
         \/ s \notin DOMAIN MonitedMap /\ s \notin DOMAIN KeyMap /\ mon' = "iter"
         \/ s \in DOMAIN MonitedMap /\ spec[MonitedMap[s]].file = work[s] /\ mon' = "iter"
         \/ /\ s \in DOMAIN MonitedMap /\ mon' = "stop"
            /\ cur'.srv = s /\ cur'.old = MonitedMap[s] /\ cur'.new = work[s]
<1>1. CASE s \notin DOMAIN MonitedMap
  <2>1. AddIfPaired(s, KeyMap, work) /\ s \in DOMAIN work
    BY <1>1 DEF FollowRound
  <2>. QED BY <1>1, <2>1, AddIfPairedMoves
<1>2. CASE s \in DOMAIN MonitedMap
  <2>1. \/ spec[MonitedMap[s]].file = work[s] /\ mon' = "iter"
        \/ mon' = "stop" /\ cur' = [srv |-> s, old |-> MonitedMap[s], new |-> work[s]]
    BY <1>2 DEF FollowRound
  <2>2. cur' = [srv |-> s, old |-> MonitedMap[s], new |-> work[s]] =>
          cur'.srv = s /\ cur'.old = MonitedMap[s] /\ cur'.new = work[s]
    OBVIOUS
  <2>. QED BY <1>2, <2>1, <2>2
<1>. QED BY <1>1, <1>2

LEMMA PruneRoundMoves ==
  ASSUME NEW s, PruneRound(s)
  PROVE  \/ /\ s \in DOMAIN MonitedMap /\ s \notin DOMAIN KeyMap \cap DOMAIN FilePathMap
            /\ mon' = "stop" /\ cur'.srv = s /\ cur'.old = MonitedMap[s]
         \/ /\ s \in DOMAIN MonitedMap => s \in DOMAIN KeyMap \cap DOMAIN FilePathMap
            /\ mon' = "iter"
<1>1. CASE s \in DOMAIN MonitedMap /\ (s \notin DOMAIN KeyMap \/ s \notin DOMAIN FilePathMap)
  <2>1. mon' = "stop" /\ cur' = [srv |-> s, old |-> MonitedMap[s], new |-> ""]
    BY <1>1 DEF PruneRound
  <2>. QED BY <1>1, <2>1
<1>2. CASE ~(s \in DOMAIN MonitedMap /\ (s \notin DOMAIN KeyMap \/ s \notin DOMAIN FilePathMap))
  BY <1>2 DEF PruneRound
<1>. QED BY <1>1, <1>2

LEMMA DropMoves ==
  ASSUME DropOld
  PROVE  /\ phase = "keys" =>
              \/ /\ cur.srv \in DOMAIN FilePathMap /\ mon' = "open" /\ cur'.srv = cur.srv
                 /\ cur'.key = cur.new /\ cur'.file = FilePathMap[cur.srv]
              \/ cur.srv \notin DOMAIN FilePathMap /\ mon' = "iter"
         /\ phase = "files" =>
              \/ /\ cur.srv \in DOMAIN KeyMap /\ mon' = "open" /\ cur'.srv = cur.srv
                 /\ cur'.key = KeyMap[cur.srv] /\ cur'.file = cur.new
              \/ cur.srv \notin DOMAIN KeyMap /\ mon' = "iter"
         /\ phase = "prune" => mon' = "iter"
<1>. DEFINE m == [t \in {cur.srv} |-> cur.new]
<1>1. DOMAIN m = {cur.srv} /\ m[cur.srv] = cur.new
  OBVIOUS
<1>2. phase = "keys" => AddIfPaired(cur.srv, m, FilePathMap)
  BY DEF DropOld
<1>3. phase = "files" => AddIfPaired(cur.srv, KeyMap, m)
  BY DEF DropOld
<1>4. phase = "prune" => mon' = "iter"
  BY DEF DropOld
<1>. HIDE DEF m
<1>5. CASE phase = "keys"
  BY <1>1, <1>2, <1>5, AddIfPairedMoves
<1>6. CASE phase = "files"
  BY <1>1, <1>3, <1>6, AddIfPairedMoves
<1>. QED BY <1>4, <1>5, <1>6

LEMMA TypeStep == TypeInv /\ [Next]_vars => TypeInv'
<1>. SUFFICES ASSUME TypeInv, [Next]_vars PROVE TypeInv'
  OBVIOUS
<1>. USE DEF TypeInv
<1>1. ASSUME NEW n \in Nodes, NodeSweep(n) PROVE TypeInv'
  <2>1. FlagsOK' /\ ConfsOK' /\ TableOK' /\ LoopOK' /\ SuperOK'
    BY <1>1, TypeFrames DEF NodeSweep
  <2>2. NodesOK'
    BY <1>1 DEF NodeSweep, NodesOK, NodePcs
  <2>. QED BY <2>1, <2>2
<1>2. ASSUME NEW n \in Nodes, NodeWake(n) PROVE TypeInv'
  <2>1. FlagsOK' /\ ConfsOK' /\ TableOK' /\ LoopOK' /\ SuperOK'
    BY <1>2, TypeFrames DEF NodeWake
  <2>2. NodesOK'
    BY <1>2 DEF NodeWake, NodesOK, NodePcs
  <2>. QED BY <2>1, <2>2
<1>3. ASSUME NEW n \in Nodes, NodeFail(n) PROVE TypeInv'
  <2>1. FlagsOK' /\ ConfsOK' /\ TableOK' /\ LoopOK'
    BY <1>3, TypeFrames DEF NodeFail
  <2>2. NodesOK'
    BY <1>3 DEF NodeFail, NodesOK, NodePcs, super
  <2>3. SuperOK'
    BY <1>3, BoundsNat DEF NodeFail, SuperOK, NodePcs, super
  <2>. QED BY <2>1, <2>2, <2>3
<1>4. CASE Begin
  <2>1. ConfsOK' /\ TableOK' /\ NodesOK' /\ SuperOK'
    BY <1>4, TypeFrames DEF Begin
  <2>2. FlagsOK'
    BY <1>4 DEF Begin, FlagsOK, GiveUp, flags, MonPcs, Phases, Adding, Stopping
  <2>3. LoopOK'
    BY <1>4, WithoutValues, MapsElim, AddIfPairedMoves
       DEF Begin, LoopOK, GiveUp, flags, MonPcs, Phases, Adding, Stopping
  <2>. QED BY <2>1, <2>2, <2>3
<1>5. CASE Arm
  <2>1. ConfsOK' /\ TableOK' /\ NodesOK' /\ SuperOK'
    BY <1>5, TypeFrames DEF Arm
  <2>2. FlagsOK'
    BY <1>5 DEF Arm, FlagsOK, MonPcs, Phases, Adding, Stopping
  <2>3. LoopOK'
    BY <1>5, WithoutValues, MapsElim, AddIfPairedMoves
       DEF Arm, LoopOK, ConfsOK, TableOK, MonPcs, Phases, Adding, Stopping
  <2>. QED BY <2>1, <2>2, <2>3
<1>6. CASE Open
  <2>1. FlagsOK' /\ ConfsOK' /\ TableOK' /\ NodesOK' /\ SuperOK'
    BY <1>6, TypeFrames DEF Open
  <2>2. LoopOK'
    BY <1>6, WithoutValues, MapsElim, AddIfPairedMoves DEF Open, LoopOK, MonPcs, Adding, Stopping
  <2>. QED BY <2>1, <2>2
<1>7. CASE Forget
  <2>1. FlagsOK' /\ TableOK' /\ NodesOK' /\ SuperOK'
    BY <1>7, TypeFrames DEF Forget
  <2>2. ConfsOK'
    BY <1>7, WithoutMap DEF Forget, ConfsOK, MonPcs, Adding, Stopping
  <2>3. LoopOK'
    BY <1>7, WithoutValues, MapsElim, AddIfPairedMoves DEF Forget, LoopOK, MonPcs, Adding, Stopping
  <2>. QED BY <2>1, <2>2, <2>3
<1>8. CASE Check
  <2>1. FlagsOK' /\ ConfsOK' /\ TableOK' /\ NodesOK' /\ SuperOK'
    BY <1>8, TypeFrames DEF Check
  <2>2. LoopOK'
    BY <1>8, WithoutValues, MapsElim, AddIfPairedMoves DEF Check, LoopOK, MonPcs, Adding, Stopping
  <2>. QED BY <2>1, <2>2
<1>9. CASE Gate
  <2>1. FlagsOK' /\ ConfsOK' /\ TableOK' /\ NodesOK' /\ SuperOK'
    BY <1>9, TypeFrames DEF Gate
  <2>2. LoopOK'
    BY <1>9, WithoutValues, MapsElim, AddIfPairedMoves
       DEF Gate, LoopOK, ConfsOK, TableOK, MonPcs, Phases, Adding, Stopping
  <2>. QED BY <2>1, <2>2
<1>10. CASE StopOld
  <2>1. FlagsOK' /\ ConfsOK' /\ TableOK' /\ SuperOK'
    BY <1>10, TypeFrames DEF StopOld
  <2>2. LoopOK'
    BY <1>10, WithoutValues, MapsElim, AddIfPairedMoves
       DEF StopOld, LoopOK, MonPcs, Adding, Stopping
  <2>3. NodesOK'
    BY <1>10 DEF StopOld, NodesOK, MonPcs, Adding, Stopping
  <2>. QED BY <2>1, <2>2, <2>3
<1>11. CASE DropOld
  <2>1. FlagsOK' /\ ConfsOK' /\ NodesOK' /\ SuperOK'
    BY <1>11, TypeFrames DEF DropOld
  <2>2. TableOK'
    BY <1>11, WithoutMap, PutMap DEF DropOld, TableOK, MonPcs, Adding, Stopping
  <2>3. LoopOK'
    BY <1>11, DropMoves DEF DropOld, LoopOK, Phases, MonPcs, Adding, Stopping
  <2>. QED BY <2>1, <2>2, <2>3
<1>12. CASE RoundDone
  <2>1. ConfsOK' /\ TableOK' /\ NodesOK' /\ SuperOK'
    BY <1>12, TypeFrames DEF RoundDone
  <2>2. FlagsOK'
    <3>1. UNCHANGED flags \/ GiveUp
      BY <1>12 DEF RoundDone, LoopOK, Phases
    <3>2. CASE GiveUp
      BY <3>2 DEF FlagsOK, GiveUp
    <3>. QED BY <3>1, <3>2, TypeFrames
  <2>3. LoopOK'
    BY <1>12, WithoutValues, MapsElim, AddIfPairedMoves
       DEF RoundDone, LoopOK, ConfsOK, TableOK, GiveUp, flags, MonPcs, Phases, Adding,
           Stopping
  <2>. QED BY <2>1, <2>2, <2>3
<1>13. CASE Reset
  <2>1. ConfsOK' /\ TableOK' /\ NodesOK' /\ SuperOK'
    BY <1>13, TypeFrames DEF Reset
  <2>2. FlagsOK'
    BY <1>13 DEF Reset, FlagsOK, MonPcs, Adding, Stopping
  <2>3. LoopOK'
    BY <1>13, WithoutValues, MapsElim, AddIfPairedMoves DEF Reset, LoopOK, MonPcs, Adding, Stopping
  <2>. QED BY <2>1, <2>2, <2>3
<1>14. CASE CheckLen
  <2>1. ConfsOK' /\ TableOK' /\ NodesOK' /\ SuperOK'
    BY <1>14, TypeFrames DEF CheckLen
  <2>2. FlagsOK'
    BY <1>14 DEF CheckLen, FlagsOK, GiveUp, flags, MonPcs, Adding, Stopping
  <2>3. LoopOK'
    BY <1>14, WithoutValues, MapsElim, AddIfPairedMoves
       DEF CheckLen, LoopOK, GiveUp, flags, MonPcs, Adding, Stopping
  <2>. QED BY <2>1, <2>2, <2>3
<1>15. CASE Wake
  <2>1. FlagsOK' /\ ConfsOK' /\ TableOK' /\ NodesOK' /\ SuperOK'
    BY <1>15, TypeFrames DEF Wake
  <2>2. LoopOK'
    BY <1>15, WithoutValues, MapsElim, AddIfPairedMoves DEF Wake, LoopOK, MonPcs, Adding, Stopping
  <2>. QED BY <2>1, <2>2
<1>16. ASSUME NEW s \in Services, AddRound(s) PROVE TypeInv'
  <2>1. FlagsOK' /\ ConfsOK' /\ TableOK' /\ NodesOK' /\ SuperOK'
    BY <1>16, TypeFrames DEF AddRound
  <2>2. LoopOK'
    <3>1. DOMAIN work' \subseteq Services
      BY <1>16, WithoutValues DEF AddRound, LoopOK
    <3>. QED BY <1>16, <3>1, AddRoundMoves
         DEF AddRound, LoopOK, MonPcs, Adding, Stopping
  <2>. QED BY <2>1, <2>2
<1>17. ASSUME NEW s \in Services, FollowRound(s) PROVE TypeInv'
  <2>1. FlagsOK' /\ ConfsOK' /\ TableOK' /\ NodesOK' /\ SuperOK'
    BY <1>17, TypeFrames DEF FollowRound
  <2>2. LoopOK'
    <3>1. DOMAIN work' \subseteq Services
      BY <1>17, WithoutValues DEF FollowRound, LoopOK
    <3>2. \A t \in DOMAIN MonitedMap : MonitedMap[t] \in Nodes
      BY MapsElim DEF TableOK
    <3>. QED BY <1>17, <3>1, <3>2, FollowKeysMoves, FollowFilesMoves
         DEF FollowRound, LoopOK, MonPcs, Adding, Stopping
  <2>. QED BY <2>1, <2>2
<1>18. ASSUME NEW s \in Services, PruneRound(s) PROVE TypeInv'
  <2>1. FlagsOK' /\ ConfsOK' /\ TableOK' /\ NodesOK' /\ SuperOK'
    BY <1>18, TypeFrames DEF PruneRound
  <2>2. LoopOK'
    <3>1. DOMAIN work' \subseteq Services
      BY <1>18, WithoutValues DEF PruneRound, LoopOK
    <3>2. \A t \in DOMAIN MonitedMap : MonitedMap[t] \in Nodes
      BY MapsElim DEF TableOK
    <3>. QED BY <1>18, <3>1, <3>2, PruneRoundMoves
         DEF PruneRound, LoopOK, MonPcs, Adding, Stopping
  <2>. QED BY <2>1, <2>2
<1>19. ASSUME NEW n \in Nodes, Register(n) PROVE TypeInv'
  <2>1. FlagsOK' /\ ConfsOK' /\ SuperOK'
    BY <1>19, TypeFrames DEF Register
  <2>2. TableOK'
    BY <1>19, WithoutMap, PutMap DEF Register, TableOK, LoopOK, NodePcs, MonPcs, Adding, Stopping
  <2>3. NodesOK'
    BY <1>19 DEF Register, NodesOK, NodePcs, MonPcs, Adding, Stopping
  <2>4. LoopOK'
    BY <1>19, WithoutValues, MapsElim, AddIfPairedMoves
       DEF Register, LoopOK, NodePcs, MonPcs, Adding, Stopping
  <2>. QED BY <2>1, <2>2, <2>3, <2>4
<1>20. CASE SwapKeys
  <2>1. FlagsOK' /\ TableOK' /\ NodesOK' /\ LoopOK'
    BY <1>20, TypeFrames DEF SwapKeys
  <2>2. ConfsOK'
    BY <1>20, WithoutMap, ConfMaps DEF SwapKeys, ConfsOK, SuperOK, MainPcs, super
  <2>3. SuperOK'
    BY <1>20, BoundsNat DEF SwapKeys, SuperOK, MainPcs, super
  <2>. QED BY <2>1, <2>2, <2>3
<1>21. CASE SwapFiles
  <2>1. FlagsOK' /\ TableOK' /\ NodesOK' /\ LoopOK'
    BY <1>21, TypeFrames DEF SwapFiles
  <2>2. ConfsOK'
    BY <1>21, WithoutMap, ConfMaps DEF SwapFiles, ConfsOK, SuperOK, MainPcs, super
  <2>3. SuperOK'
    BY <1>21, BoundsNat DEF SwapFiles, SuperOK, MainPcs, super
  <2>. QED BY <2>1, <2>2, <2>3
<1>22. CASE CallLock
  <2>1. FlagsOK' /\ ConfsOK' /\ TableOK' /\ NodesOK' /\ LoopOK'
    BY <1>22, TypeFrames DEF CallLock
  <2>2. SuperOK'
    BY <1>22, BoundsNat DEF CallLock, SuperOK, super, MainPcs
  <2>. QED BY <2>1, <2>2
<1>23. CASE SetFlag
  <2>1. ConfsOK' /\ TableOK' /\ NodesOK' /\ LoopOK'
    BY <1>23, TypeFrames DEF SetFlag
  <2>2. FlagsOK'
    BY <1>23 DEF SetFlag, FlagsOK, MainPcs
  <2>3. SuperOK'
    BY <1>23, BoundsNat DEF SetFlag, SuperOK, super, MainPcs
  <2>. QED BY <2>1, <2>2, <2>3
<1>24. CASE DrainDone
  <2>1. FlagsOK' /\ ConfsOK' /\ TableOK' /\ NodesOK' /\ LoopOK'
    BY <1>24, TypeFrames DEF DrainDone
  <2>2. SuperOK'
    BY <1>24, BoundsNat DEF DrainDone, SuperOK, super, MainPcs
  <2>. QED BY <2>1, <2>2
<1>25. CASE Halt
  <2>1. ConfsOK' /\ TableOK' /\ NodesOK' /\ LoopOK'
    BY <1>25, TypeFrames DEF Halt
  <2>2. FlagsOK'
    BY <1>25 DEF Halt, FlagsOK, MainPcs
  <2>3. SuperOK'
    BY <1>25, BoundsNat DEF Halt, SuperOK, super, MainPcs
  <2>. QED BY <2>1, <2>2, <2>3
<1>26. CASE Tick
  <2>1. FlagsOK' /\ ConfsOK' /\ TableOK' /\ NodesOK' /\ LoopOK'
    BY <1>26, TypeFrames DEF Tick
  <2>2. SuperOK'
    BY <1>26, BoundsNat DEF Tick, SuperOK, super, MainPcs
  <2>. QED BY <2>1, <2>2
<1>27. CASE Rearm
  <2>1. ConfsOK' /\ TableOK' /\ NodesOK' /\ LoopOK'
    BY <1>27, TypeFrames DEF Rearm
  <2>2. FlagsOK'
    BY <1>27 DEF Rearm, FlagsOK, MainPcs
  <2>3. SuperOK'
    BY <1>27, BoundsNat DEF Rearm, SuperOK, super, MainPcs
  <2>. QED BY <2>1, <2>2, <2>3
<1>28. CASE Spawn
  <2>1. FlagsOK' /\ ConfsOK' /\ TableOK' /\ NodesOK'
    BY <1>28, TypeFrames DEF Spawn
  <2>2. LoopOK'
    BY <1>28, WithoutValues, MapsElim, AddIfPairedMoves
       DEF Spawn, LoopOK, MonPcs, MainPcs, Adding, Stopping
  <2>3. SuperOK'
    BY <1>28, BoundsNat DEF Spawn, SuperOK, super, MonPcs, MainPcs, Adding, Stopping
  <2>. QED BY <2>1, <2>2, <2>3
<1>29. ASSUME NEW s \in Services, DrainOne(s) PROVE TypeInv'
  <2>1. FlagsOK' /\ ConfsOK' /\ LoopOK'
    BY <1>29, TypeFrames DEF DrainOne
  <2>2. TableOK'
    BY <1>29, WithoutMap, PutMap DEF DrainOne, TableOK, MainPcs
  <2>3. NodesOK'
    BY <1>29 DEF DrainOne, NodesOK, MainPcs
  <2>4. SuperOK'
    BY <1>29, BoundsNat DEF DrainOne, SuperOK, super, MainPcs
  <2>. QED BY <2>1, <2>2, <2>3, <2>4
<1>30. ASSUME NEW c \in Confs, Reload(c) PROVE TypeInv'
  <2>1. ConfsOK' /\ TableOK' /\ NodesOK' /\ LoopOK'
    BY <1>30, TypeFrames DEF Reload
  <2>2. FlagsOK'
    BY <1>30 DEF Reload, FlagsOK, MainPcs, Complete
  <2>3. SuperOK'
    BY <1>30, BoundsNat DEF Reload, SuperOK, super, MainPcs, Complete
  <2>. QED BY <2>1, <2>2, <2>3
<1>31. CASE UNCHANGED vars
  BY <1>31, TypeFrames DEF vars, super
<1>. QED
  BY <1>1, <1>2, <1>3, <1>4, <1>5, <1>6, <1>7, <1>8, <1>9, <1>10, <1>11, <1>12,
     <1>13, <1>14, <1>15, <1>16, <1>17, <1>18, <1>19, <1>20, <1>21, <1>22, <1>23,
     <1>24, <1>25, <1>26, <1>27, <1>28, <1>29, <1>30, <1>31
  DEF Next, NodeStep, MonStep, MainStep

\* The variables keep their types; what the proof adds is that a service is
\* being added or stopped whenever AddMonit and StopMonit's send run.
THEOREM TypeCorrect == Spec => []TypeOK
<1>1. TypeInv => TypeOK
  BY DEF TypeInv, TypeOK, FlagsOK, ConfsOK, TableOK, NodesOK, LoopOK, SuperOK
<1>. QED BY <1>1, TypeInit, TypeStep, PTL DEF Spec
-----------------------------------------------------------------------------
(* Where the two goroutines can be at the same time.                       *)

\* StopMonit of the supervision runs only when StartMonit has given up, and
\* StartMonit is started again before anything else happens.
LifeInv ==
  /\ ~IsLogMonitorOk => mon = "idle"
  /\ main \in {"drainTick", "haltTick", "stopped"} => ~IsLogMonitorOk
  /\ main = "rearmed" => IsLogMonitorOk /\ mon = "idle"
  /\ main \in {"drain", "halt"} => ~IsconfigOk

LEMMA LifeFrame ==
  LifeInv /\ UNCHANGED <<IsLogMonitorOk, IsconfigOk, mon, main>> => LifeInv'
BY DEF LifeInv

LEMMA LifeStep == TypeInv /\ LifeInv /\ [Next]_vars => LifeInv'
<1>. SUFFICES ASSUME TypeInv, LifeInv, [Next]_vars PROVE LifeInv'
  OBVIOUS
<1>. USE DEF flags, super, loop
<1>1. ASSUME NEW n \in Nodes, NodeSweep(n) PROVE LifeInv'
  BY <1>1, LifeFrame DEF NodeSweep
<1>2. ASSUME NEW n \in Nodes, NodeWake(n) PROVE LifeInv'
  BY <1>2, LifeFrame DEF NodeWake
<1>3. ASSUME NEW n \in Nodes, NodeFail(n) PROVE LifeInv'
  BY <1>3, LifeFrame DEF NodeFail
<1>4. CASE Begin
  BY <1>4 DEF Begin, GiveUp, LifeInv
<1>5. CASE Arm
  BY <1>5 DEF Arm, LifeInv
<1>6. CASE Open
  BY <1>6 DEF Open, LifeInv
<1>7. CASE Forget
  BY <1>7 DEF Forget, LifeInv
<1>8. CASE Check
  BY <1>8 DEF Check, LifeInv
<1>9. CASE Gate
  BY <1>9 DEF Gate, LifeInv
<1>10. CASE StopOld
  BY <1>10 DEF StopOld, LifeInv
<1>11. CASE DropOld
  <2>1. mon = "drop" /\ UNCHANGED <<IsLogMonitorOk, IsconfigOk, main>>
    BY <1>11 DEF DropOld
  <2>. QED BY <2>1 DEF LifeInv
<1>12. CASE RoundDone
  <2>1. mon = "iter" /\ UNCHANGED <<main>> /\ (UNCHANGED flags \/ GiveUp)
    BY <1>12 DEF RoundDone, TypeInv, LoopOK, Phases
  <2>. QED BY <2>1 DEF LifeInv, GiveUp
<1>13. CASE Reset
  BY <1>13 DEF Reset, LifeInv
<1>14. CASE CheckLen
  BY <1>14 DEF CheckLen, GiveUp, LifeInv
<1>15. CASE Wake
  BY <1>15 DEF Wake, LifeInv
<1>16. ASSUME NEW s \in Services, AddRound(s) PROVE LifeInv'
  <2>1. mon = "iter" /\ UNCHANGED <<IsLogMonitorOk, IsconfigOk, main>>
    BY <1>16 DEF AddRound
  <2>. QED BY <2>1 DEF LifeInv
<1>17. ASSUME NEW s \in Services, FollowRound(s) PROVE LifeInv'
  <2>1. mon = "iter" /\ UNCHANGED <<IsLogMonitorOk, IsconfigOk, main>>
    BY <1>17 DEF FollowRound
  <2>. QED BY <2>1 DEF LifeInv
<1>18. ASSUME NEW s \in Services, PruneRound(s) PROVE LifeInv'
  <2>1. mon = "iter" /\ UNCHANGED <<IsLogMonitorOk, IsconfigOk, main>>
    BY <1>18 DEF PruneRound
  <2>. QED BY <2>1 DEF LifeInv
<1>19. ASSUME NEW n \in Nodes, Register(n) PROVE LifeInv'
  BY <1>19 DEF Register, LifeInv
<1>20. CASE SwapKeys
  BY <1>20 DEF SwapKeys, LifeInv
<1>21. CASE SwapFiles
  BY <1>21 DEF SwapFiles, LifeInv
<1>22. CASE CallLock
  BY <1>22 DEF CallLock, LifeInv
<1>23. CASE SetFlag
  BY <1>23 DEF SetFlag, LifeInv
<1>24. CASE DrainDone
  BY <1>24 DEF DrainDone, TableLocked, LifeInv
<1>25. CASE Halt
  BY <1>25 DEF Halt, LifeInv
<1>26. CASE Tick
  BY <1>26 DEF Tick, LifeInv
<1>27. CASE Rearm
  BY <1>27 DEF Rearm, LifeInv
<1>28. CASE Spawn
  BY <1>28 DEF Spawn, LifeInv
<1>29. ASSUME NEW s \in Services, DrainOne(s) PROVE LifeInv'
  BY <1>29 DEF DrainOne, TableLocked, LifeInv
<1>30. ASSUME NEW c \in Confs, Reload(c) PROVE LifeInv'
  BY <1>30 DEF Reload, LifeInv
<1>31. CASE UNCHANGED vars
  BY <1>31, LifeFrame DEF vars
<1>. QED
  BY <1>1, <1>2, <1>3, <1>4, <1>5, <1>6, <1>7, <1>8, <1>9, <1>10, <1>11, <1>12,
     <1>13, <1>14, <1>15, <1>16, <1>17, <1>18, <1>19, <1>20, <1>21, <1>22, <1>23,
     <1>24, <1>25, <1>26, <1>27, <1>28, <1>29, <1>30, <1>31
  DEF Next, NodeStep, MonStep, MainStep

-----------------------------------------------------------------------------
(* NoOrphan.                                                               *)

\* What the table holds while StartMonit works on it: nothing before the first
\* round, in that round only services it has passed; never a service that is
\* being added, and the node that is being stopped, if its service is in it.
TableInv ==
  /\ mon \in {"idle", "start", "arm"} => DOMAIN MonitedMap = {}
  /\ Adding => cur.srv \notin DOMAIN MonitedMap
  /\ phase = "add" /\ (mon = "iter" \/ Adding) =>
       /\ DOMAIN MonitedMap \cap DOMAIN work = {}
       /\ Adding => cur.srv \notin DOMAIN work
  /\ Stopping => (cur.srv \in DOMAIN MonitedMap => MonitedMap[cur.srv] = cur.old)
  /\ mon = "drop" => chan[cur.old] # "empty"

LEMMA TableFrame ==
  TableInv /\ UNCHANGED <<MonitedMap, chan, loop>> => TableInv'
BY DEF TableInv, Adding, Stopping, loop

LEMMA TableStep == TypeInv /\ LifeInv /\ TableInv /\ [Next]_vars => TableInv'
<1>. SUFFICES ASSUME TypeInv, LifeInv, TableInv, [Next]_vars PROVE TableInv'
  OBVIOUS
<1>. USE DEF loop, nodes
<1>1. ASSUME NEW n \in Nodes, NodeSweep(n) PROVE TableInv'
  <2>1. \A m \in Nodes : chan[m] # "empty" => chan'[m] # "empty"
    BY <1>1 DEF NodeSweep, TypeInv, NodesOK
  <2>2. UNCHANGED <<MonitedMap, loop>>
    BY <1>1 DEF NodeSweep
  <2>. QED BY <2>1, <2>2 DEF TableInv, Adding, Stopping, TypeInv, LoopOK
<1>2. ASSUME NEW n \in Nodes, NodeWake(n) PROVE TableInv'
  BY <1>2, TableFrame DEF NodeWake
<1>3. ASSUME NEW n \in Nodes, NodeFail(n) PROVE TableInv'
  BY <1>3, TableFrame DEF NodeFail
<1>4. CASE Begin
  BY <1>4 DEF Begin, GiveUp, TableInv, Adding, Stopping
<1>5. CASE Arm
  BY <1>5 DEF Arm, TableInv, Adding, Stopping
<1>6. CASE Open
  BY <1>6 DEF Open, TableInv, Adding, Stopping
<1>7. CASE Forget
  BY <1>7 DEF Forget, TableInv, Adding, Stopping
<1>8. CASE Check
  BY <1>8 DEF Check, TableInv, Adding, Stopping
<1>9. CASE Gate
  BY <1>9 DEF Gate, TableInv, Adding, Stopping
<1>10. CASE StopOld
  <2>1. mon' = "drop" => chan'[cur.old] # "empty"
    BY <1>10 DEF StopOld, TypeInv, NodesOK, LoopOK, Stopping
  <2>. QED BY <1>10, <2>1 DEF StopOld, TableInv, Adding, Stopping
<1>11. CASE DropOld
  <2>1. DOMAIN MonitedMap' = DOMAIN MonitedMap \ {cur.srv}
    BY <1>11, WithoutValues DEF DropOld
  <2>. QED BY <1>11, <2>1, DropMoves
     DEF DropOld, TypeInv, LoopOK, Phases, TableInv, Adding, Stopping
<1>12. CASE RoundDone
  <2>1. DOMAIN Empty = {}
    BY EmptyMap
  <2>. QED BY <1>12, <2>1 DEF RoundDone, GiveUp, TypeInv, LoopOK, Phases, TableInv, Adding, Stopping
<1>13. CASE Reset
  BY <1>13 DEF Reset, TableInv, Adding, Stopping
<1>14. CASE CheckLen
  BY <1>14, EmptyMap DEF CheckLen, GiveUp, TableInv, Adding, Stopping
<1>15. CASE Wake
  BY <1>15 DEF Wake, TableInv, Adding, Stopping
<1>16. ASSUME NEW s \in Services, AddRound(s) PROVE TableInv'
  <2>1. DOMAIN work' = DOMAIN work \ {s} /\ s \in DOMAIN work
    BY <1>16, WithoutValues DEF AddRound
  <2>. QED BY <1>16, <2>1, AddRoundMoves DEF AddRound, TableInv, Adding, Stopping
<1>17. ASSUME NEW s \in Services, FollowRound(s) PROVE TableInv'
  <2>1. phase = "keys" \/ phase = "files"
    BY <1>17 DEF FollowRound
  <2>. QED BY <1>17, <2>1, FollowKeysMoves, FollowFilesMoves
     DEF FollowRound, TableInv, Adding, Stopping
<1>18. ASSUME NEW s \in Services, PruneRound(s) PROVE TableInv'
  BY <1>18, PruneRoundMoves DEF PruneRound, TableInv, Adding, Stopping
<1>19. ASSUME NEW n \in Nodes, Register(n) PROVE TableInv'
  <2>1. DOMAIN MonitedMap' = DOMAIN MonitedMap \cup {cur.srv}
    <3>1. MonitedMap' = Put(MonitedMap, cur.srv, n)
      BY <1>19 DEF Register
    <3>. QED BY <3>1 DEF Put
  <2>. QED BY <1>19, <2>1 DEF Register, TableInv, Adding, Stopping
<1>20. CASE SwapKeys
  BY <1>20, TableFrame DEF SwapKeys
<1>21. CASE SwapFiles
  BY <1>21, TableFrame DEF SwapFiles
<1>22. CASE CallLock
  BY <1>22, TableFrame DEF CallLock
<1>23. CASE SetFlag
  BY <1>23, TableFrame DEF SetFlag
<1>24. CASE DrainDone
  BY <1>24, TableFrame DEF DrainDone
<1>25. CASE Halt
  BY <1>25, TableFrame DEF Halt
<1>26. CASE Tick
  BY <1>26, TableFrame DEF Tick
<1>27. CASE Rearm
  BY <1>27, TableFrame DEF Rearm
<1>28. CASE Spawn
  BY <1>28 DEF Spawn, LifeInv, TableInv, Adding, Stopping
<1>29. ASSUME NEW s \in Services, DrainOne(s) PROVE TableInv'
  <2>1. /\ DOMAIN MonitedMap' \subseteq DOMAIN MonitedMap
        /\ \A t \in DOMAIN MonitedMap' : MonitedMap'[t] = MonitedMap[t]
    <3>1. MonitedMap' = Without(MonitedMap, s)
      BY <1>29 DEF DrainOne
    <3>. QED BY <3>1, WithoutValues
  <2>2. \A m \in Nodes : chan[m] # "empty" => chan'[m] # "empty"
    BY <1>29 DEF DrainOne, TypeInv, NodesOK
  <2>3. UNCHANGED loop
    BY <1>29 DEF DrainOne
  <2>. QED BY <2>1, <2>2, <2>3 DEF TableInv, Adding, Stopping, TypeInv, LoopOK
<1>30. ASSUME NEW c \in Confs, Reload(c) PROVE TableInv'
  BY <1>30, TableFrame DEF Reload
<1>31. CASE UNCHANGED vars
  BY <1>31, TableFrame DEF vars
<1>. QED
  BY <1>1, <1>2, <1>3, <1>4, <1>5, <1>6, <1>7, <1>8, <1>9, <1>10, <1>11, <1>12,
     <1>13, <1>14, <1>15, <1>16, <1>17, <1>18, <1>19, <1>20, <1>21, <1>22, <1>23,
     <1>24, <1>25, <1>26, <1>27, <1>28, <1>29, <1>30, <1>31
  DEF Next, NodeStep, MonStep, MainStep

LEMMA OrphanFrame ==
  NoOrphan /\ UNCHANGED <<MonitedMap, nodes>> => NoOrphan'
BY DEF NoOrphan, Live, nodes

LEMMA OrphanStep == TypeInv /\ TableInv /\ NoOrphan /\ [Next]_vars => NoOrphan'
<1>. SUFFICES ASSUME TypeInv, TableInv, NoOrphan, [Next]_vars PROVE NoOrphan'
  OBVIOUS
<1>1. ASSUME NEW n \in Nodes, NodeSweep(n) PROVE NoOrphan'
  <2>1. \A m \in Nodes : npc'[m] # "dead" /\ chan'[m] = "empty" =>
                         npc[m] # "dead" /\ chan[m] = "empty"
    BY <1>1 DEF NodeSweep, TypeInv, NodesOK
  <2>2. UNCHANGED <<MonitedMap, spec>>
    BY <1>1 DEF NodeSweep
  <2>. QED BY <2>1, <2>2 DEF NoOrphan, Live
<1>2. ASSUME NEW n \in Nodes, NodeWake(n) PROVE NoOrphan'
  <2>1. \A m \in Nodes : npc'[m] # "dead" /\ chan'[m] = "empty" =>
                         npc[m] # "dead" /\ chan[m] = "empty"
    BY <1>2 DEF NodeWake, TypeInv, NodesOK
  <2>2. UNCHANGED <<MonitedMap, spec>>
    BY <1>2 DEF NodeWake
  <2>. QED BY <2>1, <2>2 DEF NoOrphan, Live
<1>3. ASSUME NEW n \in Nodes, NodeFail(n) PROVE NoOrphan'
  <2>1. \A m \in Nodes : npc'[m] # "dead" /\ chan'[m] = "empty" =>
                         npc[m] # "dead" /\ chan[m] = "empty"
    BY <1>3 DEF NodeFail, TypeInv, NodesOK
  <2>2. UNCHANGED <<MonitedMap, spec>>
    BY <1>3 DEF NodeFail
  <2>. QED BY <2>1, <2>2 DEF NoOrphan, Live
<1>4. CASE Begin
  BY <1>4, OrphanFrame DEF Begin
<1>5. CASE Arm
  BY <1>5, OrphanFrame DEF Arm
<1>6. CASE Open
  BY <1>6, OrphanFrame DEF Open
<1>7. CASE Forget
  BY <1>7, OrphanFrame DEF Forget
<1>8. CASE Check
  BY <1>8, OrphanFrame DEF Check
<1>9. CASE Gate
  BY <1>9, OrphanFrame DEF Gate
<1>10. CASE StopOld
  <2>1. \A m \in Nodes : npc'[m] # "dead" /\ chan'[m] = "empty" =>
                         npc[m] # "dead" /\ chan[m] = "empty"
    BY <1>10 DEF StopOld, TypeInv, NodesOK
  <2>2. UNCHANGED <<MonitedMap, spec>>
    BY <1>10 DEF StopOld
  <2>. QED BY <2>1, <2>2 DEF NoOrphan, Live
<1>11. CASE DropOld
  <2>1. /\ chan[cur.old] # "empty"
        /\ cur.srv \in DOMAIN MonitedMap => MonitedMap[cur.srv] = cur.old
    BY <1>11 DEF DropOld, TableInv, Stopping
  <2>2. /\ DOMAIN MonitedMap' = DOMAIN MonitedMap \ {cur.srv}
        /\ \A t \in DOMAIN MonitedMap : t # cur.srv => MonitedMap'[t] = MonitedMap[t]
    BY <1>11, WithoutValues DEF DropOld
  <2>3. UNCHANGED <<npc, chan, spec>>
    BY <1>11 DEF DropOld, nodes
  <2>. QED BY <2>1, <2>2, <2>3 DEF NoOrphan, Live
<1>12. CASE RoundDone
  BY <1>12, OrphanFrame DEF RoundDone
<1>13. CASE Reset
  BY <1>13, OrphanFrame DEF Reset
<1>14. CASE CheckLen
  BY <1>14, OrphanFrame DEF CheckLen
<1>15. CASE Wake
  BY <1>15, OrphanFrame DEF Wake
<1>16. ASSUME NEW s \in Services, AddRound(s) PROVE NoOrphan'
  BY <1>16, OrphanFrame DEF AddRound
<1>17. ASSUME NEW s \in Services, FollowRound(s) PROVE NoOrphan'
  BY <1>17, OrphanFrame DEF FollowRound
<1>18. ASSUME NEW s \in Services, PruneRound(s) PROVE NoOrphan'
  BY <1>18, OrphanFrame DEF PruneRound
<1>19. ASSUME NEW n \in Nodes, Register(n) PROVE NoOrphan'
  <2>1. /\ cur.srv \notin DOMAIN MonitedMap
        /\ spec'[n] = cur /\ \A m \in Nodes : m # n => spec'[m] = spec[m]
        /\ \A m \in Nodes : m # n => npc'[m] = npc[m] /\ chan'[m] = chan[m]
    BY <1>19 DEF Register, TypeInv, NodesOK, TableInv, Adding
  <2>2. /\ DOMAIN MonitedMap' = DOMAIN MonitedMap \cup {cur.srv} /\ MonitedMap'[cur.srv] = n
        /\ \A t \in DOMAIN MonitedMap : MonitedMap'[t] = MonitedMap[t]
    <3>1. MonitedMap' = Put(MonitedMap, cur.srv, n)
      BY <1>19 DEF Register
    <3>. QED BY <2>1, <3>1 DEF Put
  <2>. QED BY <2>1, <2>2 DEF NoOrphan, Live
<1>20. CASE SwapKeys
  BY <1>20, OrphanFrame DEF SwapKeys
<1>21. CASE SwapFiles
  BY <1>21, OrphanFrame DEF SwapFiles
<1>22. CASE CallLock
  BY <1>22, OrphanFrame DEF CallLock
<1>23. CASE SetFlag
  BY <1>23, OrphanFrame DEF SetFlag
<1>24. CASE DrainDone
  BY <1>24, OrphanFrame DEF DrainDone
<1>25. CASE Halt
  BY <1>25, OrphanFrame DEF Halt
<1>26. CASE Tick
  BY <1>26, OrphanFrame DEF Tick
<1>27. CASE Rearm
  BY <1>27, OrphanFrame DEF Rearm
<1>28. CASE Spawn
  BY <1>28, OrphanFrame DEF Spawn
<1>29. ASSUME NEW s \in Services, DrainOne(s) PROVE NoOrphan'
  <2>1. /\ MonitedMap[s] \in Nodes => chan'[MonitedMap[s]] # "empty"
        /\ \A m \in Nodes : chan'[m] = "empty" => chan[m] = "empty"
    BY <1>29 DEF DrainOne, TypeInv, NodesOK
  <2>2. /\ DOMAIN MonitedMap' = DOMAIN MonitedMap \ {s}
        /\ \A t \in DOMAIN MonitedMap : t # s => MonitedMap'[t] = MonitedMap[t]
    BY <1>29, WithoutValues DEF DrainOne
  <2>3. UNCHANGED <<npc, spec>>
    BY <1>29 DEF DrainOne
  <2>. QED BY <2>1, <2>2, <2>3 DEF NoOrphan, Live
<1>30. ASSUME NEW c \in Confs, Reload(c) PROVE NoOrphan'
  BY <1>30, OrphanFrame DEF Reload
<1>31. CASE UNCHANGED vars
  BY <1>31, OrphanFrame DEF vars
<1>. QED
  BY <1>1, <1>2, <1>3, <1>4, <1>5, <1>6, <1>7, <1>8, <1>9, <1>10, <1>11, <1>12,
     <1>13, <1>14, <1>15, <1>16, <1>17, <1>18, <1>19, <1>20, <1>21, <1>22, <1>23,
     <1>24, <1>25, <1>26, <1>27, <1>28, <1>29, <1>30, <1>31
  DEF Next, NodeStep, MonStep, MainStep

TabledInv == TypeInv /\ LifeInv /\ TableInv /\ NoOrphan

LEMMA TabledInit == Init => TabledInv
<1>. SUFFICES ASSUME Init PROVE TabledInv
  OBVIOUS
<1>1. TypeInv
  BY TypeInit
<1>2. LifeInv
  BY DEF Init, LifeInv
<1>3. TableInv
  BY EmptyMap DEF Init, TableInv, Adding, Stopping
<1>4. NoOrphan
  BY DEF Init, NoOrphan, Live
<1>. QED BY <1>1, <1>2, <1>3, <1>4 DEF TabledInv

LEMMA TabledHolds == Spec => []TabledInv
<1>1. TabledInv /\ [Next]_vars => TabledInv'
  BY TypeStep, LifeStep, TableStep, OrphanStep DEF TabledInv
<1>. QED BY <1>1, TabledInit, PTL DEF Spec

\* A node that runs and has not been told to stop is the one registered for
\* its service.  Two goroutines take nodes off the table, one of them without
\* its mutex; both have told the node to stop by the time they do.
THEOREM NoOrphanHolds == Spec => []NoOrphan
<1>1. TabledInv => NoOrphan
  BY DEF TabledInv
<1>. QED BY <1>1, TabledHolds, PTL

-----------------------------------------------------------------------------
(* StartMonit as its supervisor sees it.                                   *)

\* The supervisor never starts StartMonit while it is still executed, although
\* its flag is written by three: StartServer, StartMonit, and InitConf's
\* StopMonit in between.
THEOREM OneStartMonit == Spec => NoDoubleStart
<1>1. TabledInv => (main = "rearmed" /\ main' = "poll" => mon = "idle")
  BY DEF TabledInv, LifeInv
<1>. QED BY <1>1, TabledHolds, PTL DEF NoDoubleStart

LEMMA TaskFrame ==
  UNCHANGED IsLogMonitorOk /\ (mon = "idle" <=> mon' = "idle") => UNCHANGED Task!vars
BY DEF Task!vars

\* StartMonit goes on, or it gives up and clears its flag.
LEMMA MonMoves ==
  ASSUME TypeInv, MonStep
  PROVE  /\ mon # "idle"
         /\ \/ mon' # "idle" /\ UNCHANGED IsLogMonitorOk
            \/ mon' = "idle" /\ IsLogMonitorOk' = FALSE
<1>. USE DEF flags
<1>1. CASE Begin \/ Arm \/ Open \/ Forget \/ Check \/ Gate \/ StopOld
  BY <1>1 DEF Begin, Arm, Open, Forget, Check, Gate, StopOld, GiveUp
<1>2. CASE DropOld
  <2>1. mon = "drop" /\ UNCHANGED IsLogMonitorOk
    BY <1>2 DEF DropOld
  <2>2. phase \in {"keys", "files", "prune"}
    BY <2>1 DEF TypeInv, LoopOK, Phases, Stopping
  <2>. QED BY <1>2, <2>1, <2>2, DropMoves
<1>3. CASE RoundDone
  BY <1>3 DEF RoundDone, GiveUp, TypeInv, LoopOK, Phases
<1>4. CASE Reset \/ CheckLen \/ Wake
  BY <1>4 DEF Reset, CheckLen, Wake, GiveUp
<1>5. ASSUME NEW s \in Services, AddRound(s)
      PROVE  mon = "iter" /\ mon' \in {"iter", "open"} /\ UNCHANGED IsLogMonitorOk
  BY <1>5, AddRoundMoves DEF AddRound
<1>6. ASSUME NEW s \in Services, FollowRound(s)
      PROVE  mon = "iter" /\ mon' \in {"iter", "open", "stop"} /\ UNCHANGED IsLogMonitorOk
  BY <1>6, FollowKeysMoves, FollowFilesMoves DEF FollowRound
<1>7. ASSUME NEW s \in Services, PruneRound(s)
      PROVE  mon = "iter" /\ mon' \in {"iter", "stop"} /\ UNCHANGED IsLogMonitorOk
  BY <1>7, PruneRoundMoves DEF PruneRound
<1>8. ASSUME NEW n \in Nodes, Register(n)
      PROVE  mon = "register" /\ mon' = "iter" /\ UNCHANGED IsLogMonitorOk
  BY <1>8 DEF Register
<1>. QED BY <1>1, <1>2, <1>3, <1>4, <1>5, <1>6, <1>7, <1>8 DEF MonStep

\* The log monitor implements SupervisedTask, with StartMonit as the worker:
\* the supervisor finds it down whenever it has returned, and sets its flag
\* only then.
THEOREM ImplementsTask == Spec => SupervisedSpec
<1>1. Init => Task!Init
  BY DEF Init, Task!Init
<1>2. TabledInv /\ [Next]_vars => [Task!Next]_(Task!vars)
  <2>. SUFFICES ASSUME TabledInv, [Next]_vars PROVE [Task!Next]_(Task!vars)
    OBVIOUS
  <2>. USE DEF TabledInv, flags, super, loop
  <2>1. ASSUME NEW n \in Nodes, NodeStep(n) PROVE UNCHANGED Task!vars
    BY <2>1, TaskFrame DEF NodeStep, NodeSweep, NodeWake, NodeFail
  <2>2. CASE MonStep
    <3>1. CASE mon' # "idle"
      BY <2>2, <3>1, MonMoves, TaskFrame
    <3>2. CASE mon' = "idle"
      <4>1. Task!Die("StartMonit")
        BY <2>2, <3>2, MonMoves DEF Task!Die
      <4>. QED BY <4>1 DEF Task!Next
    <3>. QED BY <3>1, <3>2
  <2>3. CASE SwapKeys \/ SwapFiles \/ CallLock \/ SetFlag \/ DrainDone \/ Halt \/ Tick
    <3>1. UNCHANGED <<IsLogMonitorOk, mon>>
      BY <2>3 DEF SwapKeys, SwapFiles, CallLock, SetFlag, DrainDone, Halt, Tick
    <3>. QED BY <3>1, TaskFrame
  <2>4. CASE Rearm
    <3>1. ~IsLogMonitorOk /\ mon = "idle"
      BY <2>4 DEF Rearm, LifeInv
    <3>2. Task!Rearm
      BY <2>4, <3>1 DEF Rearm, Task!Rearm
    <3>. QED BY <3>2 DEF Task!Next
  <2>5. CASE Spawn
    <3>1. IsLogMonitorOk /\ mon = "idle"
      BY <2>5 DEF Spawn, LifeInv
    <3>2. Task!Launch("StartMonit")
      BY <2>5, <3>1 DEF Spawn, Task!Launch
    <3>. QED BY <3>2 DEF Task!Next
  <2>6. ASSUME NEW s \in Services, DrainOne(s) PROVE UNCHANGED Task!vars
    BY <2>6, TaskFrame DEF DrainOne
  <2>7. ASSUME NEW c \in Confs, Reload(c) PROVE UNCHANGED Task!vars
    BY <2>7, TaskFrame DEF Reload
  <2>8. CASE UNCHANGED vars
    BY <2>8, TaskFrame DEF vars
  <2>. QED BY <2>1, <2>2, <2>3, <2>4, <2>5, <2>6, <2>7, <2>8 DEF Next, MainStep
<1>. QED BY <1>1, <1>2, TabledHolds, OneStartMonit, PTL DEF Spec, SupervisedSpec, Task!Spec

-----------------------------------------------------------------------------
(* SyncedWhenIdle.                                                         *)

\* StartMonit is in the part that follows a change of the configuration.
InPass == phase # "add" /\ (mon = "iter" \/ Adding \/ Stopping)

\* The configuration in force is whole, and InitConf is not at work on it.
Quiet == IsconfigOk /\ main \notin {"keys", "files", "swapped", "flag"}

Paired == DOMAIN KeyMap \cap DOMAIN FilePathMap
KeyOK(s) == s \in DOMAIN MonitedMap => spec[MonitedMap[s]].key = KeyMap[s]
FileOK(s) == s \in DOMAIN MonitedMap => spec[MonitedMap[s]].file = FilePathMap[s]
Synced == DOMAIN MonitedMap = Paired /\ \A s \in DOMAIN MonitedMap : KeyOK(s) /\ FileOK(s)

\* The service StartMonit has taken out of its range and is not done with.
Busy(s) == mon # "iter" /\ s = cur.srv

AddPass ==
  Adding => /\ phase # "prune" /\ cur.srv \in Paired \ DOMAIN work
            /\ cur.key = KeyMap[cur.srv] /\ cur.file = FilePathMap[cur.srv]

\* Each range leaves behind it services that follow the configuration: first
\* their key lists, then their files, and last the services to be removed.
KeysPass ==
  /\ DOMAIN work \subseteq DOMAIN KeyMap /\ \A s \in DOMAIN work : work[s] = KeyMap[s]
  /\ \A s \in DOMAIN KeyMap \ DOMAIN work : ~Busy(s) =>
       KeyOK(s) /\ (s \in DOMAIN FilePathMap => s \in DOMAIN MonitedMap)
  /\ Stopping => cur.srv \in DOMAIN KeyMap \ DOMAIN work /\ cur.new = KeyMap[cur.srv]

FilesPass ==
  /\ DOMAIN work \subseteq DOMAIN FilePathMap /\ \A s \in DOMAIN work : work[s] = FilePathMap[s]
  /\ \A s \in Paired : ~Busy(s) => s \in DOMAIN MonitedMap /\ KeyOK(s)
  /\ \A s \in DOMAIN FilePathMap \ DOMAIN work : ~Busy(s) => FileOK(s)
  /\ Stopping => cur.srv \in DOMAIN FilePathMap \ DOMAIN work /\ cur.new = FilePathMap[cur.srv]

PrunePass ==
  /\ \A s \in Paired : s \in DOMAIN MonitedMap /\ KeyOK(s) /\ FileOK(s)
  /\ \A s \in DOMAIN MonitedMap \ Paired : s \in DOMAIN work \/ Busy(s)
  /\ Stopping => cur.srv \notin Paired

PassInv ==
  /\ AddPass
  /\ phase = "keys" => KeysPass
  /\ phase = "files" => FilesPass
  /\ phase = "prune" => PrunePass

\* A change of the configuration stays announced until a whole pass has
\* followed it, and when none is announced the first round adds nothing.
SyncInv ==
  /\ InPass => IsNeedReload
  /\ Quiet /\ ~IsNeedReload =>
       /\ Synced /\ ~Adding /\ ~Stopping
       /\ phase = "add" /\ mon = "iter" => DOMAIN work \subseteq DOMAIN FilePathMap
  /\ Quiet /\ mon = "reset" => Synced
  /\ Quiet /\ InPass => PassInv

\* A step of another goroutine that does not end the work of InitConf.
LEMMA SyncFrame ==
  /\ SyncInv /\ (Quiet' => Quiet)
  /\ UNCHANGED <<IsNeedReload, KeyMap, FilePathMap, MonitedMap, spec, mon, phase, work, cur>>
  => SyncInv'
<1>. SUFFICES ASSUME SyncInv, Quiet' => Quiet,
                     UNCHANGED <<IsNeedReload, KeyMap, FilePathMap, MonitedMap,
                                 spec, mon, phase, work, cur>>
              PROVE  SyncInv'
  OBVIOUS
<1>1. (InPass' <=> InPass) /\ (Adding' <=> Adding) /\ (Stopping' <=> Stopping)
  BY DEF InPass, Adding, Stopping
<1>2. Synced' <=> Synced
  BY DEF Synced, Paired, KeyOK, FileOK
<1>3. PassInv' <=> PassInv
  BY <1>1 DEF PassInv, AddPass, KeysPass, FilesPass, PrunePass, Paired, KeyOK, FileOK, Busy
<1>. QED BY <1>1, <1>2, <1>3 DEF SyncInv

\* A step of StartMonit from one place to another that changes nothing else.
LEMMA SyncMove ==
  /\ SyncInv /\ (Quiet' => Quiet)
  /\ UNCHANGED <<IsNeedReload, KeyMap, FilePathMap, MonitedMap, spec, phase, work, cur>>
  /\ mon' \notin {"iter", "reset"}
  /\ Adding' => Adding
  /\ Stopping' => Stopping
  => SyncInv'
<1>. SUFFICES ASSUME SyncInv, Quiet' => Quiet,
                     UNCHANGED <<IsNeedReload, KeyMap, FilePathMap, MonitedMap,
                                 spec, phase, work, cur>>,
                     mon' \notin {"iter", "reset"}, Adding' => Adding, Stopping' => Stopping
              PROVE  SyncInv'
  OBVIOUS
<1>1. Synced' <=> Synced
  BY DEF Synced, Paired, KeyOK, FileOK
<1>2. InPass' => InPass
  BY DEF InPass
<1>3. InPass' /\ PassInv => PassInv'
  <2>1. InPass' => mon # "iter"
    BY DEF InPass, Adding, Stopping
  <2>. QED BY <2>1 DEF PassInv, AddPass, KeysPass, FilesPass, PrunePass, Paired,
                       KeyOK, FileOK, Busy
<1>. QED BY <1>1, <1>2, <1>3 DEF SyncInv

\* A step of a pass, in which IsNeedReload is set.
LEMMA SyncPass ==
  /\ SyncInv /\ InPass /\ (Quiet' => Quiet) /\ UNCHANGED IsNeedReload
  /\ mon' # "reset"
  /\ Quiet /\ PassInv => PassInv'
  => SyncInv'
BY DEF SyncInv

\* In the first round a service is added only while a change is announced.
LEMMA SyncAdd ==
  /\ SyncInv /\ phase = "add" /\ Adding /\ (Quiet' => Quiet) /\ UNCHANGED IsNeedReload
  /\ phase' = "add" /\ mon' # "reset"
  => SyncInv'
BY DEF SyncInv, InPass

LEMMA SyncStep == TabledInv /\ SyncInv /\ [Next]_vars => SyncInv'
<1>. SUFFICES ASSUME TabledInv, SyncInv, [Next]_vars PROVE SyncInv'
  OBVIOUS
<1>. USE DEF flags, confs, nodes, loop, super
<1>1. ASSUME NEW n \in Nodes, NodeSweep(n) PROVE SyncInv'
  <2>1. Quiet' => Quiet
    BY <1>1 DEF NodeSweep, Quiet
  <2>. QED BY <1>1, <2>1, SyncFrame DEF NodeSweep
<1>2. ASSUME NEW n \in Nodes, NodeWake(n) PROVE SyncInv'
  <2>1. Quiet' => Quiet
    BY <1>2 DEF NodeWake, Quiet
  <2>. QED BY <1>2, <2>1, SyncFrame DEF NodeWake
<1>3. ASSUME NEW n \in Nodes, NodeFail(n) PROVE SyncInv'
  <2>1. Quiet' => Quiet
    BY <1>3 DEF NodeFail, Quiet
  <2>. QED BY <1>3, <2>1, SyncFrame DEF NodeFail
<1>4. CASE Begin
  <2>1. Quiet' => Quiet
    BY <1>4 DEF Begin, GiveUp, Quiet
  <2>. QED BY <1>4, <2>1, SyncMove DEF Begin, GiveUp, Adding, Stopping
<1>5. CASE Arm
  <2>1. Synced' <=> Synced
    BY <1>5 DEF Arm, Synced, Paired, KeyOK, FileOK
  <2>2. /\ ~InPass' /\ ~Adding' /\ ~Stopping' /\ mon' # "reset"
        /\ work' = FilePathMap'
        /\ Quiet' => Quiet
        /\ UNCHANGED IsNeedReload
    BY <1>5 DEF Arm, InPass, Adding, Stopping, Quiet
  <2>. QED BY <2>1, <2>2 DEF SyncInv
<1>6. CASE Open
  <2>1. Quiet' => Quiet
    BY <1>6 DEF Open, Quiet
  <2>. QED BY <1>6, <2>1, SyncMove DEF Open, Adding, Stopping
<1>7. CASE Forget
  <2>1. /\ mon = "forget" /\ mon' = "iter" /\ (Quiet' => Quiet)
        /\ UNCHANGED <<IsNeedReload, MonitedMap, spec, phase, work>>
    BY <1>7 DEF Forget, Quiet
  <2>2. CASE phase = "add"
    BY <2>1, <2>2, SyncAdd DEF Adding
  <2>3. CASE phase # "add"
    <3>1. /\ DOMAIN FilePathMap' = DOMAIN FilePathMap \ {cur.srv}
          /\ \A t \in DOMAIN FilePathMap : t # cur.srv => FilePathMap'[t] = FilePathMap[t]
      BY <1>7, WithoutValues DEF Forget
    <3>2. /\ DOMAIN KeyMap' = DOMAIN KeyMap \ {cur.srv}
          /\ \A t \in DOMAIN KeyMap : t # cur.srv => KeyMap'[t] = KeyMap[t]
      BY <1>7, WithoutValues DEF Forget
    <3>3. PassInv => PassInv'
      <4>. SUFFICES ASSUME PassInv PROVE PassInv'
        OBVIOUS
      <4>. USE <2>1, <2>3, <3>1, <3>2 DEF Paired, KeyOK, FileOK, Busy, Adding, Stopping
      <4>1. AddPass'
        BY DEF AddPass
      <4>2. phase = "keys" => KeysPass'
        BY DEF PassInv, AddPass, KeysPass
      <4>3. phase = "files" => FilesPass'
        BY DEF PassInv, AddPass, FilesPass
      <4>. QED BY <4>1, <4>2, <4>3 DEF PassInv, AddPass
    <3>. QED BY <2>1, <2>3, <3>3, SyncPass DEF InPass, Adding
  <2>. QED BY <2>2, <2>3
<1>8. CASE Check
  <2>1. Quiet' => Quiet
    BY <1>8 DEF Check, Quiet
  <2>. QED BY <1>8, <2>1, SyncMove DEF Check, Adding, Stopping
<1>9. CASE Gate
  <2>1. /\ ~Adding' /\ ~Stopping' /\ (Quiet' => Quiet)
        /\ UNCHANGED <<IsNeedReload, KeyMap, FilePathMap, MonitedMap, spec>>
    BY <1>9 DEF Gate, Adding, Stopping, Quiet
  <2>2. Synced' <=> Synced
    BY <2>1 DEF Synced, Paired, KeyOK, FileOK
  <2>3. CASE IsNeedReload
    <3>1. mon' = "iter" /\ phase' = "keys" /\ work' = KeyMap'
      BY <1>9, <2>3 DEF Gate
    <3>2. PassInv'
      BY <2>1, <3>1 DEF PassInv, AddPass, KeysPass
    <3>. QED BY <2>1, <2>3, <3>1, <3>2 DEF SyncInv
  <2>4. CASE ~IsNeedReload
    <3>1. mon' = "reset"
      BY <1>9, <2>4 DEF Gate
    <3>. QED BY <2>1, <2>2, <2>4, <3>1 DEF SyncInv, InPass
  <2>. QED BY <2>3, <2>4
<1>10. CASE StopOld
  <2>1. Quiet' => Quiet
    BY <1>10 DEF StopOld, Quiet
  <2>. QED BY <1>10, <2>1, SyncMove DEF StopOld, Adding, Stopping
<1>11. CASE DropOld
  <2>1. /\ mon = "drop" /\ (Quiet' => Quiet)
        /\ UNCHANGED <<IsNeedReload, KeyMap, FilePathMap, spec, phase, work>>
        /\ phase \in {"keys", "files", "prune"}
    BY <1>11 DEF DropOld, Quiet, TabledInv, TypeInv, LoopOK, Phases, Stopping
  <2>2. /\ DOMAIN MonitedMap' = DOMAIN MonitedMap \ {cur.srv}
        /\ \A t \in DOMAIN MonitedMap : t # cur.srv => MonitedMap'[t] = MonitedMap[t]
    BY <1>11, WithoutValues DEF DropOld
  <2>3. mon' # "reset" /\ InPass
    BY <1>11, <2>1, DropMoves DEF InPass, Stopping
  <2>4. PassInv => PassInv'
    <3>. SUFFICES ASSUME PassInv PROVE PassInv'
      OBVIOUS
    <3>. USE <1>11, <2>1, <2>2, DropMoves DEF Paired, KeyOK, FileOK, Busy, Adding, Stopping
    <3>1. CASE phase = "keys"
      BY <3>1 DEF PassInv, AddPass, KeysPass
    <3>2. CASE phase = "files"
      BY <3>2 DEF PassInv, AddPass, FilesPass
    <3>3. CASE phase = "prune"
      BY <3>3 DEF PassInv, AddPass, PrunePass
    <3>. QED BY <3>1, <3>2, <3>3
  <2>. QED BY <2>1, <2>3, <2>4, SyncPass
<1>12. CASE RoundDone
  <2>1. /\ mon = "iter" /\ DOMAIN work = {} /\ (Quiet' => Quiet)
        /\ UNCHANGED <<IsNeedReload, KeyMap, FilePathMap, MonitedMap, spec>>
    <3>1. UNCHANGED flags \/ GiveUp
      BY <1>12 DEF RoundDone, TabledInv, TypeInv, LoopOK, Phases
    <3>. QED BY <1>12, <3>1, EmptyMap DEF RoundDone, GiveUp, Quiet
  <2>2. CASE phase = "add"
    <3>1. phase' = "add" /\ work' = work /\ cur' = cur /\ mon' \in {"idle", "check"}
      BY <1>12, <2>2 DEF RoundDone, GiveUp
    <3>. QED BY <2>1, <2>2, <3>1, SyncMove DEF Adding, Stopping
  <2>3. CASE phase = "keys"
    <3>1. mon' = "iter" /\ phase' = "files" /\ work' = FilePathMap
      BY <1>12, <2>1, <2>3 DEF RoundDone
    <3>2. PassInv => PassInv'
      BY <2>1, <2>3, <3>1 DEF PassInv, AddPass, KeysPass, FilesPass, Paired, KeyOK, FileOK,
                              Busy, Adding, Stopping
    <3>. QED BY <2>1, <2>3, <3>1, <3>2, SyncPass DEF InPass
  <2>4. CASE phase = "files"
    <3>1. mon' = "iter" /\ phase' = "prune" /\ work' = MonitedMap
      BY <1>12, <2>1, <2>4 DEF RoundDone
    <3>2. PassInv => PassInv'
      BY <2>1, <2>4, <3>1 DEF PassInv, AddPass, FilesPass, PrunePass, Paired, KeyOK, FileOK,
                              Busy, Adding, Stopping
    <3>. QED BY <2>1, <2>4, <3>1, <3>2, SyncPass DEF InPass
  <2>5. CASE phase = "prune"
    <3>1. phase' = "add" /\ mon' = "reset"
      BY <1>12, <2>5 DEF RoundDone
    <3>2. InPass /\ ~InPass' /\ ~Adding' /\ ~Stopping'
      BY <2>1, <2>5, <3>1 DEF InPass, Adding, Stopping
    <3>3. PassInv => Synced
      BY <2>1, <2>5 DEF PassInv, PrunePass, Busy, Synced
    <3>4. Synced => Synced'
      BY <2>1 DEF Synced, Paired, KeyOK, FileOK
    <3>. QED BY <2>1, <3>1, <3>2, <3>3, <3>4 DEF SyncInv
  <2>. QED BY <2>2, <2>3, <2>4, <2>5 DEF TabledInv, TypeInv, LoopOK, Phases
<1>13. CASE Reset
  <2>1. Synced' <=> Synced
    BY <1>13 DEF Reset, Synced, Paired, KeyOK, FileOK
  <2>2. ~InPass' /\ ~Adding' /\ ~Stopping' /\ mon = "reset" /\ mon' = "len" /\ (Quiet' => Quiet)
    BY <1>13 DEF Reset, InPass, Adding, Stopping, Quiet
  <2>. QED BY <2>1, <2>2 DEF SyncInv
<1>14. CASE CheckLen
  <2>1. Quiet' => Quiet
    BY <1>14 DEF CheckLen, GiveUp, Quiet
  <2>. QED BY <1>14, <2>1, SyncMove DEF CheckLen, GiveUp, Adding, Stopping
<1>15. CASE Wake
  <2>1. Quiet' => Quiet
    BY <1>15 DEF Wake, Quiet
  <2>. QED BY <1>15, <2>1, SyncMove DEF Wake, Adding, Stopping
<1>16. ASSUME NEW s \in Services, AddRound(s) PROVE SyncInv'
  <2>1. /\ phase = "add" /\ mon = "iter" /\ phase' = "add" /\ s \in DOMAIN work
        /\ DOMAIN work' = DOMAIN work \ {s} /\ (Quiet' => Quiet)
        /\ UNCHANGED <<IsNeedReload, KeyMap, FilePathMap, MonitedMap, spec>>
    BY <1>16, WithoutValues DEF AddRound, Quiet
  <2>2. Synced' <=> Synced
    BY <2>1 DEF Synced, Paired, KeyOK, FileOK
  <2>3. ~InPass'
    BY <2>1 DEF InPass
  <2>4. mon' \in {"iter", "open"}
    BY <1>16, <2>1, AddRoundMoves
  <2>5. CASE Quiet /\ ~IsNeedReload
    <3>1. s \notin DOMAIN KeyMap
      BY <2>1, <2>5 DEF SyncInv, Synced, Paired, TabledInv, TableInv
    <3>2. mon' = "iter"
      BY <1>16, <2>1, <3>1, AddRoundMoves
    <3>. QED BY <2>1, <2>2, <2>3, <2>5, <3>2 DEF SyncInv, Adding, Stopping
  <2>6. CASE ~(Quiet /\ ~IsNeedReload)
    BY <2>1, <2>3, <2>4, <2>6 DEF SyncInv
  <2>. QED BY <2>5, <2>6
<1>17. ASSUME NEW s \in Services, FollowRound(s) PROVE SyncInv'
  <2>1. /\ mon = "iter" /\ phase \in {"keys", "files"} /\ s \in DOMAIN work
        /\ (Quiet' => Quiet)
        /\ UNCHANGED <<IsNeedReload, KeyMap, FilePathMap, MonitedMap, spec, phase>>
    BY <1>17 DEF FollowRound, Quiet
  <2>2. /\ DOMAIN work' = DOMAIN work \ {s}
        /\ \A t \in DOMAIN work : t # s => work'[t] = work[t]
    BY <1>17, WithoutValues DEF FollowRound
  <2>3. InPass
    BY <2>1 DEF InPass
  <2>4. CASE phase = "keys"
    <3>1. PassInv => PassInv'
      BY <1>17, <2>1, <2>2, <2>4, FollowKeysMoves
         DEF PassInv, AddPass, KeysPass, Paired, KeyOK, FileOK, Busy, Adding, Stopping
    <3>2. mon' # "reset"
      BY <1>17, <2>4, FollowKeysMoves
    <3>. QED BY <2>1, <2>3, <3>1, <3>2, SyncPass
  <2>5. CASE phase = "files"
    <3>1. PassInv => PassInv'
      BY <1>17, <2>1, <2>2, <2>5, FollowFilesMoves
         DEF PassInv, AddPass, FilesPass, Paired, KeyOK, FileOK, Busy, Adding, Stopping
    <3>2. mon' # "reset"
      BY <1>17, <2>5, FollowFilesMoves
    <3>. QED BY <2>1, <2>3, <3>1, <3>2, SyncPass
  <2>. QED BY <2>1, <2>4, <2>5
<1>18. ASSUME NEW s \in Services, PruneRound(s) PROVE SyncInv'
  <2>1. /\ mon = "iter" /\ phase = "prune" /\ s \in DOMAIN work
        /\ (Quiet' => Quiet)
        /\ UNCHANGED <<IsNeedReload, KeyMap, FilePathMap, MonitedMap, spec, phase>>
    BY <1>18 DEF PruneRound, Quiet
  <2>2. DOMAIN work' = DOMAIN work \ {s}
    BY <1>18, WithoutValues DEF PruneRound
  <2>3. PassInv => PassInv'
    BY <1>18, <2>1, <2>2, PruneRoundMoves
       DEF PassInv, AddPass, PrunePass, Paired, KeyOK, FileOK, Busy, Adding, Stopping
  <2>4. InPass /\ mon' # "reset"
    BY <1>18, <2>1, PruneRoundMoves DEF InPass
  <2>. QED BY <2>1, <2>3, <2>4, SyncPass
<1>19. ASSUME NEW n \in Nodes, Register(n) PROVE SyncInv'
  <2>1. /\ mon = "register" /\ mon' = "iter" /\ (Quiet' => Quiet)
        /\ UNCHANGED <<IsNeedReload, KeyMap, FilePathMap, phase, work>>
    BY <1>19 DEF Register, Quiet
  <2>2. CASE phase = "add"
    BY <2>1, <2>2, SyncAdd DEF Adding
  <2>3. CASE phase # "add"
    <3>1. MonitedMap' = Put(MonitedMap, cur.srv, n)
      BY <1>19 DEF Register
    <3>2. DOMAIN MonitedMap' = DOMAIN MonitedMap \cup {cur.srv} /\ MonitedMap'[cur.srv] = n
      BY <3>1 DEF Put
    <3>3. \A t \in DOMAIN MonitedMap : t # cur.srv => MonitedMap'[t] = MonitedMap[t]
      BY <3>1 DEF Put
    <3>4. spec'[n] = cur /\ \A m \in Nodes : m # n => spec'[m] = spec[m]
      BY <1>19 DEF Register, TabledInv, TypeInv, NodesOK
    <3>5. \A t \in DOMAIN MonitedMap : MonitedMap[t] \in Nodes /\ MonitedMap[t] # n
      BY <1>19, MapsElim DEF Register, Registered, TabledInv, TypeInv, TableOK
    <3>6. \A t \in DOMAIN MonitedMap : t # cur.srv => spec'[MonitedMap'[t]] = spec[MonitedMap[t]]
      BY <3>3, <3>4, <3>5
    <3>7. spec'[MonitedMap'[cur.srv]] = cur
      BY <3>2, <3>4
    <3>8. PassInv => PassInv'
      <4>. SUFFICES ASSUME PassInv PROVE PassInv'
        OBVIOUS
      <4>. USE <2>1, <2>3, <3>2, <3>6, <3>7 DEF Paired, KeyOK, FileOK, Busy, Adding, Stopping
      <4>1. AddPass'
        BY DEF AddPass
      <4>2. phase = "keys" => KeysPass'
        BY DEF PassInv, AddPass, KeysPass
      <4>3. phase = "files" => FilesPass'
        BY DEF PassInv, AddPass, FilesPass
      <4>. QED BY <4>1, <4>2, <4>3 DEF PassInv, AddPass
    <3>. QED BY <2>1, <2>3, <3>8, SyncPass DEF InPass, Adding
  <2>. QED BY <2>2, <2>3
<1>20. CASE SwapKeys
  <2>1. ~Quiet'
    BY <1>20 DEF SwapKeys, Quiet
  <2>2. InPass' => IsNeedReload'
    BY <1>20 DEF SwapKeys, SyncInv, InPass, Adding, Stopping
  <2>. QED BY <2>1, <2>2 DEF SyncInv
<1>21. CASE SwapFiles
  <2>1. ~Quiet'
    BY <1>21 DEF SwapFiles, Quiet
  <2>2. InPass' => IsNeedReload'
    BY <1>21 DEF SwapFiles, SyncInv, InPass, Adding, Stopping
  <2>. QED BY <2>1, <2>2 DEF SyncInv
<1>22. CASE CallLock
  <2>1. ~Quiet'
    BY <1>22 DEF CallLock, Quiet
  <2>2. InPass' => IsNeedReload'
    BY <1>22 DEF CallLock, SyncInv, InPass, Adding, Stopping
  <2>. QED BY <2>1, <2>2 DEF SyncInv
<1>23. CASE SetFlag
  <2>1. IsNeedReload' /\ ~InPass' /\ mon' # "reset"
    BY <1>23 DEF SetFlag, ReloadLocked, InPass, Adding, Stopping
  <2>. QED BY <2>1 DEF SyncInv
<1>24. CASE DrainDone
  <2>1. Quiet' => Quiet
    BY <1>24 DEF DrainDone, TableLocked, Quiet
  <2>. QED BY <1>24, <2>1, SyncFrame DEF DrainDone
<1>25. CASE Halt
  <2>1. Quiet' => Quiet
    BY <1>25 DEF Halt, Quiet
  <2>. QED BY <1>25, <2>1, SyncFrame DEF Halt
<1>26. CASE Tick
  <2>1. Quiet' => Quiet
    BY <1>26 DEF Tick, Quiet
  <2>. QED BY <1>26, <2>1, SyncFrame DEF Tick
<1>27. CASE Rearm
  <2>1. Quiet' => Quiet
    BY <1>27 DEF Rearm, Quiet
  <2>. QED BY <1>27, <2>1, SyncFrame DEF Rearm
<1>28. CASE Spawn
  <2>1. Quiet' => Quiet
    BY <1>28 DEF Spawn, Quiet
  <2>. QED BY <1>28, <2>1, SyncMove DEF Spawn, Adding, Stopping
<1>29. ASSUME NEW s \in Services, DrainOne(s) PROVE SyncInv'
  <2>1. CASE main = "drain"
    <3>1. ~Quiet'
      BY <1>29, <2>1 DEF DrainOne, Quiet, TabledInv, LifeInv
    <3>2. InPass' => IsNeedReload'
      BY <1>29 DEF DrainOne, SyncInv, InPass, Adding, Stopping
    <3>. QED BY <3>1, <3>2 DEF SyncInv
  <2>2. CASE main = "drainTick"
    BY <1>29, <2>2 DEF DrainOne, TabledInv, LifeInv, TableInv
  <2>. QED BY <1>29, <2>1, <2>2 DEF DrainOne, TableLocked
<1>30. ASSUME NEW c \in Confs, Reload(c) PROVE SyncInv'
  <2>1. ~Quiet'
    BY <1>30 DEF Reload, Quiet
  <2>2. InPass' => IsNeedReload'
    BY <1>30 DEF Reload, SyncInv, InPass, Adding, Stopping
  <2>. QED BY <2>1, <2>2 DEF SyncInv
<1>31. CASE UNCHANGED vars
  <2>1. Quiet' => Quiet
    BY <1>31 DEF vars, Quiet
  <2>. QED BY <1>31, <2>1, SyncFrame DEF vars
<1>. QED
  BY <1>1, <1>2, <1>3, <1>4, <1>5, <1>6, <1>7, <1>8, <1>9, <1>10, <1>11, <1>12,
     <1>13, <1>14, <1>15, <1>16, <1>17, <1>18, <1>19, <1>20, <1>21, <1>22, <1>23,
     <1>24, <1>25, <1>26, <1>27, <1>28, <1>29, <1>30, <1>31
  DEF Next, NodeStep, MonStep, MainStep

LEMMA SyncInit == Init => SyncInv
<1>. SUFFICES ASSUME Init PROVE SyncInv
  OBVIOUS
<1>1. ~InPass /\ mon = "start" /\ (Quiet => IsNeedReload)
  BY DEF Init, InPass, Quiet
<1>. QED BY <1>1 DEF SyncInv

\* When StartMonit sleeps and no change is announced, the table holds just the
\* services of the configuration in force, each with a node for its key list
\* and its file: wherever StartMonit was when InitConf exchanged the maps, in
\* two steps and without a lock, it goes through them once more.
THEOREM SyncedWhenIdleHolds == Spec => []SyncedWhenIdle
<1>1. SyncInv => SyncedWhenIdle
  BY DEF SyncInv, SyncedWhenIdle, Quiet, Synced, Paired, KeyOK, FileOK
<1>. QED BY <1>1, SyncInit, SyncStep, TabledHolds, PTL DEF Spec

-----------------------------------------------------------------------------
(* NoPanic.                                                                *)

\* When every configuration is complete, only the supervision empties the
\* table, when it is empty; a node that is in it has not been told to stop,
\* but for the one StartMonit is taking off it.
PanicInv ==
  /\ main \notin {"drain", "halt", "panic"}
  /\ mon # "panic"
  /\ \A s, t \in DOMAIN MonitedMap : MonitedMap[s] = MonitedMap[t] => s = t
  /\ \A s \in DOMAIN MonitedMap :
       chan[MonitedMap[s]] = "empty" \/ (mon = "drop" /\ s = cur.srv)
  /\ Stopping => cur.srv \in DOMAIN MonitedMap

\* A step of StartMonit that touches neither the table nor the channels.
LEMMA PanicMove ==
  /\ PanicInv /\ main' = main
  /\ UNCHANGED <<MonitedMap, chan>>
  /\ mon # "drop" /\ mon' # "panic"
  /\ Stopping' => cur'.srv \in DOMAIN MonitedMap
  => PanicInv'
BY DEF PanicInv

\* A step of the main goroutine that touches neither.
LEMMA PanicMain ==
  /\ PanicInv /\ main' \notin {"drain", "halt", "panic"}
  /\ UNCHANGED <<MonitedMap, chan, mon, cur>>
  => PanicInv'
BY DEF PanicInv, Stopping

LEMMA PanicStep ==
  ASSUME \A c \in Confs : Complete(c)
  PROVE  TabledInv /\ PanicInv /\ [Next]_vars => PanicInv'
<1>. SUFFICES ASSUME TabledInv, PanicInv, [Next]_vars PROVE PanicInv'
  OBVIOUS
<1>. USE DEF flags, confs, nodes, loop, super
<1>1. ASSUME NEW n \in Nodes, NodeSweep(n) PROVE PanicInv'
  <2>1. \A m \in Nodes : chan[m] = "empty" => chan'[m] = "empty"
    BY <1>1 DEF NodeSweep, TabledInv, TypeInv, NodesOK
  <2>2. \A t \in DOMAIN MonitedMap : MonitedMap[t] \in Nodes
    BY MapsElim DEF TabledInv, TypeInv, TableOK
  <2>3. UNCHANGED <<MonitedMap, mon, cur, main>>
    BY <1>1 DEF NodeSweep
  <2>. QED BY <2>1, <2>2, <2>3 DEF PanicInv, Stopping
<1>2. ASSUME NEW n \in Nodes, NodeWake(n) PROVE PanicInv'
  BY <1>2, PanicMain DEF NodeWake, PanicInv
<1>3. ASSUME NEW n \in Nodes, NodeFail(n) PROVE PanicInv'
  BY <1>3, PanicMain DEF NodeFail, PanicInv
<1>4. CASE Begin
  BY <1>4, PanicMove DEF Begin, GiveUp, Stopping
<1>5. CASE Arm
  BY <1>5, PanicMove DEF Arm, Stopping
<1>6. CASE Open
  BY <1>6, PanicMove DEF Open, Stopping
<1>7. CASE Forget
  BY <1>7, PanicMove DEF Forget, Stopping
<1>8. CASE Check
  BY <1>8, PanicMove DEF Check, Stopping
<1>9. CASE Gate
  BY <1>9, PanicMove DEF Gate, Stopping
<1>10. CASE StopOld
  <2>1. /\ mon = "stop" /\ cur.srv \in DOMAIN MonitedMap /\ MonitedMap[cur.srv] = cur.old
        /\ chan[cur.old] = "empty"
    BY <1>10 DEF StopOld, PanicInv, Stopping, TabledInv, TableInv
  <2>2. /\ mon' = "drop" /\ UNCHANGED <<main, MonitedMap, cur>>
        /\ \A m \in Nodes : m # cur.old => chan'[m] = chan[m]
    BY <1>10, <2>1 DEF StopOld, TabledInv, TypeInv, NodesOK
  <2>3. \A t \in DOMAIN MonitedMap : MonitedMap[t] \in Nodes
    BY MapsElim DEF TabledInv, TypeInv, TableOK
  <2>. QED BY <2>1, <2>2, <2>3 DEF PanicInv, Stopping
<1>11. CASE DropOld
  <2>1. /\ mon = "drop" /\ mon' \notin {"panic", "stop", "drop"}
        /\ UNCHANGED <<main, chan>>
    BY <1>11, DropMoves DEF DropOld, TabledInv, TypeInv, LoopOK, Phases, Stopping
  <2>2. /\ DOMAIN MonitedMap' = DOMAIN MonitedMap \ {cur.srv}
        /\ \A t \in DOMAIN MonitedMap : t # cur.srv => MonitedMap'[t] = MonitedMap[t]
    BY <1>11, WithoutValues DEF DropOld
  <2>. QED BY <2>1, <2>2 DEF PanicInv, Stopping
<1>12. CASE RoundDone
  <2>1. mon = "iter" /\ mon' \notin {"panic", "stop", "drop"}
    BY <1>12 DEF RoundDone, GiveUp, TabledInv, TypeInv, LoopOK, Phases
  <2>2. UNCHANGED <<main, MonitedMap, chan>>
    BY <1>12 DEF RoundDone
  <2>. QED BY <2>1, <2>2, PanicMove DEF Stopping
<1>13. CASE Reset
  BY <1>13, PanicMove DEF Reset, Stopping
<1>14. CASE CheckLen
  BY <1>14, PanicMove DEF CheckLen, GiveUp, Stopping
<1>15. CASE Wake
  BY <1>15, PanicMove DEF Wake, Stopping
<1>16. ASSUME NEW s \in Services, AddRound(s) PROVE PanicInv'
  <2>1. mon = "iter" /\ mon' \notin {"panic", "stop", "drop"}
    BY <1>16, AddRoundMoves DEF AddRound
  <2>2. UNCHANGED <<main, MonitedMap, chan>>
    BY <1>16 DEF AddRound
  <2>. QED BY <2>1, <2>2, PanicMove DEF Stopping
<1>17. ASSUME NEW s \in Services, FollowRound(s) PROVE PanicInv'
  <2>1. /\ mon = "iter" /\ mon' # "panic"
        /\ mon' \in {"stop", "drop"} => cur'.srv \in DOMAIN MonitedMap
    BY <1>17, FollowKeysMoves, FollowFilesMoves DEF FollowRound
  <2>2. UNCHANGED <<main, MonitedMap, chan>>
    BY <1>17 DEF FollowRound
  <2>. QED BY <2>1, <2>2, PanicMove DEF Stopping
<1>18. ASSUME NEW s \in Services, PruneRound(s) PROVE PanicInv'
  <2>1. /\ mon = "iter" /\ mon' # "panic"
        /\ mon' \in {"stop", "drop"} => cur'.srv \in DOMAIN MonitedMap
    BY <1>18, PruneRoundMoves DEF PruneRound
  <2>2. UNCHANGED <<main, MonitedMap, chan>>
    BY <1>18 DEF PruneRound
  <2>. QED BY <2>1, <2>2, PanicMove DEF Stopping
<1>19. ASSUME NEW n \in Nodes, Register(n) PROVE PanicInv'
  <2>1. mon = "register" /\ mon' = "iter" /\ main' = main
    BY <1>19 DEF Register
  <2>2. MonitedMap' = Put(MonitedMap, cur.srv, n)
    BY <1>19 DEF Register
  <2>3. DOMAIN MonitedMap' = DOMAIN MonitedMap \cup {cur.srv} /\ MonitedMap'[cur.srv] = n
    BY <2>2 DEF Put
  <2>4. \A t \in DOMAIN MonitedMap : t # cur.srv => MonitedMap'[t] = MonitedMap[t]
    BY <2>2 DEF Put
  <2>5. \A t \in DOMAIN MonitedMap : MonitedMap[t] \in Nodes /\ MonitedMap[t] # n
    BY <1>19, MapsElim DEF Register, Registered, TabledInv, TypeInv, TableOK
  <2>6. chan'[n] = "empty" /\ \A m \in Nodes : m # n => chan'[m] = chan[m]
    BY <1>19 DEF Register, TabledInv, TypeInv, NodesOK
  <2>. QED BY <2>1, <2>3, <2>4, <2>5, <2>6 DEF PanicInv, Stopping
<1>20. CASE SwapKeys
  BY <1>20, PanicMain DEF SwapKeys
<1>21. CASE SwapFiles
  BY <1>21, PanicMain DEF SwapFiles
<1>22. CASE CallLock
  BY <1>22, PanicMain DEF CallLock
<1>23. CASE SetFlag
  BY <1>23, PanicMain DEF SetFlag
<1>24. CASE DrainDone
  BY <1>24, PanicMain DEF DrainDone, PanicInv
<1>25. CASE Halt
  BY <1>25, PanicMain DEF Halt, PanicInv
<1>26. CASE Tick
  BY <1>26, PanicMain DEF Tick
<1>27. CASE Rearm
  BY <1>27, PanicMain DEF Rearm
<1>28. CASE Spawn
  <2>1. mon = "idle" /\ mon' = "start" /\ main' = "poll" /\ UNCHANGED <<MonitedMap, chan>>
    BY <1>28 DEF Spawn, TabledInv, LifeInv
  <2>. QED BY <2>1 DEF PanicInv, Stopping
<1>29. ASSUME NEW s \in Services, DrainOne(s) PROVE PanicInv'
  <2>1. main = "drainTick"
    BY <1>29 DEF DrainOne, TableLocked, PanicInv
  <2>2. DOMAIN MonitedMap = {}
    BY <2>1 DEF TabledInv, LifeInv, TableInv
  <2>. QED BY <1>29, <2>2 DEF DrainOne
<1>30. ASSUME NEW c \in Confs, Reload(c) PROVE PanicInv'
  BY <1>30, PanicMain DEF Reload
<1>31. CASE UNCHANGED vars
  BY <1>31, PanicMain DEF vars, PanicInv
<1>. QED
  BY <1>1, <1>2, <1>3, <1>4, <1>5, <1>6, <1>7, <1>8, <1>9, <1>10, <1>11, <1>12,
     <1>13, <1>14, <1>15, <1>16, <1>17, <1>18, <1>19, <1>20, <1>21, <1>22, <1>23,
     <1>24, <1>25, <1>26, <1>27, <1>28, <1>29, <1>30, <1>31
  DEF Next, NodeStep, MonStep, MainStep

LEMMA PanicInit == Init => PanicInv
BY EmptyMap DEF Init, PanicInv, Stopping

\* When every configuration that is loaded monitors at least one log, nobody
\* sends on a channel that its node has closed.
THEOREM NoPanicHolds ==
  ASSUME \A c \in Confs : Complete(c)
  PROVE  Spec => []NoPanic
<1>1. PanicInv => NoPanic
  BY DEF PanicInv, NoPanic
<1>2. TabledInv /\ PanicInv /\ [Next]_vars => PanicInv'
  BY PanicStep
<1>. QED BY <1>1, <1>2, PanicInit, TabledHolds, PTL DEF Spec
=============================================================================
