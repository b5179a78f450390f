--------------------------- MODULE Config_proofs ----------------------------
(***************************************************************************)
(* Theorems about loading the configuration, for every set of files and    *)
(* included files, of any length, and any number of loads: type            *)
(* correctness, NobodyForgotten and NobodyElse.                            *)
(***************************************************************************)
EXTENDS Config, TLAPS

-----------------------------------------------------------------------------
(* Lines.                                                                  *)

LEMMA LineFields ==
  ASSUME NEW l \in Line
  PROVE  /\ l.kind \in {"section", "include", "broken", "entry"}
         /\ l.kind = "entry" => l.key \in Keys /\ l.val \in Values(l.key)
<1>1. CASE l \in [kind : {"section", "include"}, name : STRING]
  BY <1>1
<1>2. CASE l \in [kind : {"broken"}]
  BY <1>2
<1>3. CASE l \in UNION {[kind : {"entry"}, key : {k}, val : Values(k)] : k \in Keys}
  <2>1. PICK k \in Keys : l \in [kind : {"entry"}, key : {k}, val : Values(k)]
    BY <1>3
  <2>. QED BY <2>1
<1>. QED BY <1>1, <1>2, <1>3 DEF Line

AllValues == Recipients \cup Times \cup Hosts

LEMMA KeyValues ==
  /\ Values("SendTo") = Recipients /\ Values("SweepTime") = Times /\ Values("Host") = Hosts
  /\ \A k \in Keys : Values(k) \subseteq AllValues
BY DEF Values, Keys, AllValues

LEMMA HeadTail ==
  ASSUME NEW S, NEW q \in Seq(S), q # <<>>
  PROVE  /\ Head(q) = q[1] /\ Head(q) \in S /\ Tail(q) \in Seq(S)
         /\ Len(q) \in Nat \ {0} /\ Len(Tail(q)) = Len(q) - 1
         /\ \A i \in 1 .. Len(q) - 1 : Tail(q)[i] = q[i + 1]
OBVIOUS

-----------------------------------------------------------------------------
(* Storing an entry.                                                       *)

\* A module has values of a key only for that key, and several of SendTo alone.
Fits(k, text) == /\ text \subseteq Values(k) /\ text \subseteq AllValues
                 /\ k # "SendTo" => \A x, y \in text : x = y
FitMaps(f) ==
  /\ f \in [Modules -> [Keys -> SUBSET AllValues]]
  /\ \A m \in Modules, k \in Keys : Fits(k, f[m][k])
MapsOK == FitMaps(maps)

LEMMA FitsOne ==
  ASSUME NEW k \in Keys, NEW v \in Values(k)
  PROVE  Fits(k, {v})
BY KeyValues DEF Fits

LEMMA FitsJoined ==
  ASSUME MapsOK, NEW m \in Modules, NEW k \in Keys, NEW text, Fits(k, text)
  PROVE  Fits(k, Joined(m, k, text))
<1>1. Fits(k, maps[m][k])
  BY DEF MapsOK, FitMaps
<1>2. k = "SendTo" => Fits(k, text \cup maps[m][k])
  BY <1>1 DEF Fits
<1>. QED BY <1>2 DEF Joined

\* One entry of one module.
Entered(f, n, j, text) == [f EXCEPT ![n][j] = text]

LEMMA OneStored ==
  ASSUME NEW f, FitMaps(f),
         NEW n \in Modules, NEW j \in Keys, NEW text, Fits(j, text),
         NEW g, g = Entered(f, n, j, text)
  PROVE  /\ FitMaps(g)
         /\ g[n][j] = text
         /\ \A m \in Modules, k \in Keys : m # n \/ k # j => g[m][k] = f[m][k]
<1>. USE DEF Entered
<1>1. text \subseteq AllValues /\ f \in [Modules -> [Keys -> SUBSET AllValues]]
  BY DEF Fits, FitMaps
<1>2. g \in [Modules -> [Keys -> SUBSET AllValues]]
  BY <1>1
<1>3. g[n][j] = text
  BY <1>1
<1>4. \A m \in Modules, k \in Keys : m # n => g[m][k] = f[m][k]
  BY <1>1
<1>5. \A k \in Keys : k # j => g[n][k] = f[n][k]
  BY <1>1
<1>6. ASSUME NEW m \in Modules, NEW k \in Keys PROVE Fits(k, g[m][k])
  <2>1. CASE m = n /\ k = j
    BY <1>3, <2>1
  <2>2. CASE m # n \/ k # j
    <3>1. g[m][k] = f[m][k]
      BY <1>4, <1>5, <2>2
    <3>. QED BY <3>1 DEF FitMaps
  <2>. QED BY <2>1, <2>2
<1>. QED BY <1>2, <1>3, <1>4, <1>5, <1>6 DEF FitMaps

\* The same entry of three modules.
LEMMA ThreeStored ==
  ASSUME NEW f, FitMaps(f),
         NEW a \in Modules, NEW b \in Modules, NEW c \in Modules, a # b, a # c, b # c,
         NEW j \in Keys, NEW ta, NEW tb, NEW tc, Fits(j, ta), Fits(j, tb), Fits(j, tc),
         NEW g, g = Entered(Entered(Entered(f, a, j, ta), b, j, tb), c, j, tc)
  PROVE  /\ FitMaps(g)
         /\ g[a][j] = ta /\ g[b][j] = tb /\ g[c][j] = tc
         /\ \A m \in Modules, k \in Keys : k # j => g[m][k] = f[m][k]
<1>. DEFINE f1 == Entered(f, a, j, ta)
            f2 == Entered(f1, b, j, tb)
            f3 == Entered(f2, c, j, tc)
<1>0. g = f3
  OBVIOUS
<1>1. /\ FitMaps(f1) /\ f1[a][j] = ta
      /\ \A m \in Modules, k \in Keys : m # a \/ k # j => f1[m][k] = f[m][k]
  BY OneStored
<1>. HIDE DEF f1
<1>2. /\ FitMaps(f2) /\ f2[b][j] = tb
      /\ \A m \in Modules, k \in Keys : m # b \/ k # j => f2[m][k] = f1[m][k]
  BY <1>1, OneStored
<1>. HIDE DEF f2
<1>3. /\ FitMaps(f3) /\ f3[c][j] = tc
      /\ \A m \in Modules, k \in Keys : m # c \/ k # j => f3[m][k] = f2[m][k]
  BY <1>2, OneStored
<1>. HIDE DEF f3
<1>. QED BY <1>0, <1>1, <1>2, <1>3

To(m) == maps[m]["SendTo"]

\* The process monitor's recipients come along to the log monitor, and both
\* to the system monitor, when an entry counts for all three.
Along(section, m) ==
  IF section = "DEFAULT" /\ m \in {"LOG PARSE", "SYSTEM MONIT"}
  THEN To("PROCESS ALARM") \cup (IF m = "SYSTEM MONIT" THEN To("LOG PARSE") ELSE {})
  ELSE {}

LEMMA Names ==
  /\ "SendTo" \in Keys /\ "SweepTime" \in Keys /\ "Host" \in Keys
  /\ "PROCESS ALARM" \in Modules /\ "LOG PARSE" \in Modules /\ "SYSTEM MONIT" \in Modules
  /\ "ALARM EMAIL" \in Modules
  /\ Mailers = {"PROCESS ALARM", "LOG PARSE", "SYSTEM MONIT"}
  /\ Mailers \subseteq Modules
BY DEF Keys, Modules, Mailers

LEMMA StoredValues ==
  ASSUME MapsOK, NEW section \in Sections, NEW k \in Keys, NEW v \in Values(k),
         Store(section, k, v)
  PROVE  /\ MapsOK'
         /\ k # "SendTo" => \A m \in Mailers : To(m)' = To(m)
         /\ k = "SendTo" => \A m \in Mailers :
              To(m)' = IF section \in {"DEFAULT", m}
                       THEN {v} \cup To(m) \cup Along(section, m) ELSE To(m)
<1>1. Fits(k, {v})
  BY FitsOne
<1>2. CASE section = "DEFAULT"
  <2>. DEFINE process == Joined("PROCESS ALARM", k, {v})
              log == Joined("LOG PARSE", k, process)
              system == Joined("SYSTEM MONIT", k, log)
  <2>1. Fits(k, process)
    BY <1>1, FitsJoined, Names
  <2>2. k = "SendTo" => process = {v} \cup To("PROCESS ALARM")
    BY DEF Joined, To
  <2>. HIDE DEF process
  <2>3. Fits(k, log)
    BY <2>1, FitsJoined, Names
  <2>4. k = "SendTo" => log = process \cup To("LOG PARSE")
    BY DEF Joined, To
  <2>. HIDE DEF log
  <2>5. Fits(k, system)
    BY <2>3, FitsJoined, Names
  <2>6. k = "SendTo" => system = log \cup To("SYSTEM MONIT")
    BY DEF Joined, To
  <2>. HIDE DEF system
  <2>7. maps' = [maps EXCEPT !["PROCESS ALARM"][k] = process, !["LOG PARSE"][k] = log,
                             !["SYSTEM MONIT"][k] = system]
    BY <1>2 DEF Store, StoredDefault, process, log, system
  <2>8. /\ FitMaps(maps')
        /\ maps'["PROCESS ALARM"][k] = process /\ maps'["LOG PARSE"][k] = log
        /\ maps'["SYSTEM MONIT"][k] = system
        /\ \A m \in Modules, j \in Keys : j # k => maps'[m][j] = maps[m][j]
    <3>1. \E a, b, c \in Modules : /\ a = "PROCESS ALARM" /\ b = "LOG PARSE" /\ c = "SYSTEM MONIT"
                                   /\ a # b /\ a # c /\ b # c
      BY Names
    <3>2. PICK a, b, c \in Modules : /\ a = "PROCESS ALARM" /\ b = "LOG PARSE" /\ c = "SYSTEM MONIT"
                                     /\ a # b /\ a # c /\ b # c
      BY <3>1
    <3>3. maps' = Entered(Entered(Entered(maps, a, k, process), b, k, log), c, k, system)
      BY <2>7, <3>2 DEF Entered
    <3>4. a # b /\ a # c /\ b # c
      BY <3>2
    <3>5. /\ FitMaps(maps')
          /\ maps'[a][k] = process /\ maps'[b][k] = log /\ maps'[c][k] = system
          /\ \A m \in Modules, j \in Keys : j # k => maps'[m][j] = maps[m][j]
      BY <2>1, <2>3, <2>5, <3>3, <3>4, ThreeStored DEF MapsOK
    <3>. QED BY <3>2, <3>5
  <2>9. MapsOK'
    BY <2>8 DEF MapsOK
  <2>10. k # "SendTo" => \A m \in Mailers : To(m)' = To(m)
    BY <2>8, Names DEF To
  <2>11. k = "SendTo" => /\ To("PROCESS ALARM")' = process /\ To("LOG PARSE")' = log
                         /\ To("SYSTEM MONIT")' = system
    BY <2>8 DEF To
  <2>. QED BY <1>2, <2>2, <2>4, <2>6, <2>9, <2>10, <2>11, Names DEF Along
<1>3. CASE section # "DEFAULT"
  <2>. DEFINE text == IF section = "ALARM EMAIL" THEN {v} ELSE Joined(section, k, {v})
  <2>1. section \in Modules
    BY <1>3 DEF Sections
  <2>2. Fits(k, text)
    BY <1>1, <2>1, FitsJoined
  <2>3. k = "SendTo" /\ section # "ALARM EMAIL" => text = {v} \cup To(section)
    BY DEF Joined, To
  <2>4. maps' = Entered(maps, section, k, text)
    BY <1>3 DEF Store, Stored, Entered
  <2>. HIDE DEF text
  <2>5. /\ FitMaps(maps')
        /\ maps'[section][k] = text
        /\ \A m \in Modules, j \in Keys : m # section \/ j # k => maps'[m][j] = maps[m][j]
    BY <2>1, <2>2, <2>4, OneStored DEF MapsOK
  <2>6. MapsOK'
    BY <2>5 DEF MapsOK
  <2>7. k # "SendTo" => \A m \in Mailers : To(m)' = To(m)
    BY <2>5, Names DEF To
  <2>8. ASSUME NEW m \in Mailers, k = "SendTo", m = section PROVE To(m)' = {v} \cup To(m)
    BY <2>3, <2>5, <2>8, Names DEF To
  <2>9. ASSUME NEW m \in Mailers, k = "SendTo", m # section PROVE To(m)' = To(m)
    BY <2>5, <2>9, Names DEF To
  <2>. QED BY <1>3, <2>6, <2>7, <2>8, <2>9 DEF Along
<1>. QED BY <1>2, <1>3

-----------------------------------------------------------------------------
(* Type correctness.                                                       *)

ReadOK ==
  /\ file \in Files \cup {<<>>}
  /\ file \in Seq(Line) /\ rest \in Seq(Line) /\ inc \in Seq(Line)
  /\ types \in Sections \cup {""}
  /\ main = "include" => types \in Sections

Settings == [account : SUBSET Hosts, sendTo : [Mailers -> SUBSET Recipients],
             sweepTime : [{"LOG PARSE", "SYSTEM MONIT"} -> Int]]
SettingsOK == inForce \in Settings /\ before \in Settings

LoadOK == main \in MainPcs /\ outcome \in {"none", "ok", "failed"} /\ loads \in 0 .. MaxLoads

TypeInv == MapsOK /\ ReadOK /\ SettingsOK /\ LoadOK

LEMMA TypeFrames ==
  /\ UNCHANGED maps /\ MapsOK => MapsOK'
  /\ ReadOK /\ UNCHANGED <<file, rest, inc, types>> /\ (main' = "include" => main = "include")
     => ReadOK'
  /\ UNCHANGED <<inForce, before>> /\ SettingsOK => SettingsOK'
  /\ UNCHANGED <<main, outcome, loads>> /\ LoadOK => LoadOK'
BY DEF MapsOK, ReadOK, SettingsOK, LoadOK

LEMMA Assumed ==
  /\ MaxLoads \in Nat \ {0} /\ Files \subseteq Seq(Line)
  /\ \A n \in DOMAIN Includes : Includes[n] \in Seq(Line)
BY ConstAssumption

LEMMA NoMapsFit == FitMaps(NoMaps)
BY DEF FitMaps, NoMaps, Fits

\* The entries that are read.
LEMMA EntryFields ==
  ASSUME NEW q \in Seq(Line), q # <<>>, Head(q).kind = "entry"
  PROVE  Head(q).key \in Keys /\ Head(q).val \in Values(Head(q).key)
<1>1. Head(q) \in Line
  BY HeadTail
<1>. QED BY <1>1, LineFields

\* What a module has of a key, kept or new, is what it may have.
LEMMA KeptOK ==
  ASSUME MapsOK, SettingsOK
  PROVE  /\ maps["ALARM EMAIL"]["Host"] \subseteq Hosts
         /\ \A m \in Mailers : To(m) \subseteq Recipients /\ KeptSendTo(m) \subseteq Recipients
         /\ \A m \in {"LOG PARSE", "SYSTEM MONIT"}, valid \in SUBSET Int :
              KeptSweepTime(m, valid) \in Int
<1>1. \A m \in Modules, k \in Keys : maps[m][k] \subseteq Values(k)
  BY DEF MapsOK, FitMaps, Fits
<1>2. maps["ALARM EMAIL"]["Host"] \subseteq Hosts
  BY <1>1, Names, KeyValues
<1>3. ASSUME NEW m \in Mailers
      PROVE  To(m) \subseteq Recipients /\ KeptSendTo(m) \subseteq Recipients
  <2>1. To(m) \subseteq Recipients
    BY <1>1, Names, KeyValues DEF To
  <2>2. inForce.sendTo[m] \subseteq Recipients
    BY DEF SettingsOK, Settings
  <2>. QED BY <2>1, <2>2 DEF KeptSendTo, To
<1>4. ASSUME NEW m \in {"LOG PARSE", "SYSTEM MONIT"}, NEW valid \in SUBSET Int
      PROVE  KeptSweepTime(m, valid) \in Int
  <2>1. inForce.sweepTime[m] \in Int
    BY DEF SettingsOK, Settings
  <2>. DEFINE times == maps[m]["SweepTime"]
  <2>2. \A x, y \in times : x = y
    <3>1. m \in Modules
      BY Names
    <3>. QED BY <3>1, Names DEF MapsOK, FitMaps, Fits
  <2>3. ASSUME times \cap valid # {} PROVE (CHOOSE t \in times : TRUE) \in Int
    <3>. HIDE DEF times
    <3>1. PICK t \in times : t \in Int
      BY <2>3
    <3>2. (CHOOSE x \in times : TRUE) \in times
      BY <3>1
    <3>3. (CHOOSE x \in times : TRUE) = t
      BY <2>2, <3>1, <3>2
    <3>. QED BY <3>1, <3>3
  <2>. QED BY <2>1, <2>3 DEF KeptSweepTime
<1>. QED BY <1>2, <1>3, <1>4

LEMMA TypeInit == Init => TypeInv
<1>. SUFFICES ASSUME Init PROVE TypeInv
  OBVIOUS
<1>1. MapsOK
  BY NoMapsFit DEF Init, MapsOK
<1>2. ReadOK
  <2>1. <<>> \in Seq(Line)
    OBVIOUS
  <2>. QED BY <2>1 DEF Init, ReadOK
<1>3. Defaults \in Settings
  BY DEF Defaults, Settings
<1>4. SettingsOK
  BY <1>3 DEF Init, SettingsOK
<1>5. LoadOK
  <2>1. MaxLoads \in Nat
    BY Assumed
  <2>2. main = "boot" /\ outcome = "none" /\ loads = 0
    BY DEF Init
  <2>. QED BY <2>1, <2>2 DEF LoadOK, MainPcs
<1>. QED BY <1>1, <1>2, <1>4, <1>5 DEF TypeInv

\* How the InitConf of each module changes what is in force.
LEMMA CentreSettings ==
  ASSUME SettingsOK, InitCentre
  PROVE  /\ inForce'.sendTo = inForce.sendTo /\ inForce'.sweepTime = inForce.sweepTime
         /\ inForce'.account = maps["ALARM EMAIL"]["Host"]
         /\ inForce' = [account |-> inForce'.account, sendTo |-> inForce'.sendTo,
                        sweepTime |-> inForce'.sweepTime]
BY DEF SettingsOK, Settings, InitCentre

LEMMA ProcessSettings ==
  ASSUME SettingsOK, InitProcess
  PROVE  /\ inForce'.sendTo = [inForce.sendTo EXCEPT !["PROCESS ALARM"] = To("PROCESS ALARM")]
         /\ inForce'.account = inForce.account /\ inForce'.sweepTime = inForce.sweepTime
         /\ inForce' = [account |-> inForce'.account, sendTo |-> inForce'.sendTo,
                        sweepTime |-> inForce'.sweepTime]
BY DEF SettingsOK, Settings, InitProcess, To

LEMMA LogSettings ==
  ASSUME SettingsOK, InitLog
  PROVE  /\ inForce'.sendTo = [inForce.sendTo EXCEPT !["LOG PARSE"] = KeptSendTo("LOG PARSE")]
         /\ inForce'.sweepTime = [inForce.sweepTime EXCEPT !["LOG PARSE"] =
                                    KeptSweepTime("LOG PARSE", Nat \ {0})]
         /\ inForce'.account = inForce.account
         /\ inForce' = [account |-> inForce'.account, sendTo |-> inForce'.sendTo,
                        sweepTime |-> inForce'.sweepTime]
BY DEF SettingsOK, Settings, InitLog

LEMMA SystemSettings ==
  ASSUME SettingsOK, InitSystem
  PROVE  /\ inForce'.sendTo = [inForce.sendTo EXCEPT !["SYSTEM MONIT"] = KeptSendTo("SYSTEM MONIT")]
         /\ inForce'.sweepTime = [inForce.sweepTime EXCEPT !["SYSTEM MONIT"] =
                                    KeptSweepTime("SYSTEM MONIT", Int)]
         /\ inForce'.account = inForce.account
         /\ inForce' = [account |-> inForce'.account, sendTo |-> inForce'.sendTo,
                        sweepTime |-> inForce'.sweepTime]
BY DEF SettingsOK, Settings, InitSystem

LEMMA SettingsFit ==
  ASSUME NEW x, x = [account |-> x.account, sendTo |-> x.sendTo, sweepTime |-> x.sweepTime],
         x.account \subseteq Hosts, x.sendTo \in [Mailers -> SUBSET Recipients],
         x.sweepTime \in [{"LOG PARSE", "SYSTEM MONIT"} -> Int]
  PROVE  x \in Settings
BY DEF Settings

LEMMA TypeStep == TypeInv /\ [Next]_vars => TypeInv'
<1>. SUFFICES ASSUME TypeInv, [Next]_vars PROVE TypeInv'
  OBVIOUS
<1>. USE DEF TypeInv, reader
<1>1. ASSUME NEW f \in Files, Load(f) PROVE TypeInv'
  <2>1. MapsOK'
    BY <1>1, NoMapsFit DEF Load, MapsOK
  <2>2. ReadOK'
    BY <1>1, Assumed DEF Load, ReadOK
  <2>3. SettingsOK'
    BY <1>1 DEF Load, SettingsOK
  <2>4. LoadOK'
    BY <1>1, Assumed DEF Load, LoadOK, MainPcs
  <2>. QED BY <2>1, <2>2, <2>3, <2>4
<1>2. CASE ReadHeader
  <2>1. MapsOK' /\ SettingsOK'
    BY <1>2, TypeFrames DEF ReadHeader
  <2>2. ReadOK'
    BY <1>2, HeadTail DEF ReadHeader, ReadOK, Reading, ReadingIncluded
  <2>3. LoadOK'
    BY <1>2 DEF ReadHeader, LoadOK, MainPcs, Fail, Reading, ReadingIncluded
  <2>. QED BY <2>1, <2>2, <2>3
<1>3. CASE SkipLine
  <2>1. MapsOK' /\ SettingsOK'
    BY <1>3, TypeFrames DEF SkipLine
  <2>2. ReadOK'
    BY <1>3, HeadTail DEF SkipLine, ReadOK, Reading, ReadingIncluded
  <2>3. LoadOK'
    BY <1>3 DEF SkipLine, LoadOK, MainPcs, Fail, Reading, ReadingIncluded
  <2>. QED BY <2>1, <2>2, <2>3
<1>4. CASE ReadEntry
  <2>1. SettingsOK'
    BY <1>4, TypeFrames DEF ReadEntry
  <2>2. MapsOK'
    <3>1. rest # <<>> /\ Head(rest).kind = "entry" /\ rest \in Seq(Line) /\ moduleName \in Sections
      BY <1>4 DEF ReadEntry, ReadOK, Reading, ReadingIncluded
    <3>2. Head(rest).key \in Keys /\ Head(rest).val \in Values(Head(rest).key)
      BY <3>1, EntryFields
    <3>3. Store(moduleName, Head(rest).key, Head(rest).val)
      BY <1>4 DEF ReadEntry
    <3>. QED BY <3>1, <3>2, <3>3, StoredValues
  <2>3. ReadOK'
    BY <1>4, HeadTail DEF ReadEntry, ReadOK, Reading, ReadingIncluded
  <2>4. LoadOK'
    BY <1>4 DEF ReadEntry, LoadOK, MainPcs, Fail, Reading, ReadingIncluded
  <2>. QED BY <2>1, <2>2, <2>3, <2>4
<1>5. CASE ReadInclude
  <2>1. MapsOK' /\ SettingsOK'
    BY <1>5, TypeFrames DEF ReadInclude
  <2>2. ReadOK'
    <3>1. rest' \in Seq(Line) /\ types' \in Sections /\ UNCHANGED file
      BY <1>5, HeadTail DEF ReadInclude, ReadOK, Reading
    <3>2. inc' \in Seq(Line)
      <4>1. CASE Head(rest).name \in DOMAIN Includes
        BY <1>5, <4>1, Assumed DEF ReadInclude
      <4>2. CASE Head(rest).name \notin DOMAIN Includes
        BY <1>5, <4>2 DEF ReadInclude, ReadOK
      <4>. QED BY <4>1, <4>2
    <3>. QED BY <3>1, <3>2 DEF ReadOK
  <2>3. LoadOK'
    BY <1>5 DEF ReadInclude, LoadOK, MainPcs, Fail, Reading, ReadingIncluded
  <2>. QED BY <2>1, <2>2, <2>3
<1>6. CASE Refuse
  <2>1. MapsOK' /\ ReadOK' /\ SettingsOK'
    BY <1>6, TypeFrames DEF Refuse, Reading, ReadingIncluded, Fail
  <2>2. LoadOK'
    BY <1>6 DEF Refuse, LoadOK, MainPcs, Fail, Reading, ReadingIncluded
  <2>. QED BY <2>1, <2>2
<1>7. CASE ReadEnd
  <2>1. MapsOK' /\ ReadOK' /\ SettingsOK'
    BY <1>7, TypeFrames DEF ReadEnd, Reading, ReadingIncluded, Fail
  <2>2. LoadOK'
    BY <1>7 DEF ReadEnd, LoadOK, MainPcs, Fail, Reading, ReadingIncluded
  <2>. QED BY <2>1, <2>2
<1>8. CASE IncludedHeader
  <2>1. MapsOK' /\ SettingsOK'
    BY <1>8, TypeFrames DEF IncludedHeader
  <2>2. ReadOK'
    BY <1>8, HeadTail DEF IncludedHeader, ReadOK, Reading, ReadingIncluded
  <2>3. LoadOK'
    BY <1>8 DEF IncludedHeader, LoadOK, MainPcs, Fail, Reading, ReadingIncluded
  <2>. QED BY <2>1, <2>2, <2>3
<1>9. CASE IncludedEntry
  <2>1. SettingsOK'
    BY <1>9, TypeFrames DEF IncludedEntry
  <2>2. MapsOK'
    <3>1. inc # <<>> /\ Head(inc).kind = "entry" /\ inc \in Seq(Line) /\ types \in Sections
      BY <1>9 DEF IncludedEntry, ReadOK, Reading, ReadingIncluded
    <3>2. Head(inc).key \in Keys /\ Head(inc).val \in Values(Head(inc).key)
      BY <3>1, EntryFields
    <3>3. Store(types, Head(inc).key, Head(inc).val)
      BY <1>9 DEF IncludedEntry
    <3>. QED BY <3>1, <3>2, <3>3, StoredValues
  <2>3. ReadOK'
    BY <1>9, HeadTail DEF IncludedEntry, ReadOK, Reading, ReadingIncluded
  <2>4. LoadOK'
    BY <1>9 DEF IncludedEntry, LoadOK, MainPcs, Fail, Reading, ReadingIncluded
  <2>. QED BY <2>1, <2>2, <2>3, <2>4
<1>10. CASE IncludedEnd
  <2>1. MapsOK' /\ ReadOK' /\ SettingsOK'
    BY <1>10, TypeFrames DEF IncludedEnd, Reading, ReadingIncluded, Fail
  <2>2. LoadOK'
    BY <1>10 DEF IncludedEnd, LoadOK, MainPcs, Fail, Reading, ReadingIncluded
  <2>. QED BY <2>1, <2>2
<1>11. CASE InitCentre
  <2>1. MapsOK' /\ ReadOK'
    BY <1>11, TypeFrames DEF InitCentre, Reading, ReadingIncluded, Fail
  <2>2. SettingsOK'
    <3>1. /\ inForce.account \subseteq Hosts /\ inForce.sendTo \in [Mailers -> SUBSET Recipients]
          /\ inForce.sweepTime \in [{"LOG PARSE", "SYSTEM MONIT"} -> Int] /\ before \in Settings
      BY DEF SettingsOK, Settings
    <3>2. /\ inForce'.account \subseteq Hosts /\ inForce'.sendTo \in [Mailers -> SUBSET Recipients]
          /\ inForce'.sweepTime \in [{"LOG PARSE", "SYSTEM MONIT"} -> Int]
      <4>1. inForce'.account \subseteq Hosts
        BY <1>11, <3>1, KeptOK, CentreSettings
      <4>2. inForce'.sendTo \in [Mailers -> SUBSET Recipients]
        BY <1>11, <3>1, KeptOK, CentreSettings, Names
      <4>3. inForce'.sweepTime \in [{"LOG PARSE", "SYSTEM MONIT"} -> Int]
        BY <1>11, <3>1, CentreSettings
      <4>. QED BY <4>1, <4>2, <4>3
    <3>3. inForce' \in Settings
      BY <1>11, <3>2, SettingsFit, CentreSettings
    <3>4. before' = before
      BY <1>11 DEF InitCentre
    <3>. QED BY <3>1, <3>3, <3>4 DEF SettingsOK
  <2>3. LoadOK'
    BY <1>11 DEF InitCentre, LoadOK, MainPcs, Fail, Reading, ReadingIncluded
  <2>. QED BY <2>1, <2>2, <2>3
<1>12. CASE InitProcess
  <2>1. MapsOK' /\ ReadOK'
    BY <1>12, TypeFrames DEF InitProcess, Reading, ReadingIncluded, Fail
  <2>2. SettingsOK'
    <3>1. /\ inForce.account \subseteq Hosts /\ inForce.sendTo \in [Mailers -> SUBSET Recipients]
          /\ inForce.sweepTime \in [{"LOG PARSE", "SYSTEM MONIT"} -> Int] /\ before \in Settings
      BY DEF SettingsOK, Settings
    <3>2. /\ inForce'.account \subseteq Hosts /\ inForce'.sendTo \in [Mailers -> SUBSET Recipients]
          /\ inForce'.sweepTime \in [{"LOG PARSE", "SYSTEM MONIT"} -> Int]
      <4>1. inForce'.account \subseteq Hosts
        BY <1>12, <3>1, KeptOK, ProcessSettings
      <4>2. inForce'.sendTo \in [Mailers -> SUBSET Recipients]
        BY <1>12, <3>1, KeptOK, ProcessSettings, Names
      <4>3. inForce'.sweepTime \in [{"LOG PARSE", "SYSTEM MONIT"} -> Int]
        BY <1>12, <3>1, ProcessSettings
      <4>. QED BY <4>1, <4>2, <4>3
    <3>3. inForce' \in Settings
      BY <1>12, <3>2, SettingsFit, ProcessSettings
    <3>4. before' = before
      BY <1>12 DEF InitProcess
    <3>. QED BY <3>1, <3>3, <3>4 DEF SettingsOK
  <2>3. LoadOK'
    BY <1>12 DEF InitProcess, LoadOK, MainPcs, Fail, Reading, ReadingIncluded
  <2>. QED BY <2>1, <2>2, <2>3
<1>13. CASE InitLog
  <2>1. MapsOK' /\ ReadOK'
    BY <1>13, TypeFrames DEF InitLog, Reading, ReadingIncluded, Fail
  <2>2. SettingsOK'
    <3>1. /\ inForce.account \subseteq Hosts /\ inForce.sendTo \in [Mailers -> SUBSET Recipients]
          /\ inForce.sweepTime \in [{"LOG PARSE", "SYSTEM MONIT"} -> Int] /\ before \in Settings
      BY DEF SettingsOK, Settings
    <3>2. /\ inForce'.account \subseteq Hosts /\ inForce'.sendTo \in [Mailers -> SUBSET Recipients]
          /\ inForce'.sweepTime \in [{"LOG PARSE", "SYSTEM MONIT"} -> Int]
      <4>1. inForce'.account \subseteq Hosts
        BY <1>13, <3>1, KeptOK, LogSettings
      <4>2. inForce'.sendTo \in [Mailers -> SUBSET Recipients]
        BY <1>13, <3>1, KeptOK, LogSettings, Names
      <4>3. inForce'.sweepTime \in [{"LOG PARSE", "SYSTEM MONIT"} -> Int]
        <5>1. KeptSweepTime("LOG PARSE", Nat \ {0}) \in Int
          <6>1. Nat \ {0} \in SUBSET Int
            OBVIOUS
          <6>. QED BY <6>1, KeptOK
        <5>2. inForce'.sweepTime = [inForce.sweepTime EXCEPT !["LOG PARSE"] =
                                      KeptSweepTime("LOG PARSE", Nat \ {0})]
          BY <1>13, LogSettings
        <5>. QED BY <3>1, <5>1, <5>2
      <4>. QED BY <4>1, <4>2, <4>3
    <3>3. inForce' \in Settings
      BY <1>13, <3>2, SettingsFit, LogSettings
    <3>4. before' = before
      BY <1>13 DEF InitLog
    <3>. QED BY <3>1, <3>3, <3>4 DEF SettingsOK
  <2>3. LoadOK'
    BY <1>13 DEF InitLog, LoadOK, MainPcs, Fail, Reading, ReadingIncluded
  <2>. QED BY <2>1, <2>2, <2>3
<1>14. CASE InitSystem
  <2>1. MapsOK' /\ ReadOK'
    BY <1>14, TypeFrames DEF InitSystem, Reading, ReadingIncluded, Fail
  <2>2. SettingsOK'
    <3>1. /\ inForce.account \subseteq Hosts /\ inForce.sendTo \in [Mailers -> SUBSET Recipients]
          /\ inForce.sweepTime \in [{"LOG PARSE", "SYSTEM MONIT"} -> Int] /\ before \in Settings
      BY DEF SettingsOK, Settings
    <3>2. /\ inForce'.account \subseteq Hosts /\ inForce'.sendTo \in [Mailers -> SUBSET Recipients]
          /\ inForce'.sweepTime \in [{"LOG PARSE", "SYSTEM MONIT"} -> Int]
      <4>1. inForce'.account \subseteq Hosts
        BY <1>14, <3>1, KeptOK, SystemSettings
      <4>2. inForce'.sendTo \in [Mailers -> SUBSET Recipients]
        BY <1>14, <3>1, KeptOK, SystemSettings, Names
      <4>3. inForce'.sweepTime \in [{"LOG PARSE", "SYSTEM MONIT"} -> Int]
        <5>1. KeptSweepTime("SYSTEM MONIT", Int) \in Int
          <6>1. Int \in SUBSET Int
            OBVIOUS
          <6>. QED BY <6>1, KeptOK
        <5>2. inForce'.sweepTime = [inForce.sweepTime EXCEPT !["SYSTEM MONIT"] =
                                      KeptSweepTime("SYSTEM MONIT", Int)]
          BY <1>14, SystemSettings
        <5>. QED BY <3>1, <5>1, <5>2
      <4>. QED BY <4>1, <4>2, <4>3
    <3>3. inForce' \in Settings
      BY <1>14, <3>2, SettingsFit, SystemSettings
    <3>4. before' = before
      BY <1>14 DEF InitSystem
    <3>. QED BY <3>1, <3>3, <3>4 DEF SettingsOK
  <2>3. LoadOK'
    BY <1>14 DEF InitSystem, LoadOK, MainPcs, Fail, Reading, ReadingIncluded
  <2>. QED BY <2>1, <2>2, <2>3
<1>15. CASE UNCHANGED vars
  BY <1>15, TypeFrames DEF vars
<1>. QED
  BY <1>1, <1>2, <1>3, <1>4, <1>5, <1>6, <1>7, <1>8, <1>9, <1>10, <1>11, <1>12, <1>13, <1>14,
     <1>15
  DEF Next, ReadStep, InitConfStep

\* Every load leaves each module with recipients that are recipients and a
\* sweep time that is a number, although SweepTime may say anything.
THEOREM TypeCorrect == Spec => []TypeOK
<1>1. TypeInv => TypeOK
  BY DEF TypeInv, TypeOK, MapsOK, FitMaps, AllValues, ReadOK, SettingsOK, Settings, LoadOK
<1>. QED BY <1>1, TypeInit, TypeStep, PTL DEF Spec

-----------------------------------------------------------------------------
(* Where the reader is.                                                    *)

\* Lines of the file that have been read.
Done == Len(file) - Len(rest)

\* The rest of a file is its end, and nothing is left of one that is in force.
PlaceInv ==
  /\ Len(rest) <= Len(file)
  /\ \A i \in 1 .. Len(rest) : rest[i] = file[Done + i]
  /\ main \in {"centre", "process", "log", "system"} \/ Loaded => rest = <<>>

LEMMA PlaceDone ==
  ASSUME ReadOK, PlaceInv
  PROVE  /\ Done \in 0 .. Len(file) /\ Len(file) \in Nat /\ DOMAIN file = 1 .. Len(file)
         /\ rest = <<>> => Done = Len(file)
<1>1. rest \in Seq(Line) /\ file \in Seq(Line)
  BY DEF ReadOK
<1>2. Len(rest) \in Nat /\ Len(file) \in Nat /\ DOMAIN file = 1 .. Len(file)
  BY <1>1
<1>3. rest = <<>> => Len(rest) = 0
  BY <1>1
<1>4. Len(rest) <= Len(file)
  BY DEF PlaceInv
<1>5. Done \in 0 .. Len(file) /\ (Len(rest) = 0 => Done = Len(file))
  <2>1. \A x, y \in Nat : x <= y => y - x \in 0 .. y /\ (x = 0 => y - x = y)
    OBVIOUS
  <2>. QED BY <1>2, <1>4, <2>1 DEF Done
<1>. QED BY <1>2, <1>3, <1>5

LEMMA ReadsLine ==
  ASSUME ReadOK, PlaceInv, rest # <<>>, rest' = Tail(rest), file' = file
  PROVE  /\ Done' = Done + 1 /\ Done \in Nat /\ Done' \in 1 .. Len(file)
         /\ Head(rest) = file[Done']
         /\ Len(rest') <= Len(file')
         /\ \A i \in 1 .. Len(rest') : rest'[i] = file'[Done' + i]
<1>1. rest \in Seq(Line) /\ file \in Seq(Line) /\ Len(file) \in Nat
  <2>1. rest \in Seq(Line) /\ file \in Seq(Line)
    BY DEF ReadOK
  <2>. QED BY <2>1
<1>2. /\ Head(rest) = rest[1] /\ Len(rest) \in Nat \ {0} /\ Len(rest') = Len(rest) - 1
      /\ \A i \in 1 .. Len(rest) - 1 : rest'[i] = rest[i + 1]
  BY <1>1, HeadTail
<1>3. Done' = Done + 1 /\ Done \in Nat /\ Done' \in 1 .. Len(file)
  BY <1>1, <1>2 DEF Done, PlaceInv
<1>4. Head(rest) = file[Done']
  BY <1>2, <1>3 DEF PlaceInv
<1>5. ASSUME NEW i \in 1 .. Len(rest') PROVE rest'[i] = file'[Done' + i]
  <2>1. i \in 1 .. Len(rest) - 1 /\ i + 1 \in 1 .. Len(rest)
    BY <1>2
  <2>2. rest'[i] = rest[i + 1]
    BY <1>2, <2>1
  <2>3. rest[i + 1] = file[Done + (i + 1)]
    BY <2>1 DEF PlaceInv
  <2>4. Done + (i + 1) = Done' + i
    BY <1>3, <2>1
  <2>. QED BY <2>2, <2>3, <2>4
<1>. QED BY <1>1, <1>2, <1>3, <1>4, <1>5 DEF PlaceInv

LEMMA PlaceFrame ==
  /\ PlaceInv /\ UNCHANGED <<file, rest>>
  /\ main' \in {"centre", "process", "log", "system"} \/ Loaded' => rest' = <<>>
  => PlaceInv'
BY DEF PlaceInv, Done

LEMMA PlaceStep == TypeInv /\ PlaceInv /\ [Next]_vars => PlaceInv'
<1>. SUFFICES ASSUME TypeInv, PlaceInv, [Next]_vars PROVE PlaceInv'
  OBVIOUS
<1>. USE DEF TypeInv, reader
<1>1. ASSUME NEW f \in Files, Load(f) PROVE PlaceInv'
  <2>1. Len(file') \in Nat /\ rest' = file' /\ Done' = 0
    BY <1>1, Assumed DEF Load, Done
  <2>2. main' = "read"
    BY <1>1 DEF Load
  <2>. QED BY <2>1, <2>2 DEF PlaceInv, Loaded
<1>2. CASE ReadHeader
  <2>1. rest # <<>> /\ rest' = Tail(rest) /\ file' = file /\ main' = "read"
    BY <1>2 DEF ReadHeader, Reading
  <2>. QED BY <2>1, ReadsLine DEF PlaceInv, Loaded
<1>3. CASE SkipLine
  <2>1. rest # <<>> /\ rest' = Tail(rest) /\ file' = file /\ main' = "read"
    BY <1>3 DEF SkipLine, Reading
  <2>. QED BY <2>1, ReadsLine DEF PlaceInv, Loaded
<1>4. CASE ReadEntry
  <2>1. rest # <<>> /\ rest' = Tail(rest) /\ file' = file /\ main' = "read"
    BY <1>4 DEF ReadEntry, Reading
  <2>. QED BY <2>1, ReadsLine DEF PlaceInv, Loaded
<1>5. CASE ReadInclude
  <2>1. rest # <<>> /\ rest' = Tail(rest) /\ file' = file /\ main' \in {"read", "include"}
    BY <1>5 DEF ReadInclude, Reading
  <2>. QED BY <2>1, ReadsLine DEF PlaceInv, Loaded
<1>6. CASE Refuse
  <2>1. main' \in {"exited", "idle"} /\ outcome' = "failed" /\ UNCHANGED <<file, rest>>
    BY <1>6 DEF Refuse, Fail
  <2>. QED BY <2>1, PlaceFrame DEF Loaded
<1>7. CASE ReadEnd
  <2>1. rest' = <<>> /\ UNCHANGED <<file, rest>>
    BY <1>7 DEF ReadEnd
  <2>. QED BY <2>1, PlaceFrame DEF Loaded
<1>8. CASE IncludedHeader
  <2>1. main' \in {"read", "include"} /\ UNCHANGED <<file, rest>>
    BY <1>8 DEF IncludedHeader, ReadingIncluded
  <2>. QED BY <2>1, PlaceFrame DEF Loaded
<1>9. CASE IncludedEntry
  <2>1. main' \in {"read", "include"} /\ UNCHANGED <<file, rest>>
    BY <1>9 DEF IncludedEntry, ReadingIncluded
  <2>. QED BY <2>1, PlaceFrame DEF Loaded
<1>10. CASE IncludedEnd
  <2>1. main' \in {"read", "include"} /\ UNCHANGED <<file, rest>>
    BY <1>10 DEF IncludedEnd, ReadingIncluded
  <2>. QED BY <2>1, PlaceFrame DEF Loaded
<1>11. CASE InitCentre
  <2>1. rest = <<>> /\ UNCHANGED <<file, rest>>
    BY <1>11 DEF InitCentre, PlaceInv
  <2>. QED BY <2>1, PlaceFrame
<1>12. CASE InitProcess
  <2>1. rest = <<>> /\ UNCHANGED <<file, rest>>
    BY <1>12 DEF InitProcess, PlaceInv
  <2>. QED BY <2>1, PlaceFrame
<1>13. CASE InitLog
  <2>1. rest = <<>> /\ UNCHANGED <<file, rest>>
    BY <1>13 DEF InitLog, PlaceInv
  <2>. QED BY <2>1, PlaceFrame
<1>14. CASE InitSystem
  <2>1. rest = <<>> /\ UNCHANGED <<file, rest>>
    BY <1>14 DEF InitSystem, PlaceInv
  <2>. QED BY <2>1, PlaceFrame
<1>15. CASE UNCHANGED vars
  BY <1>15, PlaceFrame DEF vars, PlaceInv, Loaded
<1>. QED
  BY <1>1, <1>2, <1>3, <1>4, <1>5, <1>6, <1>7, <1>8, <1>9, <1>10, <1>11, <1>12, <1>13, <1>14,
     <1>15
  DEF Next, ReadStep, InitConfStep

-----------------------------------------------------------------------------
(* Sections.                                                               *)

\* Line h is the last header among the first i lines.
LastHeader(f, h, i) ==
  h \in 1 .. i /\ Header(f, h) /\ \A j \in h + 1 .. i : ~Header(f, j)

LEMMA SectionIs ==
  ASSUME NEW f, NEW i \in Nat, NEW h \in 1 .. i, LastHeader(f, h, i)
  PROVE  SectionOf(f, i) = f[h].name
<1>. DEFINE P(g) == Header(f, g) /\ \A j \in g + 1 .. i : ~Header(f, j)
            c == CHOOSE g \in 1 .. i : P(g)
<1>1. P(h)
  BY DEF LastHeader
<1>2. c \in 1 .. i /\ P(c)
  BY <1>1
<1>3. \A g \in 1 .. i : P(g) => g = h
  BY <1>1
<1>4. c = h
  BY <1>2, <1>3
<1>. QED BY <1>4 DEF SectionOf

LEMMA NewHeader ==
  ASSUME NEW f, NEW i \in Nat, i > 0, Header(f, i)
  PROVE  i \in 1 .. i /\ LastHeader(f, i, i)
BY DEF LastHeader

LEMMA LastHeaderStays ==
  ASSUME NEW f, NEW i \in Nat, NEW h \in 1 .. i, LastHeader(f, h, i), ~Header(f, i + 1)
  PROVE  h \in 1 .. i + 1 /\ LastHeader(f, h, i + 1)
BY DEF LastHeader

\* moduleName is the section of the line that was read last; an included file
\* counts for the section that names it, and gives what the include gives.
SectionInv ==
  Sectioned(file) =>
    /\ main \in {"read", "include"} /\ Done > 0 =>
         \E h \in 1 .. Done : LastHeader(file, h, Done) /\ moduleName = file[h].name
    /\ main = "include" =>
         /\ Done > 0 /\ ~Header(file, Done) /\ types = moduleName
         /\ \A j \in 1 .. Len(inc) :
              /\ inc[j].kind # "section"
              /\ inc[j].kind = "entry" /\ inc[j].key = "SendTo" =>
                   inc[j].val \in ValuesAt(file, Done, "SendTo")

LEMMA ModuleIsSection ==
  ASSUME Sectioned(file), SectionInv, main \in {"read", "include"}, Done \in Nat, Done > 0
  PROVE  SectionOf(file, Done) = moduleName
BY SectionIs DEF SectionInv

\* A line that is no header is in the section of the line before it.
LEMMA SectionStays ==
  ASSUME ReadOK, PlaceInv, SectionInv, Sectioned(file), main = "read", rest # <<>>,
         Head(rest).kind # "section", rest' = Tail(rest), file' = file
  PROVE  /\ ~Header(file, Done')
         /\ \E h \in 1 .. Done' : LastHeader(file, h, Done') /\ moduleName = file[h].name
<1>1. Done' = Done + 1 /\ Done \in Nat /\ Head(rest) = file[Done']
  BY ReadsLine
<1>2. ~Header(file, Done')
  BY <1>1 DEF Header
<1>3. Done > 0
  BY <1>1, <1>2 DEF Sectioned
<1>4. PICK h \in 1 .. Done : LastHeader(file, h, Done) /\ moduleName = file[h].name
  BY <1>3 DEF SectionInv
<1>5. h \in 1 .. Done' /\ LastHeader(file, h, Done')
  BY <1>1, <1>2, <1>4, LastHeaderStays
<1>. QED BY <1>2, <1>4, <1>5

LEMMA SectionStep == TypeInv /\ PlaceInv /\ SectionInv /\ [Next]_vars => SectionInv'
<1>. SUFFICES ASSUME TypeInv, PlaceInv, SectionInv, [Next]_vars, Sectioned(file)' PROVE SectionInv'
  BY DEF SectionInv
<1>. USE DEF TypeInv, reader
<1>1. ASSUME NEW f \in Files, Load(f) PROVE SectionInv'
  <2>1. main' = "read" /\ Done' = 0
    BY <1>1, Assumed DEF Load, Done
  <2>. QED BY <2>1 DEF SectionInv
<1>2. CASE ReadHeader
  <2>1. /\ main = "read" /\ main' = "read" /\ rest # <<>> /\ rest' = Tail(rest) /\ file' = file
        /\ Head(rest).kind = "section" /\ moduleName' = Head(rest).name
    BY <1>2 DEF ReadHeader, Reading
  <2>2. Done' \in Nat /\ Done' > 0 /\ Head(rest) = file'[Done']
    BY <2>1, ReadsLine
  <2>3. Done' \in 1 .. Done' /\ LastHeader(file', Done', Done')
    <3>1. Header(file', Done')
      BY <2>1, <2>2 DEF Header
    <3>. QED BY <2>2, <3>1, NewHeader
  <2>. QED BY <2>1, <2>2, <2>3 DEF SectionInv
<1>3. CASE SkipLine
  <2>1. /\ main = "read" /\ main' = "read" /\ rest # <<>> /\ rest' = Tail(rest) /\ file' = file
        /\ Head(rest).kind # "section" /\ moduleName' = moduleName
    BY <1>3 DEF SkipLine, Reading
  <2>. QED BY <2>1, SectionStays DEF SectionInv
<1>4. CASE ReadEntry
  <2>1. /\ main = "read" /\ main' = "read" /\ rest # <<>> /\ rest' = Tail(rest) /\ file' = file
        /\ Head(rest).kind # "section" /\ moduleName' = moduleName
    BY <1>4 DEF ReadEntry, Reading
  <2>. QED BY <2>1, SectionStays DEF SectionInv
<1>5. CASE ReadInclude
  <2>1. /\ main = "read" /\ rest # <<>> /\ rest' = Tail(rest) /\ file' = file
        /\ Head(rest).kind = "include" /\ moduleName' = moduleName /\ types' = moduleName
    BY <1>5 DEF ReadInclude, Reading
  <2>2. /\ ~Header(file, Done')
        /\ \E h \in 1 .. Done' : LastHeader(file, h, Done') /\ moduleName = file[h].name
    BY <2>1, SectionStays
  <2>3. Done' \in 1 .. Len(file) /\ Head(rest) = file[Done'] /\ Len(file) \in Nat
    BY <2>1, ReadsLine, PlaceDone
  <2>. DEFINE n == Head(rest).name
  <2>4. CASE n \in DOMAIN Includes
    <3>1. inc' = Includes[n] /\ Includes[n] \in Seq(Line)
      BY <1>5, <2>4, Assumed DEF ReadInclude
    <3>2. ASSUME NEW j \in 1 .. Len(inc')
          PROVE  /\ inc'[j].kind # "section"
                 /\ inc'[j].kind = "entry" /\ inc'[j].key = "SendTo" =>
                      inc'[j].val \in ValuesAt(file, Done', "SendTo")
      <4>1. j \in DOMAIN Includes[n] /\ inc'[j] = Includes[n][j]
        BY <3>1, <3>2
      <4>2. inc'[j].kind # "section"
        BY <2>1, <2>3, <2>4, <4>1, PlaceDone DEF Sectioned
      <4>3. ValuesAt(file, Done', "SendTo") =
              {Includes[n][i].val :
                 i \in {l \in DOMAIN Includes[n] : /\ Includes[n][l].kind = "entry"
                                                   /\ Includes[n][l].key = "SendTo"}}
        BY <2>1, <2>3, <2>4 DEF ValuesAt
      <4>. QED BY <4>1, <4>2, <4>3
    <3>. QED BY <2>1, <2>2, <2>3, <3>2 DEF SectionInv
  <2>5. CASE n \notin DOMAIN Includes
    <3>1. main' = "read"
      BY <1>5, <2>1, <2>5 DEF ReadInclude
    <3>. QED BY <2>1, <2>2, <3>1 DEF SectionInv
  <2>. QED BY <2>4, <2>5
<1>6. CASE Refuse
  <2>1. main' \notin {"read", "include"}
    BY <1>6 DEF Refuse, Fail
  <2>. QED BY <2>1 DEF SectionInv
<1>7. CASE ReadEnd
  <2>1. main' \notin {"read", "include"}
    BY <1>7 DEF ReadEnd
  <2>. QED BY <2>1 DEF SectionInv
<1>8. CASE IncludedHeader
  <2>1. /\ main = "include" /\ inc # <<>> /\ Head(inc).kind = "section" /\ inc \in Seq(Line)
        /\ file' = file
    BY <1>8 DEF IncludedHeader, ReadingIncluded, ReadOK
  <2>2. Head(inc) = inc[1] /\ 1 \in 1 .. Len(inc)
    BY <2>1, HeadTail
  <2>. QED BY <2>1, <2>2 DEF SectionInv
<1>9. CASE IncludedEntry
  <2>1. /\ main = "include" /\ inc # <<>> /\ inc' = Tail(inc) /\ inc \in Seq(Line)
        /\ UNCHANGED <<main, moduleName, file, rest, types>>
    BY <1>9 DEF IncludedEntry, ReadingIncluded, ReadOK
  <2>2. /\ Len(inc) \in Nat /\ Len(inc') = Len(inc) - 1
        /\ \A i \in 1 .. Len(inc) - 1 : inc'[i] = inc[i + 1]
    BY <2>1, HeadTail
  <2>3. Done' = Done
    BY <2>1 DEF Done
  <2>4. ASSUME NEW j \in 1 .. Len(inc')
        PROVE  j + 1 \in 1 .. Len(inc) /\ inc'[j] = inc[j + 1]
    BY <2>2
  <2>. QED BY <2>1, <2>3, <2>4 DEF SectionInv
<1>10. CASE IncludedEnd
  <2>1. /\ main = "include" /\ main' = "read" /\ UNCHANGED <<moduleName, file, rest, types, inc>>
    BY <1>10 DEF IncludedEnd
  <2>2. Done' = Done
    BY <2>1 DEF Done
  <2>. QED BY <2>1, <2>2 DEF SectionInv
<1>11. CASE InitCentre
  <2>1. main' \notin {"read", "include"}
    BY <1>11 DEF InitCentre
  <2>. QED BY <2>1 DEF SectionInv
<1>12. CASE InitProcess
  <2>1. main' \notin {"read", "include"}
    BY <1>12 DEF InitProcess
  <2>. QED BY <2>1 DEF SectionInv
<1>13. CASE InitLog
  <2>1. main' \notin {"read", "include"}
    BY <1>13 DEF InitLog
  <2>. QED BY <2>1 DEF SectionInv
<1>14. CASE InitSystem
  <2>1. main' \notin {"read", "include"}
    BY <1>14 DEF InitSystem
  <2>. QED BY <2>1 DEF SectionInv
<1>15. CASE UNCHANGED vars
  <2>1. UNCHANGED <<main, moduleName, file, rest, types, inc>> /\ Done' = Done
    BY <1>15 DEF vars, Done
  <2>. QED BY <2>1 DEF SectionInv
<1>. QED
  BY <1>1, <1>2, <1>3, <1>4, <1>5, <1>6, <1>7, <1>8, <1>9, <1>10, <1>11, <1>12, <1>13, <1>14,
     <1>15
  DEF Next, ReadStep, InitConfStep

-----------------------------------------------------------------------------
(* Recipients.                                                             *)

\* Line i of f counts for module m.
Counts(f, i, m) == ~Header(f, i) /\ SectionOf(f, i) \in {"DEFAULT", m}

\* Recipient w of module m comes from the first d lines.
From(m, d, w) ==
  \E i \in 1 .. d : Counts(file, i, m) /\ w \in ValuesAt(file, i, "SendTo")

\* The recipients that are still to come from the included file.
Pending ==
  IF main = "include"
  THEN {inc[j].val : j \in {n \in 1 .. Len(inc) : inc[n].kind = "entry" /\ inc[n].key = "SendTo"}}
  ELSE {}

\* What has been read is in the maps, up to the lines of an open include.
KnownInv ==
  Sectioned(file) => \A m \in Mailers, i \in 1 .. Done : Counts(file, i, m) =>
    ValuesAt(file, i, "SendTo") \subseteq To(m) \cup (IF i = Done THEN Pending ELSE {})

\* Nothing else is, if recipients of all modules come first.
OnlyInv ==
  Sectioned(file) /\ DefaultFirst(file) =>
    \A m \in Mailers : \A w \in To(m) : From(m, Done, w)

LEMMA Between ==
  ASSUME NEW n \in Nat, NEW d \in 1 .. n, NEW i \in 1 .. d
  PROVE  i \in 1 .. n /\ ~(d < i)
OBVIOUS

\* An entry of line d keeps it that way: it passes on what the process and the
\* log monitor have, which is by then nothing but recipients of all modules.
LEMMA StoredOnly ==
  ASSUME MapsOK, DefaultFirst(file), NEW d \in 1 .. Len(file), DOMAIN file = 1 .. Len(file),
         Len(file) \in Nat, ~Header(file, d), NEW section \in Sections,
         SectionOf(file, d) = section,
         NEW k \in Keys, NEW v \in Values(k), Store(section, k, v),
         k = "SendTo" => v \in ValuesAt(file, d, "SendTo"),
         \A m \in Mailers : \A w \in To(m) : From(m, d, w)
  PROVE  \A m \in Mailers : \A w \in To(m)' : From(m, d, w)
<1>1. CASE k # "SendTo"
  <2>1. \A m \in Mailers : To(m)' = To(m)
    BY <1>1, StoredValues
  <2>. QED BY <2>1
<1>2. CASE k = "SendTo"
  <2>1. \A m \in Mailers :
          To(m)' = IF section \in {"DEFAULT", m}
                   THEN {v} \cup To(m) \cup Along(section, m) ELSE To(m)
    BY <1>2, StoredValues
  <2>2. ASSUME NEW n \in {"PROCESS ALARM", "LOG PARSE"}, NEW m \in Mailers, NEW w \in To(n),
               section = "DEFAULT"
        PROVE  From(m, d, w)
    <3>1. PICK i \in 1 .. d : Counts(file, i, n) /\ w \in ValuesAt(file, i, "SendTo")
      BY Names DEF From
    <3>2. i \in DOMAIN file /\ d \in DOMAIN file /\ ~(d < i)
      <4>1. i \in 1 .. d /\ d \in 1 .. Len(file) /\ Len(file) \in Nat
        OBVIOUS
      <4>2. i \in 1 .. Len(file) /\ ~(d < i)
        BY <4>1, Between
      <4>. QED BY <4>2
    <3>3. SectionOf(file, i) # n
      <4>1. ValuesAt(file, d, "SendTo") # {} /\ ValuesAt(file, i, "SendTo") # {}
        BY <1>2, <3>1
      <4>. QED BY <2>2, <3>1, <3>2, <4>1 DEF DefaultFirst, Counts
    <3>4. Counts(file, i, m)
      BY <3>1, <3>3 DEF Counts
    <3>. QED BY <3>1, <3>4 DEF From
  <2>3. ASSUME NEW m \in Mailers, NEW w \in Along(section, m)
        PROVE  From(m, d, w)
    <3>1. section = "DEFAULT" /\ (w \in To("PROCESS ALARM") \/ w \in To("LOG PARSE"))
      BY <2>3 DEF Along
    <3>. QED BY <2>2, <3>1
  <2>4. ASSUME NEW m \in Mailers, section \in {"DEFAULT", m} PROVE From(m, d, v)
    <3>1. Counts(file, d, m)
      BY <2>4 DEF Counts
    <3>2. d \in 1 .. d
      OBVIOUS
    <3>. QED BY <1>2, <3>1, <3>2 DEF From
  <2>. QED BY <2>1, <2>3, <2>4
<1>. QED BY <1>1, <1>2

\* What an entry adds, and that it takes nothing away.
LEMMA StoredKnown ==
  ASSUME MapsOK, NEW section \in Sections, NEW k \in Keys, NEW v \in Values(k),
         Store(section, k, v)
  PROVE  \A m \in Mailers :
           /\ To(m) \subseteq To(m)'
           /\ k = "SendTo" /\ section \in {"DEFAULT", m} => v \in To(m)'
<1>1. CASE k # "SendTo"
  <2>1. \A m \in Mailers : To(m)' = To(m)
    BY <1>1, StoredValues
  <2>. QED BY <1>1, <2>1
<1>2. CASE k = "SendTo"
  <2>1. \A m \in Mailers :
          To(m)' = IF section \in {"DEFAULT", m}
                   THEN {v} \cup To(m) \cup Along(section, m) ELSE To(m)
    BY <1>2, StoredValues
  <2>. QED BY <2>1
<1>. QED BY <1>1, <1>2

\* A step that reads no entry and no include.
LEMMA SameMaps ==
  /\ KnownInv /\ UNCHANGED <<file, maps>> /\ Done' = Done /\ Pending \subseteq Pending'
  => KnownInv'
BY DEF KnownInv, To, Counts

LEMMA SameOnly ==
  /\ OnlyInv /\ UNCHANGED <<file, maps>> /\ Done' = Done
  => OnlyInv'
BY DEF OnlyInv, To, From

\* Further lines.
LEMMA MoreLines ==
  ASSUME NEW m, NEW d \in Nat, NEW e \in Nat, d <= e, NEW w, From(m, d, w)
  PROVE  From(m, e, w)
BY DEF From

LEMMA MoreOnly ==
  ASSUME OnlyInv, UNCHANGED <<file, maps>>, Done' = Done + 1, Done \in Nat
  PROVE  OnlyInv'
<1>1. ASSUME NEW m, NEW w, From(m, Done, w)
      PROVE  \E i \in 1 .. Done + 1 : Counts(file, i, m) /\ w \in ValuesAt(file, i, "SendTo")
  <2>1. From(m, Done + 1, w)
    BY <1>1, MoreLines
  <2>. QED BY <2>1 DEF From
<1>2. \A m : To(m)' = To(m)
  BY DEF To
<1>3. SUFFICES ASSUME Sectioned(file)', DefaultFirst(file)', NEW m \in Mailers, NEW w \in To(m)'
               PROVE  From(m, Done, w)'
  BY DEF OnlyInv
<1>4. Sectioned(file) /\ DefaultFirst(file)
  BY <1>3
<1>5. From(m, Done, w)
  BY <1>2, <1>3, <1>4 DEF OnlyInv
<1>. QED BY <1>1, <1>5 DEF From

ReadInv == TypeInv /\ PlaceInv /\ SectionInv

\* A line that is read and gives nothing to m.
LEMMA LineKnown ==
  ASSUME KnownInv, Sectioned(file), file' = file, Done' = Done + 1, Done \in Nat, Pending = {},
         \A m \in Mailers : To(m) \subseteq To(m)',
         \A m \in Mailers : Counts(file, Done', m) =>
           ValuesAt(file, Done', "SendTo") \subseteq To(m)' \cup Pending'
  PROVE  KnownInv'
<1>. SUFFICES ASSUME NEW m \in Mailers, NEW i \in 1 .. Done', Counts(file, i, m)
              PROVE  ValuesAt(file, i, "SendTo") \subseteq
                       To(m)' \cup (IF i = Done' THEN Pending' ELSE {})
  BY DEF KnownInv, Counts
<1>1. CASE i = Done'
  BY <1>1
<1>2. CASE i # Done'
  <2>1. i \in 1 .. Done
    BY <1>2
  <2>2. ValuesAt(file, i, "SendTo") \subseteq To(m)
    BY <2>1 DEF KnownInv
  <2>. QED BY <2>2
<1>. QED BY <1>1, <1>2

\* ReadEntry and IncludedEntry: what is stored, and for which line.
LEMMA EntryRead ==
  ASSUME ReadInv, Sectioned(file), ReadEntry
  PROVE  /\ Done' = Done + 1 /\ Done \in Nat /\ Done' \in 1 .. Len(file)
         /\ file' = file /\ Pending = {} /\ moduleName \in Sections
         /\ ~Header(file, Done') /\ SectionOf(file, Done') = moduleName
         /\ Head(rest).key \in Keys /\ Head(rest).val \in Values(Head(rest).key)
         /\ Store(moduleName, Head(rest).key, Head(rest).val)
         /\ ValuesAt(file, Done', "SendTo") =
              IF Head(rest).key = "SendTo" THEN {Head(rest).val} ELSE {}
<1>. USE DEF ReadInv, TypeInv
<1>1. /\ main = "read" /\ rest # <<>> /\ rest' = Tail(rest) /\ file' = file
      /\ Head(rest).kind = "entry" /\ moduleName \in Sections
      /\ Store(moduleName, Head(rest).key, Head(rest).val)
  BY DEF ReadEntry, Reading
<1>2. Done' = Done + 1 /\ Done \in Nat /\ Done' \in 1 .. Len(file) /\ Head(rest) = file[Done']
  BY <1>1, ReadsLine
<1>3. PICK h \in 1 .. Done' : /\ ~Header(file, Done') /\ LastHeader(file, h, Done')
                              /\ moduleName = file[h].name
  BY <1>1, SectionStays
<1>4. SectionOf(file, Done') = moduleName
  BY <1>2, <1>3, SectionIs
<1>5. Head(rest).key \in Keys /\ Head(rest).val \in Values(Head(rest).key)
  BY <1>1, EntryFields DEF ReadOK
<1>6. ValuesAt(file, Done', "SendTo") =
        IF Head(rest).key = "SendTo" THEN {Head(rest).val} ELSE {}
  BY <1>1, <1>2 DEF ValuesAt
<1>. QED BY <1>1, <1>2, <1>3, <1>4, <1>5, <1>6 DEF Pending

LEMMA EntryIncluded ==
  ASSUME ReadInv, Sectioned(file), IncludedEntry
  PROVE  /\ Done' = Done /\ Done \in 1 .. Len(file) /\ file' = file /\ types \in Sections
         /\ ~Header(file, Done) /\ SectionOf(file, Done) = types
         /\ Head(inc).key \in Keys /\ Head(inc).val \in Values(Head(inc).key)
         /\ Store(types, Head(inc).key, Head(inc).val)
         /\ Head(inc).key = "SendTo" => Head(inc).val \in ValuesAt(file, Done, "SendTo")
         /\ Pending \subseteq
              Pending' \cup (IF Head(inc).key = "SendTo" THEN {Head(inc).val} ELSE {})
<1>. USE DEF ReadInv, TypeInv
<1>1. /\ main = "include" /\ main' = "include" /\ inc # <<>> /\ inc' = Tail(inc) /\ file' = file
      /\ rest' = rest /\ Head(inc).kind = "entry" /\ inc \in Seq(Line)
      /\ Store(types, Head(inc).key, Head(inc).val)
  BY DEF IncludedEntry, ReadingIncluded, ReadOK
<1>2. Done' = Done
  BY <1>1 DEF Done
<1>3. Done \in 0 .. Len(file) /\ Len(file) \in Nat
  BY PlaceDone
<1>4. Done > 0 /\ ~Header(file, Done) /\ types = moduleName
  BY <1>1 DEF SectionInv
<1>5. SectionOf(file, Done) = types
  BY <1>1, <1>3, <1>4, ModuleIsSection
<1>6. types \in Sections
  BY <1>1 DEF ReadOK
<1>7. Head(inc).key \in Keys /\ Head(inc).val \in Values(Head(inc).key)
  BY <1>1, EntryFields
<1>8. /\ Head(inc) = inc[1] /\ Len(inc) \in Nat \ {0} /\ Len(inc') = Len(inc) - 1
      /\ \A i \in 1 .. Len(inc) - 1 : inc'[i] = inc[i + 1]
  BY <1>1, HeadTail
<1>9. Head(inc).key = "SendTo" => Head(inc).val \in ValuesAt(file, Done, "SendTo")
  BY <1>1, <1>8 DEF SectionInv
<1>10. ASSUME NEW w \in Pending
       PROVE  w \in Pending' \/ (Head(inc).key = "SendTo" /\ w = Head(inc).val)
  <2>1. PICK j \in 1 .. Len(inc) : inc[j].kind = "entry" /\ inc[j].key = "SendTo" /\ inc[j].val = w
    BY <1>1, <1>10 DEF Pending
  <2>2. CASE j = 1
    BY <1>8, <2>1, <2>2
  <2>3. CASE j # 1
    <3>1. j - 1 \in 1 .. Len(inc') /\ j - 1 \in 1 .. Len(inc) - 1 /\ (j - 1) + 1 = j
      BY <1>8, <2>3
    <3>2. inc'[j - 1] = inc[j]
      BY <1>8, <3>1
    <3>. QED BY <1>1, <2>1, <3>1, <3>2 DEF Pending
  <2>. QED BY <2>2, <2>3
<1>. QED BY <1>1, <1>2, <1>3, <1>4, <1>5, <1>6, <1>7, <1>9, <1>10

LEMMA KnownStep == ReadInv /\ KnownInv /\ [Next]_vars => KnownInv'
<1>. SUFFICES ASSUME ReadInv, KnownInv, [Next]_vars, Sectioned(file)' PROVE KnownInv'
  BY DEF KnownInv
<1>. USE DEF ReadInv, TypeInv, reader
<1>1. ASSUME NEW f \in Files, Load(f) PROVE KnownInv'
  <2>1. Done' = 0
    BY <1>1, Assumed DEF Load, Done
  <2>. QED BY <2>1 DEF KnownInv
<1>2. CASE ReadHeader
  <2>1. /\ main = "read" /\ rest # <<>> /\ rest' = Tail(rest) /\ UNCHANGED <<file, maps>>
        /\ Head(rest).kind = "section"
    BY <1>2 DEF ReadHeader, Reading
  <2>2. Done' = Done + 1 /\ Done \in Nat /\ Done' \in 1 .. Len(file) /\ Head(rest) = file[Done']
    BY <2>1, ReadsLine
  <2>3. Pending = {} /\ \A m \in Mailers : To(m) \subseteq To(m)'
    BY <2>1 DEF Pending, To
  <2>4. \A m \in Mailers : ~Counts(file, Done', m)
    BY <2>1, <2>2 DEF Counts, Header
  <2>. QED BY <2>1, <2>2, <2>3, <2>4, LineKnown
<1>3. CASE SkipLine
  <2>1. /\ main = "read" /\ rest # <<>> /\ rest' = Tail(rest) /\ UNCHANGED <<file, maps>>
        /\ Head(rest).kind # "section"
    BY <1>3 DEF SkipLine, Reading
  <2>2. Done' = Done + 1 /\ Done \in Nat /\ Done' \in 1 .. Len(file) /\ Head(rest) = file[Done']
    BY <2>1, ReadsLine
  <2>3. Pending = {} /\ \A m \in Mailers : To(m) \subseteq To(m)'
    BY <2>1 DEF Pending, To
  <2>4. PICK h \in 1 .. Done' : LastHeader(file, h, Done') /\ moduleName = file[h].name
    BY <2>1, SectionStays
  <2>5. SectionOf(file, Done') = moduleName
    BY <2>2, <2>4, SectionIs
  <2>6. moduleName \notin Sections
    BY <1>3 DEF SkipLine, Sections, Modules
  <2>7. \A m \in Mailers : ~Counts(file, Done', m)
    BY <2>5, <2>6, Names DEF Counts, Sections
  <2>. QED BY <2>1, <2>2, <2>3, <2>7, LineKnown
<1>4. CASE ReadEntry
  <2>1. Sectioned(file)
    BY <1>4 DEF ReadEntry
  <2>. DEFINE k == Head(rest).key
              v == Head(rest).val
  <2>2. \A m \in Mailers :
          /\ To(m) \subseteq To(m)'
          /\ k = "SendTo" /\ moduleName \in {"DEFAULT", m} => v \in To(m)'
    BY <1>4, <2>1, EntryRead, StoredKnown
  <2>3. \A m \in Mailers : Counts(file, Done', m) =>
          ValuesAt(file, Done', "SendTo") \subseteq To(m)' \cup Pending'
    BY <1>4, <2>1, <2>2, EntryRead DEF Counts
  <2>4. file' = file /\ Done' = Done + 1 /\ Done \in Nat /\ Pending = {}
    BY <1>4, <2>1, EntryRead
  <2>. QED BY <2>1, <2>2, <2>3, <2>4, LineKnown
<1>5. CASE ReadInclude
  <2>1. /\ main = "read" /\ rest # <<>> /\ rest' = Tail(rest) /\ UNCHANGED <<file, maps>>
        /\ Head(rest).kind = "include"
    BY <1>5 DEF ReadInclude, Reading
  <2>2. Done' = Done + 1 /\ Done \in Nat /\ Done' \in 1 .. Len(file) /\ Head(rest) = file[Done']
    BY <2>1, ReadsLine
  <2>3. Pending = {} /\ \A m \in Mailers : To(m) \subseteq To(m)'
    BY <2>1 DEF Pending, To
  <2>4. ValuesAt(file, Done', "SendTo") \subseteq Pending'
    <3>. DEFINE n == Head(rest).name
    <3>1. CASE n \in DOMAIN Includes
      <4>1. inc' = Includes[n] /\ Includes[n] \in Seq(Line) /\ main' = "include"
        BY <1>5, <3>1, Assumed DEF ReadInclude
      <4>2. ValuesAt(file, Done', "SendTo") =
              {Includes[n][i].val :
                 i \in {l \in DOMAIN Includes[n] : /\ Includes[n][l].kind = "entry"
                                                   /\ Includes[n][l].key = "SendTo"}}
        BY <2>1, <2>2, <3>1 DEF ValuesAt
      <4>3. DOMAIN Includes[n] = 1 .. Len(inc')
        BY <4>1
      <4>. QED BY <4>1, <4>2, <4>3 DEF Pending
    <3>2. CASE n \notin DOMAIN Includes
      BY <2>1, <2>2, <3>2 DEF ValuesAt
    <3>. QED BY <3>1, <3>2
  <2>. QED BY <2>1, <2>2, <2>3, <2>4, LineKnown
<1>6. CASE Refuse
  <2>1. UNCHANGED <<file, maps>> /\ Done' = Done /\ Pending = {}
    BY <1>6 DEF Refuse, Done, Pending, Reading
  <2>. QED BY <2>1, SameMaps
<1>7. CASE ReadEnd
  <2>1. UNCHANGED <<file, maps>> /\ Done' = Done /\ Pending = {}
    BY <1>7 DEF ReadEnd, Done, Pending
  <2>. QED BY <2>1, SameMaps
<1>8. CASE IncludedHeader
  <2>1. /\ main = "include" /\ inc # <<>> /\ Head(inc).kind = "section" /\ inc \in Seq(Line)
        /\ file' = file
    BY <1>8 DEF IncludedHeader, ReadingIncluded, ReadOK
  <2>2. Head(inc) = inc[1] /\ 1 \in 1 .. Len(inc)
    BY <2>1, HeadTail
  <2>. QED BY <2>1, <2>2 DEF SectionInv
<1>9. CASE IncludedEntry
  <2>1. Sectioned(file)
    BY <1>9 DEF IncludedEntry
  <2>. DEFINE k == Head(inc).key
              v == Head(inc).val
  <2>2. \A m \in Mailers :
          /\ To(m) \subseteq To(m)'
          /\ k = "SendTo" /\ types \in {"DEFAULT", m} => v \in To(m)'
    BY <1>9, <2>1, EntryIncluded, StoredKnown
  <2>3. /\ Done' = Done /\ file' = file /\ SectionOf(file, Done) = types
        /\ Pending \subseteq Pending' \cup (IF k = "SendTo" THEN {v} ELSE {})
    BY <1>9, <2>1, EntryIncluded
  <2>. HIDE DEF k, v
  <2>4. ASSUME NEW m \in Mailers, NEW i \in 1 .. Done, Counts(file, i, m)
        PROVE  ValuesAt(file, i, "SendTo") \subseteq
                 To(m)' \cup (IF i = Done THEN Pending' ELSE {})
    <3>1. ValuesAt(file, i, "SendTo") \subseteq To(m) \cup (IF i = Done THEN Pending ELSE {})
      BY <2>1, <2>4 DEF KnownInv
    <3>2. CASE i = Done
      BY <2>2, <2>3, <2>4, <3>1, <3>2 DEF Counts
    <3>3. CASE i # Done
      BY <2>2, <3>1, <3>3
    <3>. QED BY <3>2, <3>3
  <2>. QED BY <2>3, <2>4 DEF KnownInv, Counts
<1>10. CASE IncludedEnd
  <2>1. UNCHANGED <<file, maps>> /\ Done' = Done /\ inc = <<>>
    BY <1>10 DEF IncludedEnd, Done
  <2>2. Pending = {}
    BY <2>1 DEF Pending
  <2>. QED BY <2>1, <2>2, SameMaps
<1>11. CASE InitCentre
  <2>1. UNCHANGED <<file, maps>> /\ Done' = Done /\ Pending = {}
    BY <1>11 DEF InitCentre, Done, Pending
  <2>. QED BY <2>1, SameMaps
<1>12. CASE InitProcess
  <2>1. UNCHANGED <<file, maps>> /\ Done' = Done /\ Pending = {}
    BY <1>12 DEF InitProcess, Done, Pending
  <2>. QED BY <2>1, SameMaps
<1>13. CASE InitLog
  <2>1. UNCHANGED <<file, maps>> /\ Done' = Done /\ Pending = {}
    BY <1>13 DEF InitLog, Done, Pending
  <2>. QED BY <2>1, SameMaps
<1>14. CASE InitSystem
  <2>1. UNCHANGED <<file, maps>> /\ Done' = Done /\ Pending = {}
    BY <1>14 DEF InitSystem, Done, Pending
  <2>. QED BY <2>1, SameMaps
<1>15. CASE UNCHANGED vars
  <2>1. UNCHANGED <<file, maps>> /\ Done' = Done /\ Pending' = Pending
    BY <1>15 DEF vars, Done, Pending
  <2>. QED BY <2>1, SameMaps
<1>. QED
  BY <1>1, <1>2, <1>3, <1>4, <1>5, <1>6, <1>7, <1>8, <1>9, <1>10, <1>11, <1>12, <1>13, <1>14,
     <1>15
  DEF Next, ReadStep, InitConfStep

LEMMA OnlyStep == ReadInv /\ OnlyInv /\ [Next]_vars => OnlyInv'
<1>. SUFFICES ASSUME ReadInv, OnlyInv, [Next]_vars, Sectioned(file)', DefaultFirst(file)'
              PROVE  OnlyInv'
  BY DEF OnlyInv
<1>. USE DEF ReadInv, TypeInv, reader
<1>1. ASSUME NEW f \in Files, Load(f) PROVE OnlyInv'
  <2>1. \A m \in Mailers : To(m)' = {}
    BY <1>1, Names DEF Load, NoMaps, To
  <2>. QED BY <2>1 DEF OnlyInv
<1>2. CASE ReadHeader
  <2>1. rest # <<>> /\ rest' = Tail(rest) /\ UNCHANGED <<file, maps>>
    BY <1>2 DEF ReadHeader, Reading
  <2>2. Done' = Done + 1 /\ Done \in Nat
    BY <2>1, ReadsLine
  <2>. QED BY <2>1, <2>2, MoreOnly
<1>3. CASE SkipLine
  <2>1. rest # <<>> /\ rest' = Tail(rest) /\ UNCHANGED <<file, maps>>
    BY <1>3 DEF SkipLine, Reading
  <2>2. Done' = Done + 1 /\ Done \in Nat
    BY <2>1, ReadsLine
  <2>. QED BY <2>1, <2>2, MoreOnly
<1>4. CASE ReadEntry
  <2>1. Sectioned(file) /\ DefaultFirst(file)
    BY <1>4 DEF ReadEntry
  <2>2. /\ Done' = Done + 1 /\ Done \in Nat /\ Done' \in 1 .. Len(file) /\ file' = file
        /\ moduleName \in Sections
        /\ ~Header(file, Done') /\ SectionOf(file, Done') = moduleName
    BY <1>4, <2>1, EntryRead
  <2>. DEFINE k == Head(rest).key
              v == Head(rest).val
              d == Done'
  <2>3. /\ k \in Keys /\ v \in Values(k) /\ Store(moduleName, k, v)
        /\ k = "SendTo" => v \in ValuesAt(file, Done', "SendTo")
    BY <1>4, <2>1, EntryRead
  <2>4. \A m \in Mailers : \A w \in To(m) : From(m, d, w)
    BY <2>1, <2>2, MoreLines DEF OnlyInv
  <2>5. DOMAIN file = 1 .. Len(file) /\ Len(file) \in Nat
    BY PlaceDone
  <2>. HIDE DEF k, v, d
  <2>6. d \in 1 .. Len(file) /\ ~Header(file, d) /\ SectionOf(file, d) = moduleName
        /\ (k = "SendTo" => v \in ValuesAt(file, d, "SendTo"))
    BY <2>2, <2>3 DEF d
  <2>7. \A m \in Mailers : \A w \in To(m)' : From(m, d, w)
    BY <2>1, <2>2, <2>3, <2>4, <2>5, <2>6, StoredOnly
  <2>. QED BY <2>2, <2>7 DEF OnlyInv, From, d
<1>5. CASE ReadInclude
  <2>1. rest # <<>> /\ rest' = Tail(rest) /\ UNCHANGED <<file, maps>>
    BY <1>5 DEF ReadInclude, Reading
  <2>2. Done' = Done + 1 /\ Done \in Nat
    BY <2>1, ReadsLine
  <2>. QED BY <2>1, <2>2, MoreOnly
<1>6. CASE Refuse
  <2>1. UNCHANGED <<file, maps>> /\ Done' = Done
    BY <1>6 DEF Refuse, Done
  <2>. QED BY <2>1, SameOnly
<1>7. CASE ReadEnd
  <2>1. UNCHANGED <<file, maps>> /\ Done' = Done
    BY <1>7 DEF ReadEnd, Done
  <2>. QED BY <2>1, SameOnly
<1>8. CASE IncludedHeader
  <2>1. UNCHANGED <<file, maps>> /\ Done' = Done
    BY <1>8 DEF IncludedHeader, Done
  <2>. QED BY <2>1, SameOnly
<1>9. CASE IncludedEntry
  <2>1. Sectioned(file) /\ DefaultFirst(file)
    BY <1>9 DEF IncludedEntry
  <2>2. /\ Done' = Done /\ Done \in 1 .. Len(file) /\ file' = file /\ types \in Sections
        /\ ~Header(file, Done) /\ SectionOf(file, Done) = types
    BY <1>9, <2>1, EntryIncluded
  <2>. DEFINE k == Head(inc).key
              v == Head(inc).val
  <2>3. /\ k \in Keys /\ v \in Values(k) /\ Store(types, k, v)
        /\ k = "SendTo" => v \in ValuesAt(file, Done, "SendTo")
    BY <1>9, <2>1, EntryIncluded
  <2>4. \A m \in Mailers : \A w \in To(m) : From(m, Done, w)
    BY <2>1 DEF OnlyInv
  <2>5. DOMAIN file = 1 .. Len(file) /\ Len(file) \in Nat
    BY PlaceDone
  <2>. HIDE DEF k, v
  <2>6. \A m \in Mailers : \A w \in To(m)' : From(m, Done, w)
    BY <2>1, <2>2, <2>3, <2>4, <2>5, StoredOnly
  <2>. QED BY <2>2, <2>6 DEF OnlyInv, From
<1>10. CASE IncludedEnd
  <2>1. UNCHANGED <<file, maps>> /\ Done' = Done
    BY <1>10 DEF IncludedEnd, Done
  <2>. QED BY <2>1, SameOnly
<1>11. CASE InitCentre
  <2>1. UNCHANGED <<file, maps>> /\ Done' = Done
    BY <1>11 DEF InitCentre, Done
  <2>. QED BY <2>1, SameOnly
<1>12. CASE InitProcess
  <2>1. UNCHANGED <<file, maps>> /\ Done' = Done
    BY <1>12 DEF InitProcess, Done
  <2>. QED BY <2>1, SameOnly
<1>13. CASE InitLog
  <2>1. UNCHANGED <<file, maps>> /\ Done' = Done
    BY <1>13 DEF InitLog, Done
  <2>. QED BY <2>1, SameOnly
<1>14. CASE InitSystem
  <2>1. UNCHANGED <<file, maps>> /\ Done' = Done
    BY <1>14 DEF InitSystem, Done
  <2>. QED BY <2>1, SameOnly
<1>15. CASE UNCHANGED vars
  <2>1. UNCHANGED <<file, maps>> /\ Done' = Done
    BY <1>15 DEF vars, Done
  <2>. QED BY <2>1, SameOnly
<1>. QED
  BY <1>1, <1>2, <1>3, <1>4, <1>5, <1>6, <1>7, <1>8, <1>9, <1>10, <1>11, <1>12, <1>13, <1>14,
     <1>15
  DEF Next, ReadStep, InitConfStep

-----------------------------------------------------------------------------
(* What is in force.                                                       *)

Settled(m) ==
  inForce.sendTo[m] =
    IF To(m) = {} /\ m # "PROCESS ALARM" THEN before.sendTo[m] ELSE To(m)
Unsettled(m) == inForce.sendTo[m] = before.sendTo[m]

\* The modules take over their recipients one after the other.
ForceInv ==
  /\ main \in {"read", "include", "centre", "process"} => \A m \in Mailers : Unsettled(m)
  /\ main = "log" =>
       Settled("PROCESS ALARM") /\ Unsettled("LOG PARSE") /\ Unsettled("SYSTEM MONIT")
  /\ main = "system" =>
       Settled("PROCESS ALARM") /\ Settled("LOG PARSE") /\ Unsettled("SYSTEM MONIT")
  /\ Loaded => \A m \in Mailers : Settled(m)

\* Reading goes on, comes to its end or fails.
ReadsOn ==
  /\ UNCHANGED <<inForce, before>> /\ main \in {"read", "include"}
  /\ \/ main' \in {"read", "include", "centre"}
     \/ main' \in {"idle", "exited"} /\ outcome' = "failed"

LEMMA ForceFrame == ForceInv /\ ReadsOn => ForceInv'
BY DEF ReadsOn, ForceInv, Unsettled, Loaded

LEMMA ForceStep == TypeInv /\ ForceInv /\ [Next]_vars => ForceInv'
<1>. SUFFICES ASSUME TypeInv, ForceInv, [Next]_vars PROVE ForceInv'
  OBVIOUS
<1>. USE DEF TypeInv
<1>1. ASSUME NEW f \in Files, Load(f) PROVE ForceInv'
  BY <1>1 DEF Load, ForceInv, Unsettled, Loaded
<1>2. CASE ReadHeader
  <2>1. ReadsOn
    BY <1>2 DEF ReadsOn, ReadHeader, Reading, ReadingIncluded, Fail
  <2>. QED BY <2>1, ForceFrame
<1>3. CASE SkipLine
  <2>1. ReadsOn
    BY <1>3 DEF ReadsOn, SkipLine, Reading, ReadingIncluded, Fail
  <2>. QED BY <2>1, ForceFrame
<1>4. CASE ReadEntry
  <2>1. ReadsOn
    BY <1>4 DEF ReadsOn, ReadEntry, Reading, ReadingIncluded, Fail
  <2>. QED BY <2>1, ForceFrame
<1>5. CASE ReadInclude
  <2>1. ReadsOn
    BY <1>5 DEF ReadsOn, ReadInclude, Reading, ReadingIncluded, Fail
  <2>. QED BY <2>1, ForceFrame
<1>6. CASE Refuse
  <2>1. ReadsOn
    BY <1>6 DEF ReadsOn, Refuse, Reading, ReadingIncluded, Fail
  <2>. QED BY <2>1, ForceFrame
<1>7. CASE ReadEnd
  <2>1. ReadsOn
    BY <1>7 DEF ReadsOn, ReadEnd, Reading, ReadingIncluded, Fail
  <2>. QED BY <2>1, ForceFrame
<1>8. CASE IncludedHeader
  <2>1. ReadsOn
    BY <1>8 DEF ReadsOn, IncludedHeader, Reading, ReadingIncluded, Fail
  <2>. QED BY <2>1, ForceFrame
<1>9. CASE IncludedEntry
  <2>1. ReadsOn
    BY <1>9 DEF ReadsOn, IncludedEntry, Reading, ReadingIncluded, Fail
  <2>. QED BY <2>1, ForceFrame
<1>10. CASE IncludedEnd
  <2>1. ReadsOn
    BY <1>10 DEF ReadsOn, IncludedEnd, Reading, ReadingIncluded, Fail
  <2>. QED BY <2>1, ForceFrame
<1>11. CASE InitCentre
  <2>1. main = "centre" /\ main' = "process" /\ before' = before
    BY <1>11 DEF InitCentre
  <2>2. inForce'.sendTo = inForce.sendTo
    BY <1>11, CentreSettings
  <2>. QED BY <2>1, <2>2 DEF ForceInv, Unsettled, Loaded
<1>12. CASE InitProcess
  <2>1. main = "process" /\ main' = "log" /\ UNCHANGED <<before, maps>>
    BY <1>12 DEF InitProcess
  <2>2. inForce.sendTo \in [Mailers -> SUBSET Recipients]
    BY DEF SettingsOK, Settings
  <2>3. inForce'.sendTo = [inForce.sendTo EXCEPT !["PROCESS ALARM"] = To("PROCESS ALARM")]
    BY <1>12, ProcessSettings
  <2>4. inForce'.sendTo["PROCESS ALARM"] = To("PROCESS ALARM")
    BY <2>2, <2>3, Names
  <2>5. \A n \in Mailers : n # "PROCESS ALARM" => inForce'.sendTo[n] = inForce.sendTo[n]
    BY <2>2, <2>3
  <2>6. \A n \in Mailers : To(n)' = To(n)
    BY <2>1 DEF To
  <2>7. Settled("PROCESS ALARM")'
    BY <2>1, <2>4, <2>6, Names DEF Settled
  <2>8. Unsettled("LOG PARSE") /\ Unsettled("SYSTEM MONIT")
    BY <2>1, Names DEF ForceInv
  <2>9. Unsettled("LOG PARSE")'
    <3>1. inForce'.sendTo["LOG PARSE"] = inForce.sendTo["LOG PARSE"]
      BY <2>5, Names
    <3>. QED BY <2>1, <2>8, <3>1 DEF Unsettled
  <2>10. Unsettled("SYSTEM MONIT")'
    <3>1. inForce'.sendTo["SYSTEM MONIT"] = inForce.sendTo["SYSTEM MONIT"]
      BY <2>5, Names
    <3>. QED BY <2>1, <2>8, <3>1 DEF Unsettled
  <2>. QED BY <2>1, <2>7, <2>9, <2>10, Names DEF ForceInv, Loaded
<1>13. CASE InitLog
  <2>1. main = "log" /\ main' = "system" /\ UNCHANGED <<before, maps>>
    BY <1>13 DEF InitLog
  <2>2. inForce.sendTo \in [Mailers -> SUBSET Recipients]
    BY DEF SettingsOK, Settings
  <2>3. inForce'.sendTo = [inForce.sendTo EXCEPT !["LOG PARSE"] = KeptSendTo("LOG PARSE")]
    BY <1>13, LogSettings
  <2>4. inForce'.sendTo["LOG PARSE"] = KeptSendTo("LOG PARSE")
    BY <2>2, <2>3, Names
  <2>5. \A n \in Mailers : n # "LOG PARSE" => inForce'.sendTo[n] = inForce.sendTo[n]
    BY <2>2, <2>3
  <2>6. \A n \in Mailers : To(n)' = To(n)
    BY <2>1 DEF To
  <2>7. Settled("LOG PARSE")'
    BY <2>1, <2>4, <2>6, Names DEF Settled, ForceInv, Unsettled, KeptSendTo, To
  <2>8. Settled("PROCESS ALARM") /\ Unsettled("SYSTEM MONIT")
    BY <2>1, Names DEF ForceInv
  <2>9. Settled("PROCESS ALARM")'
    <3>1. /\ inForce'.sendTo["PROCESS ALARM"] = inForce.sendTo["PROCESS ALARM"]
          /\ To("PROCESS ALARM")' = To("PROCESS ALARM")
      BY <2>5, <2>6, Names
    <3>. QED BY <2>1, <2>8, <3>1 DEF Settled
  <2>10. Unsettled("SYSTEM MONIT")'
    <3>1. inForce'.sendTo["SYSTEM MONIT"] = inForce.sendTo["SYSTEM MONIT"]
      BY <2>5, Names
    <3>. QED BY <2>1, <2>8, <3>1 DEF Unsettled
  <2>. QED BY <2>1, <2>7, <2>9, <2>10, Names DEF ForceInv, Loaded
<1>14. CASE InitSystem
  <2>1. main = "system" /\ main' = "idle" /\ UNCHANGED <<before, maps>>
    BY <1>14 DEF InitSystem
  <2>2. inForce.sendTo \in [Mailers -> SUBSET Recipients]
    BY DEF SettingsOK, Settings
  <2>3. inForce'.sendTo = [inForce.sendTo EXCEPT !["SYSTEM MONIT"] = KeptSendTo("SYSTEM MONIT")]
    BY <1>14, SystemSettings
  <2>4. inForce'.sendTo["SYSTEM MONIT"] = KeptSendTo("SYSTEM MONIT")
    BY <2>2, <2>3, Names
  <2>5. \A n \in Mailers : n # "SYSTEM MONIT" => inForce'.sendTo[n] = inForce.sendTo[n]
    BY <2>2, <2>3
  <2>6. \A n \in Mailers : To(n)' = To(n)
    BY <2>1 DEF To
  <2>7. Settled("SYSTEM MONIT")'
    BY <2>1, <2>4, <2>6, Names DEF Settled, ForceInv, Unsettled, KeptSendTo, To
  <2>8. Settled("PROCESS ALARM") /\ Settled("LOG PARSE")
    BY <2>1, Names DEF ForceInv
  <2>9. Settled("PROCESS ALARM")'
    <3>1. /\ inForce'.sendTo["PROCESS ALARM"] = inForce.sendTo["PROCESS ALARM"]
          /\ To("PROCESS ALARM")' = To("PROCESS ALARM")
      BY <2>5, <2>6, Names
    <3>. QED BY <2>1, <2>8, <3>1 DEF Settled
  <2>10. Settled("LOG PARSE")'
    <3>1. /\ inForce'.sendTo["LOG PARSE"] = inForce.sendTo["LOG PARSE"]
          /\ To("LOG PARSE")' = To("LOG PARSE")
      BY <2>5, <2>6, Names
    <3>. QED BY <2>1, <2>8, <3>1 DEF Settled
  <2>. QED BY <2>1, <2>7, <2>9, <2>10, Names DEF ForceInv, Loaded
<1>15. CASE UNCHANGED vars
  BY <1>15 DEF vars, ForceInv, Settled, Unsettled, Loaded, To
<1>. QED
  BY <1>1, <1>2, <1>3, <1>4, <1>5, <1>6, <1>7, <1>8, <1>9, <1>10, <1>11, <1>12, <1>13, <1>14,
     <1>15
  DEF Next, ReadStep, InitConfStep

LoadInv == ReadInv /\ KnownInv /\ OnlyInv /\ ForceInv

LEMMA LoadInit == Init => LoadInv
<1>. SUFFICES ASSUME Init PROVE LoadInv
  OBVIOUS
<1>1. TypeInv
  BY TypeInit
<1>2. main = "boot" /\ file = <<>> /\ rest = <<>> /\ maps = NoMaps
  BY DEF Init
<1>3. Len(rest) = 0 /\ Len(file) = 0 /\ Done = 0
  BY <1>2 DEF Done
<1>4. PlaceInv /\ SectionInv
  BY <1>2, <1>3 DEF PlaceInv, SectionInv, Loaded
<1>5. KnownInv
  BY <1>3 DEF KnownInv
<1>6. \A m \in Mailers : To(m) = {}
  BY <1>2, Names DEF NoMaps, To
<1>7. OnlyInv
  BY <1>6 DEF OnlyInv
<1>8. ForceInv
  BY <1>2 DEF ForceInv, Loaded
<1>. QED BY <1>1, <1>4, <1>5, <1>7, <1>8 DEF LoadInv, ReadInv

LEMMA LoadHolds == Spec => []LoadInv
<1>1. LoadInv /\ [Next]_vars => LoadInv'
  BY TypeStep, PlaceStep, SectionStep, KnownStep, OnlyStep, ForceStep DEF LoadInv, ReadInv
<1>. QED BY <1>1, LoadInit, PTL DEF Spec

\* When a load is done the maps hold just what the file gives each module.
LEMMA GivenInMaps ==
  ASSUME LoadInv, Loaded, Sectioned(file), NEW m \in Mailers
  PROVE  /\ Given(file, {"DEFAULT", m}, "SendTo") \subseteq To(m)
         /\ DefaultFirst(file) => To(m) \subseteq Given(file, {"DEFAULT", m}, "SendTo")
<1>. DEFINE given == Given(file, {"DEFAULT", m}, "SendTo")
<1>1. Done = Len(file) /\ DOMAIN file = 1 .. Len(file)
  BY PlaceDone DEF LoadInv, ReadInv, TypeInv, PlaceInv
<1>2. \A w : w \in given <=>
        \E i \in 1 .. Len(file) : Counts(file, i, m) /\ w \in ValuesAt(file, i, "SendTo")
  BY <1>1 DEF Given, Counts
<1>3. Pending = {}
  BY DEF Pending, Loaded
<1>. HIDE DEF given
<1>4. given \subseteq To(m)
  BY <1>1, <1>2, <1>3 DEF LoadInv, KnownInv
<1>5. DefaultFirst(file) => To(m) \subseteq given
  BY <1>1, <1>2 DEF LoadInv, OnlyInv, From
<1>. QED BY <1>4, <1>5 DEF given

\* The recipients a sectioned file names for a module, or for all, get its
\* mails, whatever the order of the sections, the includes in them, and what
\* was loaded before or failed to.
THEOREM NobodyForgottenHolds == Spec => []NobodyForgotten
<1>1. LoadInv => NobodyForgotten
  <2>. SUFFICES ASSUME LoadInv, Loaded, Sectioned(file), NEW m \in Mailers
                PROVE  Given(file, {"DEFAULT", m}, "SendTo") \subseteq inForce.sendTo[m]
    BY DEF NobodyForgotten
  <2>1. Settled(m)
    BY DEF LoadInv, ForceInv
  <2>2. Given(file, {"DEFAULT", m}, "SendTo") \subseteq To(m)
    BY GivenInMaps
  <2>. QED BY <2>1, <2>2 DEF Settled
<1>. QED BY <1>1, LoadHolds, PTL

\* And nobody else does, when recipients of all modules come first.
THEOREM NobodyElseHolds == Spec => []NobodyElse
<1>1. LoadInv => NobodyElse
  <2>. SUFFICES ASSUME LoadInv, Loaded, Sectioned(file), DefaultFirst(file), NEW m \in Mailers
                PROVE  LET given == Given(file, {"DEFAULT", m}, "SendTo") IN
                         inForce.sendTo[m] \subseteq
                           IF given = {} /\ m # "PROCESS ALARM" THEN before.sendTo[m] ELSE given
    BY DEF NobodyElse
  <2>1. Settled(m)
    BY DEF LoadInv, ForceInv
  <2>2. Given(file, {"DEFAULT", m}, "SendTo") = To(m)
    BY GivenInMaps
  <2>. QED BY <2>1, <2>2 DEF Settled
<1>. QED BY <1>1, LoadHolds, PTL
=============================================================================
