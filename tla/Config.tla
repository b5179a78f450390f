------------------------------- MODULE Config -------------------------------
(***************************************************************************)
(* Loading the configuration (src/src/ucflag/ucflag.go): InitConfig reads  *)
(* ucAlarm.conf line by line into one map per module, reads the files it   *)
(* includes, and hands the maps to the InitConf of the four modules.  It   *)
(* runs in the main goroutine, at start and for every SIGUSR1; what is in  *)
(* force in the modules is what their goroutines use all the time.         *)
(*                                                                         *)
(* A line is a record with a field kind: a "section" header, an "entry",   *)
(* an "include", or a "broken" line that cannot be read.  Comments, blank  *)
(* lines and lines without = change nothing and are left out.  An entry    *)
(* has a key and a value; the value of SendTo stands for one recipient,    *)
(* and ToHeavy makes the set of the recipients of a list.                  *)
(***************************************************************************)
EXTENDS Integers, Sequences

CONSTANTS
  Files,       \* contents ucAlarm.conf may have: sequences of lines
  Includes,    \* Includes[n]: the lines of file n; any other cannot be opened
  Recipients,  \* values of SendTo
  Times,       \* values of SweepTime: integers, or
  NoNumber,    \* anything else
  Hosts,       \* values of Host, which stands for the whole mail account
  MaxLoads     \* bound: files loaded, the one at start included

Modules == {"ALARM EMAIL", "PROCESS ALARM", "LOG PARSE", "SYSTEM MONIT"}
Mailers == Modules \ {"ALARM EMAIL"}
Sections == Modules \cup {"DEFAULT"}
Keys == {"SendTo", "SweepTime", "Host"}
Values(k) == CASE k = "SendTo" -> Recipients
               [] k = "SweepTime" -> Times
               [] k = "Host" -> Hosts

\* The lines of a file.
Line == [kind : {"section", "include"}, name : STRING] \cup [kind : {"broken"}]
        \cup UNION {[kind : {"entry"}, key : {k}, val : Values(k)] : k \in Keys}

ASSUME ConstAssumption ==
  /\ Times \subseteq Int \cup {NoNumber} /\ NoNumber \notin Int
  /\ Files \subseteq Seq(Line)
  /\ \A n \in DOMAIN Includes :
       /\ Includes[n] \in Seq(Line)
       /\ \A i \in DOMAIN Includes[n] : Includes[n][i].kind # "include"
  /\ MaxLoads \in Nat \ {0}

VARIABLES
  main,        \* what InitConfig is doing
  moduleName,  \* the section of the last header read, "" at first
  maps,        \* maps[m][k]: the text of key k for module m, as a set of values
  file, rest,  \* the file being loaded and the lines of it still to be read
  inc, types,  \* the lines of an included file, the section they count for
  inForce,     \* what the modules work with
  outcome,     \* how the last load has ended
  before,      \* inForce when it began
  loads

reader == <<rest, inc, types>>
vars == <<main, moduleName, maps, file, reader, inForce, outcome, before, loads>>

MainPcs == {"boot", "idle", "read", "include", "centre", "process", "log",
            "system", "exited"}

NoMaps == [m \in Modules |-> [k \in Keys |-> {}]]

\* What the init functions of the modules have set.
Defaults == [account |-> {}, sendTo |-> [m \in Mailers |-> {}],
             sweepTime |-> [m \in {"LOG PARSE", "SYSTEM MONIT"} |->
                              IF m = "LOG PARSE" THEN 3 ELSE 5]]

Init ==
  /\ main = "boot"
  /\ moduleName = ""
  /\ maps = NoMaps
  /\ file = <<>> /\ rest = <<>> /\ inc = <<>> /\ types = ""
  /\ inForce = Defaults /\ before = Defaults
  /\ outcome = "none"
  /\ loads = 0

-----------------------------------------------------------------------------
(* Storing an entry.                                                       *)

\* mutant: a second list of recipients replaces the first
Joined_Replaces(m, k, text) == text

\* Recipients are put in front of those already there, anything else is
\* overwritten.
Joined(m, k, text) == IF k = "SendTo" THEN text \cup maps[m][k] ELSE text

Stored(m, k, text) == [maps EXCEPT ![m][k] = text]

\* configDefault goes on with the text it has put together for the process
\* monitor when it comes to the log monitor, and then to the system monitor.
StoredDefault(k, v) ==
  LET process == Joined("PROCESS ALARM", k, {v})
      log == Joined("LOG PARSE", k, process)
      system == Joined("SYSTEM MONIT", k, log)
  IN [maps EXCEPT !["PROCESS ALARM"][k] = process, !["LOG PARSE"][k] = log,
                  !["SYSTEM MONIT"][k] = system]

Store(section, k, v) ==
  maps' = CASE section = "DEFAULT" -> StoredDefault(k, v)
            [] section = "ALARM EMAIL" -> Stored(section, k, {v})
            [] OTHER -> Stored(section, k, Joined(section, k, {v}))

-----------------------------------------------------------------------------
(* InitConfig.                                                             *)

\* mutant: cleanOldMap does not clean
Load_KeepsMaps(f) ==
  /\ main \in {"boot", "idle"}
  /\ loads < MaxLoads
  /\ loads' = loads + 1
  /\ file' = f /\ rest' = f
  /\ before' = inForce
  /\ main' = "read" /\ outcome' = "none"
  /\ UNCHANGED <<maps, moduleName, inc, types, inForce>>

\* cleanOldMap empties the maps of a reload; those of the first load are empty.
\* The section of the previous load remains.
Load(f) ==
  /\ main \in {"boot", "idle"}
  /\ loads < MaxLoads
  /\ loads' = loads + 1
  /\ file' = f /\ rest' = f
  /\ before' = inForce
  /\ maps' = NoMaps
  /\ main' = "read" /\ outcome' = "none"
  /\ UNCHANGED <<moduleName, inc, types, inForce>>

\* A load that fails ends the program at start, and nothing more later.
Fail ==
  /\ main' = IF loads = 1 THEN "exited" ELSE "idle"
  /\ outcome' = "failed"

Reading(kind) == main = "read" /\ rest # <<>> /\ Head(rest).kind = kind

ReadHeader ==
  /\ Reading("section")
  /\ moduleName' = Head(rest).name
  /\ rest' = Tail(rest)
  /\ UNCHANGED <<main, maps, file, inc, types, inForce, outcome, before, loads>>

\* Lines before the first header are skipped.
SkipLine ==
  /\ Reading("entry") \/ Reading("include")
  /\ moduleName = ""
  /\ rest' = Tail(rest)
  /\ UNCHANGED <<main, moduleName, maps, file, inc, types, inForce, outcome,
                 before, loads>>

ReadEntry ==
  /\ Reading("entry")
  /\ moduleName \in Sections
  /\ Store(moduleName, Head(rest).key, Head(rest).val)
  /\ rest' = Tail(rest)
  /\ UNCHANGED <<main, moduleName, file, inc, types, inForce, outcome, before,
                 loads>>

\* A file that cannot be opened is skipped.
ReadInclude ==
  /\ Reading("include")
  /\ moduleName \in Sections
  /\ rest' = Tail(rest)
  /\ types' = moduleName
  /\ LET n == Head(rest).name IN
       IF n \in DOMAIN Includes
       THEN main' = "include" /\ inc' = Includes[n]
       ELSE UNCHANGED <<main, inc>>
  /\ UNCHANGED <<moduleName, maps, file, inForce, outcome, before, loads>>

\* A line of an unknown section, or one that cannot be read.
Refuse ==
  /\ \/ (Reading("entry") \/ Reading("include")) /\ moduleName \notin Sections \cup {""}
     \/ Reading("broken")
  /\ Fail
  /\ UNCHANGED <<moduleName, maps, file, reader, inForce, before, loads>>

ReadEnd ==
  /\ main = "read" /\ rest = <<>>
  /\ main' = "centre"
  /\ UNCHANGED <<moduleName, maps, file, reader, inForce, outcome, before, loads>>

-----------------------------------------------------------------------------
(* readInclude.  A line that cannot be read is tried again for ever, which *)
(* is no step here; an include in an included file is not one.             *)

ReadingIncluded(kind) == main = "include" /\ inc # <<>> /\ Head(inc).kind = kind

\* The line that readInclude tries for ever.
Hangs == ReadingIncluded("broken")

\* A header counts only for the lines that follow the include.
IncludedHeader ==
  /\ ReadingIncluded("section")
  /\ moduleName' = Head(inc).name
  /\ inc' = Tail(inc)
  /\ UNCHANGED <<main, maps, file, rest, types, inForce, outcome, before, loads>>

\* mutant: a line is not taken off
IncludedEntry_Again ==
  /\ ReadingIncluded("entry")
  /\ Store(types, Head(inc).key, Head(inc).val)
  /\ UNCHANGED <<main, moduleName, file, reader, inForce, outcome, before, loads>>

IncludedEntry ==
  /\ ReadingIncluded("entry")
  /\ Store(types, Head(inc).key, Head(inc).val)
  /\ inc' = Tail(inc)
  /\ UNCHANGED <<main, moduleName, file, rest, types, inForce, outcome, before,
                 loads>>

IncludedEnd ==
  /\ main = "include"
  /\ inc = <<>>
  /\ main' = "read"
  /\ UNCHANGED <<moduleName, maps, file, reader, inForce, outcome, before, loads>>

-----------------------------------------------------------------------------
(* The InitConf of the modules, in their order.  The process monitor       *)
(* forgets what is not configured, the other two keep it.                  *)

InitCentre ==
  /\ main = "centre"
  /\ main' = "process"
  /\ inForce' = [inForce EXCEPT !.account = maps["ALARM EMAIL"]["Host"]]
  /\ UNCHANGED <<moduleName, maps, file, reader, outcome, before, loads>>

InitProcess ==
  /\ main = "process"
  /\ main' = "log"
  /\ inForce' = [inForce EXCEPT !.sendTo["PROCESS ALARM"] =
                                   maps["PROCESS ALARM"]["SendTo"]]
  /\ UNCHANGED <<moduleName, maps, file, reader, outcome, before, loads>>

\* The recipients and the sweep time a module that keeps its old ones has now.
KeptSendTo(m) ==
  IF maps[m]["SendTo"] = {} THEN inForce.sendTo[m] ELSE maps[m]["SendTo"]
KeptSweepTime(m, valid) ==
  IF maps[m]["SweepTime"] \cap valid = {} THEN inForce.sweepTime[m]
  ELSE CHOOSE t \in maps[m]["SweepTime"] : TRUE

\* mutant: whatever SweepTime says is accepted
InitLog_AnyTime ==
  /\ main = "log"
  /\ main' = "system"
  /\ inForce' = [inForce EXCEPT
       !.sendTo["LOG PARSE"] = KeptSendTo("LOG PARSE"),
       !.sweepTime["LOG PARSE"] = KeptSweepTime("LOG PARSE", Times)]
  /\ UNCHANGED <<moduleName, maps, file, reader, outcome, before, loads>>

InitLog ==
  /\ main = "log"
  /\ main' = "system"
  /\ inForce' = [inForce EXCEPT
       !.sendTo["LOG PARSE"] = KeptSendTo("LOG PARSE"),
       !.sweepTime["LOG PARSE"] = KeptSweepTime("LOG PARSE", Nat \ {0})]
  /\ UNCHANGED <<moduleName, maps, file, reader, outcome, before, loads>>

InitSystem ==
  /\ main = "system"
  /\ main' = "idle"
  /\ inForce' = [inForce EXCEPT
       !.sendTo["SYSTEM MONIT"] = KeptSendTo("SYSTEM MONIT"),
       !.sweepTime["SYSTEM MONIT"] = KeptSweepTime("SYSTEM MONIT", Int)]
  /\ outcome' = "ok"
  /\ UNCHANGED <<moduleName, maps, file, reader, before, loads>>

-----------------------------------------------------------------------------
ReadStep ==
  \/ ReadHeader \/ SkipLine \/ ReadEntry \/ ReadInclude \/ Refuse \/ ReadEnd
  \/ IncludedHeader \/ IncludedEntry \/ IncludedEnd
InitConfStep == InitCentre \/ InitProcess \/ InitLog \/ InitSystem

Next ==
  \/ \E f \in Files : Load(f)
  \/ ReadStep
  \/ InitConfStep

Spec == Init /\ [][Next]_vars

\* InitConfig goes on by itself.  When the next SIGUSR1 comes is open.
FairSpec == Spec /\ WF_vars(ReadStep) /\ WF_vars(InitConfStep)

-----------------------------------------------------------------------------
(* What a file says, without reading it line by line.                      *)

Header(f, i) == f[i].kind = "section"

\* The section that line i belongs to, unless an included file has changed it.
SectionOf(f, i) ==
  f[CHOOSE h \in 1 .. i : Header(f, h) /\ \A j \in h + 1 .. i : ~Header(f, j)].name

\* Line i of f, or a line of the file it includes, gives key k.
ValuesAt(f, i, k) ==
  IF f[i].kind = "include" /\ f[i].name \in DOMAIN Includes
  THEN LET g == Includes[f[i].name] IN
         {g[j].val : j \in {n \in DOMAIN g : g[n].kind = "entry" /\ g[n].key = k}}
  ELSE IF f[i].kind = "entry" /\ f[i].key = k THEN {f[i].val} ELSE {}

\* The values that sections S of f give key k.
Given(f, S, k) ==
  UNION {ValuesAt(f, i, k) :
           i \in {n \in DOMAIN f : ~Header(f, n) /\ SectionOf(f, n) \in S}}

\* A file that begins with a header and includes only files without any.
Sectioned(f) ==
  /\ f # <<>> /\ Header(f, 1)
  /\ \A i \in DOMAIN f : f[i].kind = "include" /\ f[i].name \in DOMAIN Includes =>
       \A j \in DOMAIN Includes[f[i].name] : Includes[f[i].name][j].kind # "section"

\* The order of conf/ucAlarm.conf: recipients of all modules come before those
\* of the process monitor and of the log monitor.
DefaultFirst(f) ==
  \A i, j \in DOMAIN f :
    /\ ~Header(f, i) /\ SectionOf(f, i) = "DEFAULT" /\ ValuesAt(f, i, "SendTo") # {}
    /\ ~Header(f, j) /\ SectionOf(f, j) \in {"PROCESS ALARM", "LOG PARSE"}
    /\ ValuesAt(f, j, "SendTo") # {}
    => i < j

-----------------------------------------------------------------------------
(* Properties.                                                             *)

TypeOK ==
  /\ main \in MainPcs
  /\ maps \in [Modules -> [Keys -> SUBSET (Recipients \cup Times \cup Hosts)]]
  /\ file \in Files \cup {<<>>}
  /\ types \in Sections \cup {""}
  /\ inForce.account \subseteq Hosts
  /\ inForce.sendTo \in [Mailers -> SUBSET Recipients]
  /\ inForce.sweepTime \in [{"LOG PARSE", "SYSTEM MONIT"} -> Int]
  /\ outcome \in {"none", "ok", "failed"}
  /\ loads \in 0 .. MaxLoads

Loaded == main = "idle" /\ outcome = "ok"

\* Nobody is forgotten: whatever was loaded before, and in whatever order a
\* sectioned file names them, the recipients of all modules and those of a
\* module get that module's mails.
NobodyForgotten ==
  Loaded /\ Sectioned(file) => \A m \in Mailers :
    Given(file, {"DEFAULT", m}, "SendTo") \subseteq inForce.sendTo[m]

\* Nobody else does: with a file in the order of conf/ucAlarm.conf, a module
\* mails its own recipients and those of all modules and no others.  Nothing
\* is left of earlier loads, of failed ones and of other modules; only the log
\* and the system monitor keep their recipients if the file gives them none.
NobodyElse ==
  Loaded /\ Sectioned(file) /\ DefaultFirst(file) => \A m \in Mailers :
    LET given == Given(file, {"DEFAULT", m}, "SendTo") IN
      inForce.sendTo[m] \subseteq
        IF given = {} /\ m # "PROCESS ALARM" THEN before.sendTo[m] ELSE given

\* The main goroutine, which handles signals and restarts modules, gets out of
\* every load, whatever refuses or skips a line, unless an included file has
\* one that cannot be read (a directory, for example): that alone is tried
\* again for ever.
LoadsEnd == (main = "read") ~> (main \in {"idle", "exited"} \/ Hangs)

\* Without a SweepTime in [LOG PARSE] or [DEFAULT] the log monitor sweeps
\* every three seconds.
SweepTimeDefault ==
  Loaded /\ Sectioned(file) /\ Given(file, {"DEFAULT", "LOG PARSE"}, "SweepTime") = {}
    => inForce.sweepTime["LOG PARSE"] = 3
=============================================================================
