------------------------------ MODULE MCConfig ------------------------------
(* Files for the runs of Config: every sequence of at most three lines, and *)
(* longer ones in which two modules have recipients.                        *)
EXTENDS Config, TLC

CONSTANTS a, b, h

Section(n) == [kind |-> "section", name |-> n]
Entry(k, v) == [kind |-> "entry", key |-> k, val |-> v]
Include(n) == [kind |-> "include", name |-> n]
Broken == [kind |-> "broken"]

D == Section("DEFAULT")
E == Section("ALARM EMAIL")
P == Section("PROCESS ALARM")
L == Section("LOG PARSE")
S == Section("SYSTEM MONIT")
U == Section("BUSINESS MONIT")
ToA == Entry("SendTo", a)
ToB == Entry("SendTo", b)

\* An included file with recipients, one with a header, and one of which only
\* the first line can be read.
IncludedFiles == "more" :> <<ToB, Entry("SweepTime", 0)>> @@ "header" :> <<U, ToA>>
                 @@ "bad" :> <<ToB, Broken>>

Lines == {D, P, U, ToA, ToB, Include("more")}
ShortFiles == {<<>>} \cup {<<x>> : x \in Lines} \cup {<<x, y>> : x, y \in Lines}
              \cup {<<x, y, z>> : x, y, z \in Lines}

LongFiles == {
  <<D, ToA, P, ToB>>, <<D, ToA, L, ToB, S, ToB>>, <<P, ToA, D, ToB, L, ToA>>,
  <<S, ToA, D, ToB, P, Include("more")>>, <<D, Include("more"), P, ToA, ToB, U>>,
  <<D, ToA, Include("none"), L, Include("more"), S, Include("more")>>,
  <<D, ToB, Include("header")>>, <<D, ToA, Include("bad"), ToB>>, <<P, ToA, Include("header"), ToB>>,
  <<E, Entry("Host", h), Include("more"), D, ToA, Broken>>,
  <<E, Entry("Host", h), D, ToB, Entry("SweepTime", NoNumber)>>,
  <<D, Entry("Host", h), ToA, L, Entry("SweepTime", 7)>>}

TimesUsed == {0, 7, NoNumber}

AllFiles == ShortFiles \cup LongFiles
=============================================================================
