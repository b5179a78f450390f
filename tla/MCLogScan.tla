----------------------------- MODULE MCLogScan -----------------------------
(* Lines for TLC: one with both keywords, one without brackets whose minute *)
(* and second look like the second window of a day, and one with nothing    *)
(* behind its brackets that names the second day.                           *)
EXTENDS LogScan

CONSTANTS k1, k2, t1

MCKeywords == {k1, k2}
MCKinds == {[keys |-> {k1, k2}, text |-> t1, days |-> {}, windows |-> {}],
            [keys |-> {k2}, text |-> Plain, days |-> {}, windows |-> {2}],
            [keys |-> {k1}, text |-> Empty, days |-> {2}, windows |-> {}]}
=============================================================================
