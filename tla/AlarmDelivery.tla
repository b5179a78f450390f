--------------------------- MODULE AlarmDelivery ---------------------------
(***************************************************************************)
(* What the alarm centre promises to the monitors that raise alarms,       *)
(* whatever its channel, goroutines, locks and restarts do: an alarm is    *)
(* accepted or refused once, an accepted alarm gets at most one mail       *)
(* attempt, and an alarm is refused or thrown away only in a process that  *)
(* has been given an incomplete mail configuration ("degraded").           *)
(***************************************************************************)

CONSTANT Alarms

VARIABLES
  fate,       \* fate[a]: how far alarm a has got
  degraded    \* an incomplete [ALARM EMAIL] section has been loaded

vars == <<fate, degraded>>

Fates == {"new", "refused", "accepted", "attempted", "lost"}

Init ==
  /\ fate = [a \in Alarms |-> "new"]
  /\ degraded \in BOOLEAN

Degrade ==
  /\ degraded' = TRUE
  /\ UNCHANGED fate

Accept(a) ==
  /\ fate[a] = "new"
  /\ fate' = [fate EXCEPT ![a] = "accepted"]
  /\ UNCHANGED degraded

Refuse(a) ==
  /\ fate[a] = "new"
  /\ degraded
  /\ fate' = [fate EXCEPT ![a] = "refused"]
  /\ UNCHANGED degraded

Attempt(a) ==
  /\ fate[a] = "accepted"
  /\ fate' = [fate EXCEPT ![a] = "attempted"]
  /\ UNCHANGED degraded

Lose(a) ==
  /\ fate[a] = "accepted"
  /\ degraded
  /\ fate' = [fate EXCEPT ![a] = "lost"]
  /\ UNCHANGED degraded

Next ==
  \/ Degrade
  \/ \E a \in Alarms : Accept(a) \/ Refuse(a) \/ Attempt(a) \/ Lose(a)

Spec == Init /\ [][Next]_vars
=============================================================================
