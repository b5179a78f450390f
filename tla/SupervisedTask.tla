--------------------------- MODULE SupervisedTask ---------------------------
(***************************************************************************)
(* What the loop of StartServer (src/src/ucserv/ucserv.go) relies on when  *)
(* it restarts a module whose "run ok" flag is FALSE: at most one          *)
(* goroutine executes the module at a time, the flag is cleared before     *)
(* that goroutine is gone for good, and only the supervisor sets it again. *)
(***************************************************************************)

CONSTANT Workers

VARIABLES
  ok,         \* the flag the supervisor polls
  workers     \* the goroutines that execute the module

vars == <<ok, workers>>

Init ==
  /\ ok = TRUE
  /\ \E w \in Workers : workers = {w}

\* The worker reports that it gives up and returns.
Die(w) ==
  /\ workers = {w}
  /\ workers' = {}
  /\ ok' = FALSE

Rearm ==
  /\ workers = {} /\ ~ok
  /\ ok' = TRUE
  /\ UNCHANGED workers

Launch(w) ==
  /\ workers = {} /\ ok
  /\ workers' = {w}
  /\ UNCHANGED ok

Next == Rearm \/ \E w \in Workers : Die(w) \/ Launch(w)

Spec == Init /\ [][Next]_vars
=============================================================================
