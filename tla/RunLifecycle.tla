---------------------------- MODULE RunLifecycle ----------------------------
(***************************************************************************)
(* What a worker promises its coordinators about the run it holds: a run   *)
(* identifier is adopted once, its phase only moves forward, a terminal    *)
(* phase is final, and a run that is scheduled or running is never         *)
(* displaced by another one.                                               *)
(***************************************************************************)
CONSTANTS Runs, NoRun

VARIABLES run,      \* the run the worker answers for
          phase,    \* its phase, as reported in every status
          seen      \* every run adopted so far

lifecycleVars == <<run, phase, seen>>

Init == run = NoRun /\ phase = "idle" /\ seen = {}

Adopt(r) ==
  /\ r \notin seen
  /\ phase \notin {"scheduled", "running"}
  /\ run' = r /\ phase' = "prepared" /\ seen' = seen \cup {r}

Advance(from, to) ==
  phase = from /\ phase' = to /\ UNCHANGED <<run, seen>>

Next ==
  \/ \E r \in Runs : Adopt(r)
  \/ Advance("prepared", "scheduled")
  \/ Advance("scheduled", "running")
  \/ Advance("running", "stopped")
  \/ Advance("prepared", "stopped")
  \/ Advance("scheduled", "stopped")

Spec == Init /\ [][Next]_lifecycleVars
=============================================================================
