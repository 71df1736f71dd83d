---------------------------- MODULE VUScheduler ----------------------------
(***************************************************************************)
(* The virtual-user profiles of the engine (src/internal/engine/           *)
(* scheduler.go runVUProfile, runVUWorker, waitForVUWorkers).              *)
(*                                                                         *)
(* One scheduler goroutine activates and retires N virtual users; each VU  *)
(* is a goroutine that iterates while it is active. They share, per VU,    *)
(* two atomics (active, busy), a wake channel of one, and the cancel       *)
(* function of the context the VU's iterations run under.                  *)
(*                                                                         *)
(* The profile is abstracted: every tick of the scheduler may ask for any  *)
(* target, and its deadline may come at any tick. Time is kept only in the *)
(* order of retirement deadlines (DueSets). gracefulStop is 0 only for the *)
(* profiles of compileLegacyLoadProfile, whose target never decreases      *)
(* before the deadline; compileLoadProfile makes it positive.              *)
(***************************************************************************)
EXTENDS Naturals

CONSTANT N   \* profile.maxWorkers

ASSUME NAssumption == N \in Nat \ {0}

VUs == 1 .. N

VARIABLES
  graceful,                 \* profile.gracefulStop > 0, fixed for a run
  sched,                    \* pc of the scheduler
  target, currentTarget,    \* the target being applied and the one applied last
  cursor,                   \* the VU that reconcile, or the idle scan, is at
  retired,                  \* the keys of retireAt
  due,                      \* those whose deadline passed, in forceRetiredWorkers
  draining,                 \* the profile deadline has passed
  ctxDone,                  \* the engine's context is cancelled
  active, busy, wake,       \* the fields of each vuWorkerControl
  registered,               \* what control.cancel cancels: nothing, a context
                            \* already given up, or the current workerCtx
  vu,                       \* pc of each VU
  own,                      \* its workerCtx was cancelled
  reset,                    \* its resetWorkerContext
  completed                 \* its last iteration was not cancelled

schedVars == <<graceful, sched, target, currentTarget, cursor, retired, due, draining>>
controlVars == <<active, busy, wake, registered>>
vuVars == <<vu, own, reset, completed>>
vars == <<schedVars, ctxDone, controlVars, vuVars>>

SchedPCs == {"reconcile", "wake", "select", "retire", "scan", "cancel", "drain", "returned"}
VUPCs == {"new", "loop", "load", "park", "renew", "renewed", "claim", "recheck", "release",
          "iterate", "finish", "after", "exit"}

\* The type of every variable.
TypeOK ==
  /\ graceful \in BOOLEAN /\ sched \in SchedPCs
  /\ target \in 0 .. N /\ currentTarget \in 0 .. N /\ cursor \in 1 .. N + 1
  /\ due \subseteq retired /\ retired \subseteq VUs
  /\ draining \in BOOLEAN /\ ctxDone \in BOOLEAN
  /\ active \in [VUs -> BOOLEAN] /\ busy \in [VUs -> BOOLEAN]
  /\ wake \in [VUs -> 0 .. 1]
  /\ registered \in [VUs -> {"nil", "old", "current"}]
  /\ vu \in [VUs -> VUPCs]
  /\ own \in [VUs -> BOOLEAN] /\ reset \in [VUs -> BOOLEAN]
  /\ completed \in [VUs -> BOOLEAN]

\* runVUProfile has spawned the VUs and begins reconcile(virtualUsersAt(0)).
Init ==
  /\ graceful \in BOOLEAN
  /\ sched = "reconcile" /\ target \in 0 .. N /\ currentTarget = 0 /\ cursor = 1
  /\ retired = {} /\ due = {} /\ draining = FALSE /\ ctxDone = FALSE
  /\ active = [w \in VUs |-> FALSE] /\ busy = [w \in VUs |-> FALSE]
  /\ wake = [w \in VUs |-> 0] /\ registered = [w \in VUs |-> "nil"]
  /\ vu = [w \in VUs |-> "new"]
  /\ own = [w \in VUs |-> FALSE] /\ reset = [w \in VUs |-> FALSE]
  /\ completed = [w \in VUs |-> TRUE]

-----------------------------------------------------------------------------
(* The scheduler goroutine.                                                *)

\* reconcile visits the VUs between the two targets in ascending order.
Reconcile(newTarget) ==
  /\ sched' = "reconcile"
  /\ target' = newTarget
  /\ cursor' = (IF newTarget < currentTarget THEN newTarget ELSE currentTarget) + 1

\* setActive(true): first the flag ...
Activate ==
  /\ sched = "reconcile" /\ currentTarget < cursor /\ cursor <= target
  /\ retired' = retired \ {cursor}
  /\ due' = due \ {cursor}
  /\ active' = [active EXCEPT ![cursor] = TRUE]
  /\ sched' = "wake"
  /\ UNCHANGED <<graceful, target, currentTarget, cursor, draining, ctxDone, busy, wake,
                 registered, vuVars>>

\* Mutant of WakeVU: only the flag is set.
WakeVUSkipped ==
  /\ sched = "wake"
  /\ sched' = "reconcile"
  /\ cursor' = cursor + 1
  /\ UNCHANGED <<graceful, target, currentTarget, retired, due, draining, ctxDone,
                 controlVars, vuVars>>

\* Mutant of WakeVU: every activation leaves a token of its own.
WakeVUAlways ==
  /\ sched = "wake"
  /\ wake' = [wake EXCEPT ![cursor] = @ + 1]
  /\ sched' = "reconcile"
  /\ cursor' = cursor + 1
  /\ UNCHANGED <<graceful, target, currentTarget, retired, due, draining, ctxDone, active,
                 busy, registered, vuVars>>

\* ... then the wake token, dropped when one is pending.
WakeVU ==
  /\ sched = "wake"
  /\ wake' = [wake EXCEPT ![cursor] = 1]
  /\ sched' = "reconcile"
  /\ cursor' = cursor + 1
  /\ UNCHANGED <<graceful, target, currentTarget, retired, due, draining, ctxDone, active,
                 busy, registered, vuVars>>

\* setActive(false) and the retirement deadline.
Deactivate ==
  /\ sched = "reconcile" /\ target < cursor /\ cursor <= currentTarget
  /\ active' = [active EXCEPT ![cursor] = FALSE]
  /\ retired' = retired \cup {cursor}
  /\ cursor' = cursor + 1
  /\ UNCHANGED <<graceful, sched, target, currentTarget, due, draining, ctxDone, busy, wake,
                 registered, vuVars>>

\* A tick goes on to forceRetiredWorkers, the deadline to waitForVUWorkers.
Reconciled ==
  /\ sched = "reconcile" /\ cursor > target /\ cursor > currentTarget
  /\ currentTarget' = target
  /\ cursor' = 1
  /\ sched' = IF draining THEN "scan" ELSE "retire"
  /\ UNCHANGED <<graceful, target, retired, due, draining, ctxDone, controlVars, vuVars>>

\* The retired VUs whose deadline has passed. Active VUs are a prefix of the
\* VUs, so of two retired ones the higher was retired no later than the lower.
DueSets == {d \in SUBSET retired : \A v \in d, w \in retired : w > v => w \in d}

Tick ==
  /\ sched = "select"
  /\ \E t \in 0 .. N : (graceful \/ t >= currentTarget) /\ Reconcile(t)
  /\ due' \in DueSets
  /\ UNCHANGED <<graceful, currentTarget, retired, draining, ctxDone, controlVars, vuVars>>

Deadline ==
  /\ sched = "select"
  /\ Reconcile(0)
  /\ draining' = TRUE
  /\ UNCHANGED <<graceful, currentTarget, retired, due, ctxDone, controlVars, vuVars>>

\* forceRetire holds control.mu: the flag is checked and the registered context
\* cancelled in one step.
ForceRetire(w) ==
  /\ sched = "retire" /\ w \in due
  /\ own' = [own EXCEPT ![w] = @ \/ (~active[w] /\ registered[w] = "current")]
  /\ retired' = retired \ {w}
  /\ due' = due \ {w}
  /\ UNCHANGED <<graceful, sched, target, currentTarget, cursor, draining, ctxDone,
                 controlVars, vu, reset, completed>>

Retired ==
  /\ sched = "retire" /\ due = {}
  /\ sched' = IF draining THEN "scan" ELSE "select"
  /\ cursor' = 1
  /\ UNCHANGED <<graceful, target, currentTarget, retired, due, draining, ctxDone,
                 controlVars, vuVars>>

\* allVUWorkersIdle loads one busy flag after the other.
Scan ==
  /\ sched = "scan" /\ cursor <= N
  /\ IF busy[cursor] THEN sched' = "drain" /\ UNCHANGED cursor
     ELSE UNCHANGED sched /\ cursor' = cursor + 1
  /\ UNCHANGED <<graceful, target, currentTarget, retired, due, draining, ctxDone,
                 controlVars, vuVars>>

AllIdle ==
  /\ sched = "scan" /\ cursor = N + 1
  /\ sched' = "cancel"
  /\ UNCHANGED <<graceful, target, currentTarget, cursor, retired, due, draining, ctxDone,
                 controlVars, vuVars>>

CancelIdle ==
  /\ sched = "cancel"
  /\ ctxDone' = TRUE
  /\ sched' = "returned"
  /\ UNCHANGED <<graceful, target, currentTarget, cursor, retired, due, draining,
                 controlVars, vuVars>>

DrainTick ==
  /\ sched = "drain" /\ graceful
  /\ sched' = "retire"
  /\ due' \in DueSets
  /\ UNCHANGED <<graceful, target, currentTarget, cursor, retired, draining, ctxDone,
                 controlVars, vuVars>>

\* Mutant of DrainTimeout: the scheduler leaves without cancelling.
DrainTimeoutNoCancel ==
  /\ sched = "drain"
  /\ sched' = "returned"
  /\ UNCHANGED <<graceful, target, currentTarget, cursor, retired, due, draining, ctxDone,
                 controlVars, vuVars>>

\* The drain window is over, at once when there is none.
DrainTimeout ==
  /\ sched = "drain"
  /\ ctxDone' = TRUE
  /\ sched' = "returned"
  /\ UNCHANGED <<graceful, target, currentTarget, cursor, retired, due, draining,
                 controlVars, vuVars>>

SchedulerCancelled ==
  /\ sched \in {"select", "drain"} /\ ctxDone
  /\ sched' = "returned"
  /\ UNCHANGED <<graceful, target, currentTarget, cursor, retired, due, draining, ctxDone,
                 controlVars, vuVars>>

\* Engine.Stop, or the context given to Engine.Start.
CancelRun ==
  /\ ~ctxDone
  /\ ctxDone' = TRUE
  /\ UNCHANGED <<schedVars, controlVars, vuVars>>

-----------------------------------------------------------------------------
(* A virtual user, runVUWorker.                                            *)

VUFrame == UNCHANGED <<schedVars, ctxDone, active>>

VUStep(w, from, to) == vu[w] = from /\ vu' = [vu EXCEPT ![w] = to]

\* Mutant of SetCancel: only the first context is registered.
SetCancelOnce(w) ==
  /\ VUFrame /\ UNCHANGED <<busy, wake, own, reset, completed>>
  /\ \/ /\ VUStep(w, "new", "loop")
        /\ registered' = [registered EXCEPT ![w] = "current"]
     \/ VUStep(w, "renewed", "claim") /\ UNCHANGED registered

\* The cancel function of a new worker context is registered under control.mu.
SetCancel(w) ==
  /\ VUStep(w, "new", "loop") \/ VUStep(w, "renewed", "claim")
  /\ registered' = [registered EXCEPT ![w] = "current"]
  /\ VUFrame /\ UNCHANGED <<busy, wake, own, reset, completed>>

\* waitActive looks at the engine's context, then at the flag, then waits.
WaitActive(w) ==
  /\ \/ VUStep(w, "loop", IF ctxDone THEN "exit" ELSE "load")
     \/ VUStep(w, "load", IF ~active[w] THEN "park" ELSE IF reset[w] THEN "renew" ELSE "claim")
     \/ ctxDone /\ VUStep(w, "park", "exit")
  /\ VUFrame /\ UNCHANGED <<busy, wake, registered, own, reset, completed>>

Woken(w) ==
  /\ VUStep(w, "park", "loop")
  /\ wake[w] = 1
  /\ wake' = [wake EXCEPT ![w] = 0]
  /\ VUFrame /\ UNCHANGED <<busy, registered, own, reset, completed>>

\* A fresh workerCtx; control.cancel still belongs to the one it replaces.
RenewContext(w) ==
  /\ VUStep(w, "renew", "renewed")
  /\ own' = [own EXCEPT ![w] = FALSE]
  /\ registered' = [registered EXCEPT ![w] = "old"]
  /\ reset' = [reset EXCEPT ![w] = FALSE]
  /\ VUFrame /\ UNCHANGED <<busy, wake, completed>>

Claim(w) ==
  /\ VUStep(w, "claim", "recheck")
  /\ busy' = [busy EXCEPT ![w] = TRUE]
  /\ VUFrame /\ UNCHANGED <<wake, registered, own, reset, completed>>

\* Mutant of Recheck: the flag seen by waitActive is trusted.
RecheckSkipped(w) ==
  /\ VUStep(w, "recheck", "iterate")
  /\ VUFrame /\ UNCHANGED <<busy, wake, registered, own, reset, completed>>

\* The flag is loaded again after busy was stored.
Recheck(w) ==
  /\ VUStep(w, "recheck", IF active[w] THEN "iterate" ELSE "release")
  /\ VUFrame /\ UNCHANGED <<busy, wake, registered, own, reset, completed>>

\* runIteration returns: it always may run to its end, since only delays and
\* the rate limiter look at the context, and is cut only when cancelled.
Cut(w) == own[w] \/ ctxDone

IterationEnds(w) ==
  /\ VUStep(w, "iterate", "finish")
  /\ \E result \in {TRUE} \cup (IF Cut(w) THEN {FALSE} ELSE {}) :
       completed' = [completed EXCEPT ![w] = result]
  /\ VUFrame /\ UNCHANGED <<busy, wake, registered, own, reset>>

ClearBusy(w) ==
  /\ VUStep(w, "finish", "after") \/ VUStep(w, "release", "loop")
  /\ busy' = [busy EXCEPT ![w] = FALSE]
  /\ VUFrame /\ UNCHANGED <<wake, registered, own, reset, completed>>

AfterIteration(w) ==
  /\ VUStep(w, "after", IF ~completed[w] /\ ctxDone THEN "exit" ELSE "loop")
  /\ reset' = [reset EXCEPT ![w] = ~completed[w]]
  /\ VUFrame /\ UNCHANGED <<busy, wake, registered, own, completed>>

-----------------------------------------------------------------------------
SchedulerStep ==
  \/ Activate \/ WakeVU \/ Deactivate \/ Reconciled
  \/ \E w \in VUs : ForceRetire(w)
  \/ Retired \/ Scan \/ AllIdle \/ CancelIdle \/ SchedulerCancelled

Timers == Tick \/ Deadline \/ DrainTick \/ DrainTimeout

VUNext(w) ==
  \/ SetCancel(w) \/ WaitActive(w) \/ Woken(w) \/ RenewContext(w) \/ Claim(w) \/ Recheck(w)
  \/ ClearBusy(w) \/ AfterIteration(w)

Next ==
  \/ SchedulerStep \/ Timers \/ CancelRun
  \/ \E w \in VUs : VUNext(w) \/ IterationEnds(w)

\* Runnable goroutines run. The profile has a finite duration (preflight.go
\* demands one), and Go's select picks uniformly among ready cases, so the two
\* timers are not overtaken by the ticker for ever. Only a cancelled iteration
\* has to end: one that waits for a rate-limit permit may starve.
Fairness ==
  /\ WF_vars(SchedulerStep) /\ SF_vars(Deadline) /\ SF_vars(DrainTimeout)
  /\ SF_vars(SchedulerCancelled)
  /\ \A w \in VUs : WF_vars(VUNext(w)) /\ WF_vars(Cut(w) /\ IterationEnds(w))

Spec == Init /\ [][Next]_vars /\ Fairness

-----------------------------------------------------------------------------
(* Safety.                                                                 *)

Iterating(w) == vu[w] = "iterate"

\* README.md 97-99: once the graceful-stop window of a retired VU is over, the
\* context of whatever it still runs is cancelled, also when the VU was just
\* replacing its context or about to begin an iteration while it was retired.
RetiredIsCut ==
  \A w \in VUs : Iterating(w) /\ ~active[w] /\ w \notin retired => Cut(w)

\* The engine is cancelled early, before the drain window ends, only if no VU
\* is iterating and none will begin: the scan of the busy flags misses nobody
\* who saw its active flag before it was cleared.
IdleVerdictIsTrue ==
  sched = "cancel" => \A w \in VUs : ~Iterating(w)

\* No wake-up is lost: a VU that is active but asleep has a token waiting for
\* it, or the scheduler is about to send one, whatever tokens earlier
\* activations left behind.
NoLostWakeup ==
  \A w \in VUs : active[w] /\ vu[w] = "park" => wake[w] = 1 \/ (sched = "wake" /\ cursor = w)

\* The inductive invariant of VUSchedulerProofs.

\* control.cancel is that of the current context but while it is replaced.
RegisteredOK ==
  \A w \in VUs : /\ registered[w] = "nil" <=> vu[w] = "new"
                 /\ registered[w] = "old" <=> vu[w] = "renewed"

\* Those in front of the cursor follow the new target, the rest the old one.
Visited(w) == w < cursor \/ (sched = "wake" /\ w = cursor)

ActiveOK ==
  /\ sched = "wake" => currentTarget < cursor /\ cursor <= target
  /\ sched \in {"reconcile", "wake"} =>
       \A w \in VUs : active[w] <=> w <= (IF Visited(w) THEN target ELSE currentTarget)
  /\ sched \notin {"reconcile", "wake"} =>
       target = currentTarget /\ \A w \in VUs : active[w] <=> w <= target

DrainingOK ==
  /\ draining => target = 0 /\ sched # "select"
  /\ sched \in {"scan", "cancel", "drain"} => draining

\* A VU the scan has passed does not iterate, since it was not busy and is
\* retired.
ScanOK ==
  /\ \A w \in VUs : vu[w] \in {"recheck", "iterate"} => busy[w]
  /\ sched = "scan" => \A w \in VUs : w < cursor => ~Iterating(w)

\* What the scheduler and the VUs keep between them at every step: the prefix
\* of active VUs, the contexts registered, and what the idle scan has passed.
IInv ==
  TypeOK /\ RegisteredOK /\ ActiveOK /\ DrainingOK /\ ScanOK
    /\ RetiredIsCut /\ IdleVerdictIsTrue /\ NoLostWakeup

\* README.md 97-99: an iteration that an active VU begins may run until the
\* graceful-stop window of a later ramp-down is over; its context is not
\* cancelled before it begins.
FreshContext ==
  [][\A w \in VUs : ~Iterating(w) /\ Iterating(w)' /\ own[w] => ctxDone]_vars

(* Liveness.                                                               *)

\* The engine ends: after the profile's deadline or a Stop the scheduler and
\* every VU return.
EngineEnds == <>(sched = "returned" /\ \A w \in VUs : vu[w] = "exit")
=============================================================================
