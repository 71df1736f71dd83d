-------------------------- MODULE ArrivalScheduler --------------------------
(***************************************************************************)
(* The arrival-rate profiles of the engine (src/internal/engine/           *)
(* scheduler.go runArrivalProfile, runArrivalWorker,                       *)
(* waitForProfileWorkers).                                                 *)
(*                                                                         *)
(* Every tick the scheduler hands the arrivals that have become due to     *)
(* idle workers, starts new workers up to maxWorkers, and drops the rest.  *)
(* A worker announces itself by putting its own jobs channel into ready,   *)
(* the scheduler keeps announced channels on the stack idle, and a job is  *)
(* a rendezvous on the worker's channel.                                   *)
(*                                                                         *)
(* A worker stands for its jobs channel. The rate curve is abstracted: at  *)
(* a tick any number of the Total arrivals may be due, at the deadline all *)
(* of them are (arrivalsThrough is monotone and capped at the duration).   *)
(***************************************************************************)
EXTENDS Naturals, SequencesExt

CONSTANTS PreAllocatedVUs, MaxVUs,   \* of the profile, validateArrivalWorkers
          Total                      \* arrivalsThrough(duration)

ASSUME WorkersAssumption ==
  /\ PreAllocatedVUs \in Nat \ {0} /\ MaxVUs \in Nat /\ PreAllocatedVUs <= MaxVUs
ASSUME TotalAssumption == Total \in Nat

\* Each arrival starts at most one worker besides the preallocated ones.
Workers == 1 .. PreAllocatedVUs + Total

VARIABLES
  sched,          \* pc of the scheduler
  scheduled,      \* its scheduled
  count,          \* arrivals that dispatch has yet to place
  target,         \* the worker whose channel dispatch is sending on
  deadline,       \* the profile's deadline has passed
  idle, ready,    \* jobs channels: the local stack, the buffered channel
  done,           \* completions in workerDone
  liveWorkers, nextWorker,
  stopped,        \* stop is closed
  ctxDone,        \* the engine's context is cancelled
  worker,         \* pc of each worker
  dropped,        \* stats.droppedIterations
  begun,          \* history: iterations begun
  aborted,        \* history: dispatch left arrivals unplaced, as ctx was done
  waiting         \* history: workers waiting for a job since dispatch began

schedVars == <<sched, scheduled, count, target, deadline, idle, liveWorkers, nextWorker, stopped>>
channelVars == <<ready, done>>
historyVars == <<begun, aborted, waiting>>
vars == <<schedVars, channelVars, ctxDone, worker, dropped, historyVars>>

\* The type of every variable.
TypeOK ==
  /\ sched \in {"gather", "select", "drainReady", "dispatch", "handoff", "stop", "wait", "returned"}
  /\ scheduled \in 0 .. Total /\ count \in 0 .. Total
  /\ target \in Workers \cup {0}
  /\ deadline \in BOOLEAN /\ stopped \in BOOLEAN /\ ctxDone \in BOOLEAN
  /\ idle \in Seq(Workers) /\ ready \in Seq(Workers)
  /\ done \in 0 .. MaxVUs /\ Len(ready) <= MaxVUs
  /\ liveWorkers \in 0 .. MaxVUs /\ nextWorker \in 0 .. PreAllocatedVUs + Total
  /\ worker \in [Workers -> {"none", "initial", "iterate", "offer", "await", "leave", "exit"}]
  /\ dropped \in 0 .. Total /\ begun \in 0 .. Total
  /\ aborted \in BOOLEAN /\ waiting \subseteq Workers

\* The preallocated workers are started, none has announced itself.
Init ==
  /\ sched = "gather" /\ scheduled = 0 /\ count = 0 /\ target = 0 /\ deadline = FALSE
  /\ idle = <<>> /\ ready = <<>> /\ done = 0
  /\ liveWorkers = PreAllocatedVUs /\ nextWorker = PreAllocatedVUs
  /\ stopped = FALSE /\ ctxDone = FALSE
  /\ worker = [w \in Workers |-> IF w <= PreAllocatedVUs THEN "offer" ELSE "none"]
  /\ dropped = 0 /\ begun = 0 /\ aborted = FALSE /\ waiting = {}

-----------------------------------------------------------------------------
(* The scheduler goroutine.                                                *)

TakeReady ==
  /\ ready # <<>>
  /\ idle' = Append(idle, Head(ready))
  /\ ready' = Tail(ready)
  /\ UNCHANGED <<done, liveWorkers>>

TakeDone ==
  /\ done > 0
  /\ done' = done - 1
  /\ liveWorkers' = liveWorkers - 1
  /\ UNCHANGED <<idle, ready>>

CollectFrame ==
  UNCHANGED <<scheduled, count, target, deadline, nextWorker, stopped, ctxDone, worker, dropped,
              historyVars>>

\* Before the profile begins, every preallocated worker announces itself.
Gather ==
  /\ sched = "gather"
  /\ IF Len(idle) < PreAllocatedVUs THEN TakeReady /\ UNCHANGED sched
     ELSE sched' = "select" /\ UNCHANGED <<idle, channelVars, liveWorkers>>
  /\ CollectFrame

\* The select of the main loop, and the drain before a dispatch.
Collect ==
  /\ sched \in {"select", "drainReady"}
  /\ TakeReady \/ TakeDone
  /\ UNCHANGED sched
  /\ CollectFrame

\* Workers that wait, or are about to wait, for a job.
Announced == {w \in Workers : worker[w] = "await"}

Dispatch(expected) ==
  /\ count' = expected - scheduled
  /\ scheduled' = expected
  /\ waiting' = Announced
  /\ sched' = "drainReady"
  /\ UNCHANGED <<target, idle, channelVars, liveWorkers, nextWorker, stopped, ctxDone, worker,
                 dropped, begun, aborted>>

Tick ==
  /\ sched = "select"
  /\ \E expected \in scheduled + 1 .. Total : Dispatch(expected)
  /\ UNCHANGED deadline

Deadline ==
  /\ sched = "select"
  /\ deadline' = TRUE
  /\ IF scheduled < Total THEN Dispatch(Total)
     ELSE sched' = "stop" /\ UNCHANGED <<scheduled, count, target, idle, channelVars, liveWorkers,
                                        nextWorker, stopped, ctxDone, worker, dropped, historyVars>>

\* Mutant of Drained: dispatch looks at idle before it has emptied ready.
DrainedEarly ==
  /\ sched = "drainReady"
  /\ sched' = "dispatch"
  /\ UNCHANGED <<idle, channelVars, liveWorkers>> /\ CollectFrame

Drained ==
  /\ sched = "drainReady"
  /\ ready = <<>> /\ done = 0
  /\ sched' = "dispatch"
  /\ UNCHANGED <<idle, channelVars, liveWorkers>> /\ CollectFrame

\* Mutant of PopIdle: the channel stays on the stack.
PopIdleKeeps ==
  /\ sched = "dispatch" /\ count > 0
  /\ idle # <<>>
  /\ target' = idle[Len(idle)]
  /\ sched' = "handoff"
  /\ UNCHANGED <<scheduled, count, deadline, idle, channelVars, liveWorkers, nextWorker, stopped,
                 ctxDone, worker, dropped, historyVars>>

\* The channel announced last is taken from the stack; the send then waits for
\* its worker or for the context.
PopIdle ==
  /\ sched = "dispatch" /\ count > 0
  /\ idle # <<>>
  /\ target' = idle[Len(idle)]
  /\ idle' = SubSeq(idle, 1, Len(idle) - 1)
  /\ sched' = "handoff"
  /\ UNCHANGED <<scheduled, count, deadline, channelVars, liveWorkers, nextWorker, stopped, ctxDone,
                 worker, dropped, historyVars>>

\* The rendezvous: the worker receives the job and runs an iteration.
Handoff ==
  /\ sched = "handoff" /\ worker[target] = "await"
  /\ worker' = [worker EXCEPT ![target] = "iterate"]
  /\ begun' = begun + 1
  /\ waiting' = waiting \ {target}
  /\ count' = count - 1
  /\ target' = 0
  /\ sched' = "dispatch"
  /\ UNCHANGED <<scheduled, deadline, idle, channelVars, liveWorkers, nextWorker, stopped, ctxDone,
                 dropped, aborted>>

\* Where dispatch returns to: the main loop, or the end of the profile.
AfterDispatch == IF deadline THEN "stop" ELSE "select"

HandoffCancelled ==
  /\ sched = "handoff" /\ ctxDone
  /\ aborted' = TRUE
  /\ count' = 0 /\ target' = 0
  /\ sched' = AfterDispatch
  /\ UNCHANGED <<scheduled, deadline, idle, channelVars, liveWorkers, nextWorker, stopped, ctxDone,
                 worker, dropped, begun, waiting>>

\* Mutant of HasCapacity: one worker too many.
HasCapacityOffByOne == liveWorkers <= MaxVUs

HasCapacity == liveWorkers < MaxVUs

\* Mutant of GrowPool: the arrival that starts a worker is placed again.
GrowPoolUncounted ==
  /\ sched = "dispatch" /\ count > 0
  /\ idle = <<>> /\ HasCapacity
  /\ nextWorker < PreAllocatedVUs + Total
  /\ nextWorker' = nextWorker + 1
  /\ liveWorkers' = liveWorkers + 1
  /\ worker' = [worker EXCEPT ![nextWorker + 1] = "initial"]
  /\ UNCHANGED <<sched, scheduled, count, target, deadline, idle, channelVars, stopped, ctxDone,
                 dropped, historyVars>>

\* Mutant of GrowPool: the new worker is not counted as live.
GrowPoolNotLive ==
  /\ sched = "dispatch" /\ count > 0
  /\ idle = <<>> /\ HasCapacity
  /\ nextWorker' = nextWorker + 1
  /\ worker' = [worker EXCEPT ![nextWorker + 1] = "initial"]
  /\ count' = count - 1
  /\ UNCHANGED <<sched, scheduled, target, deadline, idle, channelVars, liveWorkers, stopped,
                 ctxDone, dropped, historyVars>>

\* A new worker begins with an iteration of its own.
GrowPool ==
  /\ sched = "dispatch" /\ count > 0
  /\ idle = <<>> /\ HasCapacity
  /\ nextWorker' = nextWorker + 1
  /\ liveWorkers' = liveWorkers + 1
  /\ worker' = [worker EXCEPT ![nextWorker + 1] = "initial"]
  /\ count' = count - 1
  /\ UNCHANGED <<sched, scheduled, target, deadline, idle, channelVars, stopped, ctxDone, dropped,
                 historyVars>>

Drop ==
  /\ sched = "dispatch" /\ count > 0
  /\ idle = <<>> /\ ~HasCapacity
  /\ dropped' = dropped + count
  /\ count' = 0
  /\ sched' = AfterDispatch
  /\ UNCHANGED <<scheduled, target, deadline, idle, channelVars, liveWorkers, nextWorker, stopped,
                 ctxDone, worker, historyVars>>

Dispatched ==
  /\ sched = "dispatch" /\ count = 0
  /\ sched' = AfterDispatch
  /\ UNCHANGED <<scheduled, count, target, deadline, idle, channelVars, liveWorkers, nextWorker,
                 stopped, ctxDone, worker, dropped, historyVars>>

CloseStop ==
  /\ sched = "stop"
  /\ stopped' = TRUE
  /\ sched' = "wait"
  /\ UNCHANGED <<scheduled, count, target, deadline, idle, channelVars, liveWorkers, nextWorker,
                 ctxDone, worker, dropped, historyVars>>

DrainFrame ==
  UNCHANGED <<scheduled, count, target, deadline, idle, ready, nextWorker, stopped, worker, dropped,
              historyVars>>

\* waitForProfileWorkers: count the workers out, then cancel.
AwaitWorker ==
  /\ sched = "wait" /\ liveWorkers > 0
  /\ TakeDone
  /\ UNCHANGED <<sched, ctxDone>> /\ DrainFrame

WorkersGone ==
  /\ sched = "wait" /\ liveWorkers = 0
  /\ ctxDone' = TRUE
  /\ sched' = "returned"
  /\ UNCHANGED <<done, liveWorkers>> /\ DrainFrame

\* The graceful-stop timer.
DrainTimeout ==
  /\ sched = "wait" /\ liveWorkers > 0
  /\ ctxDone' = TRUE
  /\ sched' = "returned"
  /\ UNCHANGED <<done, liveWorkers>> /\ DrainFrame

SchedulerCancelled ==
  /\ ctxDone
  /\ \/ sched = "gather" /\ Len(idle) < PreAllocatedVUs
     \/ sched = "select"
     \/ sched = "wait" /\ liveWorkers > 0
  /\ sched' = "returned"
  /\ UNCHANGED <<ctxDone, done, liveWorkers>> /\ DrainFrame

\* Engine.Stop, or the context given to Engine.Start.
CancelRun ==
  /\ ~ctxDone
  /\ ctxDone' = TRUE
  /\ UNCHANGED <<schedVars, channelVars, worker, dropped, historyVars>>

-----------------------------------------------------------------------------
(* A worker, runArrivalWorker.                                             *)

WorkerStep(w, from, to) == worker[w] = from /\ worker' = [worker EXCEPT ![w] = to]

WorkerFrame == UNCHANGED <<schedVars, ctxDone, dropped, aborted, waiting>>

BeginInitial(w) ==
  /\ WorkerStep(w, "initial", "iterate")
  /\ begun' = begun + 1
  /\ WorkerFrame /\ UNCHANGED channelVars

\* runIteration returns, with false only under a cancelled context.
IterationEnds(w) ==
  /\ WorkerStep(w, "iterate", "offer") \/ (ctxDone /\ WorkerStep(w, "iterate", "leave"))
  /\ WorkerFrame /\ UNCHANGED <<channelVars, begun>>

\* Send on ready, a buffered channel of maxWorkers.
Offer(w) ==
  /\ WorkerStep(w, "offer", "await")
  /\ Len(ready) < MaxVUs
  /\ ready' = Append(ready, w)
  /\ WorkerFrame /\ UNCHANGED <<done, begun>>

\* Either wait also ends with the context or with stop.
Leave(w) ==
  /\ ctxDone \/ stopped
  /\ WorkerStep(w, "offer", "leave") \/ WorkerStep(w, "await", "leave")
  /\ WorkerFrame /\ UNCHANGED <<channelVars, begun>>

\* The deferred send on workerDone, a buffered channel of maxWorkers, which
\* nobody receives from once the scheduler has returned.
SendDone(w) ==
  /\ WorkerStep(w, "leave", "exit")
  /\ done < MaxVUs
  /\ done' = done + 1
  /\ WorkerFrame /\ UNCHANGED <<ready, begun>>

-----------------------------------------------------------------------------
SchedulerStep ==
  \/ Gather \/ Collect \/ Drained \/ PopIdle \/ Handoff \/ HandoffCancelled \/ GrowPool \/ Drop
  \/ Dispatched \/ CloseStop \/ AwaitWorker \/ WorkersGone \/ SchedulerCancelled

WorkerNext(w) == BeginInitial(w) \/ Offer(w) \/ Leave(w) \/ SendDone(w)

Next ==
  \/ SchedulerStep \/ Tick \/ Deadline \/ DrainTimeout \/ CancelRun
  \/ \E w \in Workers : WorkerNext(w) \/ IterationEnds(w)

\* Runnable goroutines run, timers fire and are not overtaken for ever by the
\* other cases of their select. Only a cancelled iteration has to end.
Fairness ==
  /\ WF_vars(SchedulerStep) /\ SF_vars(Deadline) /\ SF_vars(DrainTimeout)
  /\ SF_vars(SchedulerCancelled)
  /\ \A w \in Workers : WF_vars(WorkerNext(w)) /\ WF_vars(ctxDone /\ IterationEnds(w))

Spec == Init /\ [][Next]_vars /\ Fairness

-----------------------------------------------------------------------------
(* Safety.                                                                 *)

Gone == {"leave", "exit"}
Held == ToSet(idle) \cup ToSet(ready) \cup ({target} \ {0})

\* README.md 100-101: "by the profile deadline, attempted plus dropped iterations
\* stays within one iteration of the floored curve integral". Here exactly: in
\* a run that was not cancelled before its deadline, once everybody returned
\* each arrival was either begun once or dropped once.
ArrivalsAccounted ==
  /\ begun + dropped <= scheduled
  /\ (stopped /\ ~aborted /\ \A w \in Workers : worker[w] \in {"none", "exit"}) =>
       begun + dropped = Total

\* Every variable has its type (the done channel holds what is sent to it), and
\* a job is only ever sent to a worker that waits for it: an announced channel
\* is announced once and its worker is at the receive, unless the run is over.
\* The pacing goroutine therefore never blocks in a handoff. Nor does a worker:
\* there is room for its announcement and for its completion.
HandoffNeverBlocks ==
  /\ TypeOK
  /\ Len(idle) + Len(ready) <= MaxVUs
  /\ IsInjective(idle)
  /\ \A w \in Held : worker[w] = "await" \/ (worker[w] \in Gone /\ (ctxDone \/ stopped))
  /\ \A w \in Workers : /\ worker[w] = "offer" => Len(ready) < MaxVUs
                        /\ worker[w] = "leave" => done < MaxVUs

\* Arrivals are dropped only at capacity: all maxVUs workers are live and each
\* one that waited when the dispatch began was given a job by it. (A cancelled
\* run may have lost track of a worker it was about to hand a job.)
DropsOnlyAtCapacity ==
  [][dropped' # dropped /\ ~aborted => liveWorkers = MaxVUs /\ waiting = {}]_vars

\* The engine is cancelled before the drain window ends only when every worker
\* has finished: no iteration is cut although there was time left.
DrainCutsNothing ==
  [][(ctxDone' # ctxDone /\ liveWorkers = 0) =>
     \A w \in Workers : worker[w] \in {"none", "exit"}]_vars

(* The inductive invariant of ArrivalSchedulerProofs.                      *)

Working == {w \in Workers : worker[w] \notin {"none", "exit"}}
Fresh == {w \in Workers : worker[w] = "initial"}
Dispatching == {"drainReady", "dispatch", "handoff"}

\* Where the scheduler is in the profile, and what dispatch has left to do.
PhaseOK ==
  /\ sched \notin Dispatching => count = 0
  /\ sched = "handoff" => target \in Workers /\ count > 0
  /\ sched # "handoff" => target = 0
  /\ deadline => scheduled = Total
  /\ sched = "stop" \/ stopped => deadline
  /\ stopped => sched \in {"wait", "returned"}

\* Every worker that was started is counted as live until its completion has
\* been collected; an arrival pays for each worker beyond the preallocated.
PoolOK ==
  /\ \A w \in Workers : worker[w] = "none" <=> w > nextWorker
  /\ nextWorker + count <= PreAllocatedVUs + scheduled
  /\ liveWorkers = done + Cardinality(Working)

\* A channel is announced in one place, by a worker that waits or that the end
\* of the run has sent away. The workers that left with their channel announced
\* and those at work are never more than maxVUs: when the pool may grow, those
\* that left since the drain have not been collected yet.
HeldOK ==
  /\ IsInjective(idle) /\ IsInjective(ready)
  /\ ToSet(idle) \cap ToSet(ready) = {}
  /\ target \notin ToSet(idle) \cup ToSet(ready)
  /\ \A w \in Held : worker[w] = "await" \/ (worker[w] \in Gone /\ (ctxDone \/ stopped))
  /\ Cardinality(Held \cup Working) <= MaxVUs
  /\ sched \in {"dispatch", "handoff"} => Cardinality(ToSet(ready) \ Working) <= done

\* Each scheduled arrival is in one place, or was left by a cancelled dispatch.
CountOK ==
  LET placed == begun + dropped + count + Cardinality(Fresh) IN
  placed <= scheduled /\ (~aborted => placed = scheduled)

\* Who waited when the dispatch began is on the stack once ready is drained.
WaitingOK ==
  ~aborted =>
    /\ Announced \subseteq Held
    /\ sched = "drainReady" => waiting \subseteq ToSet(idle) \cup ToSet(ready)
    /\ sched \in {"dispatch", "handoff"} => waiting \subseteq ToSet(idle) \cup ({target} \ {0})

IInv == TypeOK /\ PhaseOK /\ PoolOK /\ HeldOK /\ CountOK /\ WaitingOK

(* Liveness.                                                               *)

\* The engine ends: the scheduler and every worker return, and no worker is
\* stuck in its deferred send when the scheduler has left first.
EngineEnds == <>(sched = "returned" /\ \A w \in Workers : worker[w] \in {"none", "exit"})
=============================================================================
