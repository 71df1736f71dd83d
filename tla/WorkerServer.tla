---------------------------- MODULE WorkerServer ----------------------------
(***************************************************************************)
(* One native load worker (src/internal/distributed/worker.go).            *)
(*                                                                         *)
(* The server holds one run under worker.mu. Its HTTP handlers run         *)
(* concurrently: Prepare, Start and the first half of Snapshot and of Stop *)
(* are critical sections, while Stop waits for the engine and Snapshot     *)
(* reads the counters after the lock is released. Every accepted Start     *)
(* spawns a goroutine (runScheduled) that waits for the start timer,       *)
(* starts the engine without the lock, and only then checks whether the    *)
(* run it started is still wanted.                                         *)
(*                                                                         *)
(* Time is abstracted: an accepted start may fire at any later moment.     *)
(* Run identifiers are fresh (coordinator.go newRunID draws 128 random     *)
(* bits), so no two Prepares carry the same one.                           *)
(***************************************************************************)
EXTENDS Naturals

CONSTANTS Runs,             \* run identifiers coordinators may draw
          NoRun,            \* the empty runID of an idle worker
          MaxGenerations,   \* bound on worker.generation
          MaxWork,          \* bound on the results one engine accepts
          Stoppers,         \* concurrent Stop requests
          Pollers           \* concurrent Snapshot requests

ASSUME NoRunAssumption == NoRun \notin Runs
ASSUME BoundsAssumption == MaxGenerations \in Nat /\ MaxWork \in Nat

Gens == 1 .. MaxGenerations

VARIABLES generation, runID, state,
          scheduleCancel,   \* generation whose context it cancels, 0 for nil
          startedAt,        \* TRUE when worker.startedAt is non-zero
          cancelled,        \* generations whose schedule context is cancelled
          task,             \* program counter of each runScheduled goroutine
          taskRun,          \* its runID argument
          engine,           \* life of each generation's engine.Engine
          work,             \* its cumulative counter
          stop,             \* each Stop handler: pc, run and generation
          poll,             \* each Snapshot handler: pc and the copied status
          issued,           \* history: run identifiers drawn so far
          acked,            \* history: runs whose Stop was answered
          finals            \* history: terminal snapshots of started runs

serverVars == <<generation, runID, state, scheduleCancel, startedAt>>
taskVars == <<cancelled, task, taskRun>>
engineVars == <<engine, work>>
requestVars == <<stop, poll, issued, acked, finals>>
vars == <<serverVars, taskVars, engineVars, requestVars>>

\* WorkerFailed of protocol.go is left out: runScheduled sets it only when
\* Engine.Start or Stop fails, Start fails only on a running engine, and each
\* engine is started once (TaskEngine below).
States == {"idle", "prepared", "scheduled", "running", "stopped"}
Terminal == {"stopped"}
TaskPCs == {"none", "timer", "fired", "publish", "abandon", "abandonWait",
            "wait", "exit"}
EnginePhases == {"none", "ready", "running", "stopping", "done"}
StopIdle == [pc |-> "idle", run |-> NoRun, gen |-> 0]
PollIdle == [pc |-> "idle", gen |-> 0, state |-> "idle", started |-> FALSE]

\* The type of every variable.
TypeOK ==
  /\ generation \in 0 .. MaxGenerations
  /\ runID \in Runs \cup {NoRun}
  /\ state \in States
  /\ scheduleCancel \in 0 .. MaxGenerations
  /\ startedAt \in BOOLEAN
  /\ cancelled \subseteq Gens
  /\ task \in [Gens -> TaskPCs]
  /\ taskRun \in [Gens -> Runs \cup {NoRun}]
  /\ engine \in [Gens -> EnginePhases]
  /\ work \in [Gens -> 0 .. MaxWork]
  /\ stop \in [Stoppers -> [pc : {"idle", "engine", "wait", "lock"},
                            run : Runs \cup {NoRun}, gen : 0 .. MaxGenerations]]
  /\ poll \in [Pollers -> [pc : {"idle", "counters"}, gen : 0 .. MaxGenerations,
                           state : States, started : BOOLEAN]]
  /\ issued \subseteq Runs
  /\ acked \subseteq Runs
  /\ finals \subseteq [gen : Gens, work : 0 .. MaxWork]

Init ==
  /\ generation = 0 /\ runID = NoRun /\ state = "idle"
  /\ scheduleCancel = 0 /\ startedAt = FALSE
  /\ cancelled = {}
  /\ task = [g \in Gens |-> "none"]
  /\ taskRun = [g \in Gens |-> NoRun]
  /\ engine = [g \in Gens |-> "none"]
  /\ work = [g \in Gens |-> 0]
  /\ stop = [s \in Stoppers |-> StopIdle]
  /\ poll = [p \in Pollers |-> PollIdle]
  /\ issued = {} /\ acked = {} /\ finals = {}

-----------------------------------------------------------------------------
(* The engine as the worker sees it: Start, Stop and Done of engine.go.    *)

Live(g) == engine[g] \in {"running", "stopping"}

\* A live engine completes one more request or iteration.
EngineWorks(g) ==
  /\ Live(g)
  /\ work[g] < MaxWork
  /\ work' = [work EXCEPT ![g] = @ + 1]
  /\ UNCHANGED <<serverVars, taskVars, engine, requestVars>>

\* The load profile ends by itself; an engine without duration never does.
EngineExpires(g) ==
  /\ engine[g] = "running"
  /\ engine' = [engine EXCEPT ![g] = "done"]
  /\ UNCHANGED <<serverVars, taskVars, work, requestVars>>

\* Every goroutine of a cancelled engine has returned: Done is closed.
EngineDrains(g) ==
  /\ engine[g] = "stopping"
  /\ engine' = [engine EXCEPT ![g] = "done"]
  /\ UNCHANGED <<serverVars, taskVars, work, requestVars>>

\* The first half of Engine.Stop: cancel a running engine.
CancelEngine(g) ==
  engine' = IF Live(g) THEN [engine EXCEPT ![g] = "stopping"] ELSE engine

-----------------------------------------------------------------------------
(* Request handlers.                                                       *)

Expire(g) == cancelled \cup ({g} \ {0})

\* Mutant of Prepare: the start time of the replaced run is kept.
PrepareKeepsStartTime(r) ==
  /\ r \notin issued
  /\ state \notin {"scheduled", "running"}
  /\ generation < MaxGenerations
  /\ cancelled' = Expire(scheduleCancel)
  /\ generation' = generation + 1
  /\ runID' = r
  /\ state' = "prepared"
  /\ engine' = [engine EXCEPT ![generation + 1] = "ready"]
  /\ scheduleCancel' = 0
  /\ issued' = issued \cup {r}
  /\ UNCHANGED <<startedAt, task, taskRun, work, stop, poll, acked, finals>>

\* A valid plan replaces whatever run is not scheduled or running.
Prepare(r) ==
  /\ r \notin issued
  /\ state \notin {"scheduled", "running"}
  /\ generation < MaxGenerations
  /\ cancelled' = Expire(scheduleCancel)
  /\ generation' = generation + 1
  /\ runID' = r
  /\ state' = "prepared"
  /\ engine' = [engine EXCEPT ![generation + 1] = "ready"]
  /\ scheduleCancel' = 0
  /\ startedAt' = FALSE
  /\ issued' = issued \cup {r}
  /\ UNCHANGED <<task, taskRun, work, stop, poll, acked, finals>>

\* A start time inside the allowed window schedules the prepared run.
Start(r) ==
  /\ r = runID /\ r # NoRun
  /\ state = "prepared"
  /\ scheduleCancel' = generation
  /\ state' = "scheduled"
  /\ task' = [task EXCEPT ![generation] = "timer"]
  /\ taskRun' = [taskRun EXCEPT ![generation] = r]
  /\ UNCHANGED <<generation, runID, startedAt, cancelled, engineVars, requestVars>>

\* A terminal run answers at once.
StopTerminal(s, r) ==
  /\ stop[s].pc = "idle" /\ r = runID /\ r # NoRun
  /\ state \in Terminal
  /\ acked' = acked \cup {r}
  /\ UNCHANGED <<serverVars, taskVars, engineVars, stop, poll, issued, finals>>

\* A run that is not running is marked stopped in the same critical section.
StopBeforeStart(s, r) ==
  /\ stop[s].pc = "idle" /\ r = runID /\ r # NoRun
  /\ state \notin Terminal \cup {"running"}
  /\ cancelled' = Expire(scheduleCancel)
  /\ scheduleCancel' = 0
  /\ state' = "stopped"
  /\ acked' = acked \cup {r}
  /\ UNCHANGED <<generation, runID, startedAt, task, taskRun, engineVars,
                 stop, poll, issued, finals>>

\* A running run: remember its engine and let go of the lock.
StopRunning(s, r) ==
  /\ stop[s].pc = "idle" /\ r = runID /\ r # NoRun
  /\ state = "running"
  /\ cancelled' = Expire(scheduleCancel)
  /\ scheduleCancel' = 0
  /\ stop' = [stop EXCEPT ![s] = [pc |-> "engine", run |-> r, gen |-> generation]]
  /\ UNCHANGED <<generation, runID, state, startedAt, task, taskRun, engineVars,
                 poll, issued, acked, finals>>

\* Mutant of StopEngine: the handler does not wait for the engine it cancels.
StopEngineNoWait(s) ==
  /\ stop[s].pc = "engine"
  /\ CancelEngine(stop[s].gen)
  /\ stop' = [stop EXCEPT ![s].pc = "lock"]
  /\ UNCHANGED <<serverVars, taskVars, work, poll, issued, acked, finals>>

\* loadEngine.Stop(): ErrNotRunning is ignored, otherwise cancel and wait.
StopEngine(s) ==
  /\ stop[s].pc = "engine"
  /\ CancelEngine(stop[s].gen)
  /\ stop' = [stop EXCEPT ![s].pc = IF Live(stop[s].gen) THEN "wait" ELSE "lock"]
  /\ UNCHANGED <<serverVars, taskVars, work, poll, issued, acked, finals>>

\* Mutant of StopWaits: the handler waits for a signal of the running state only.
StopWaitsForRunning(s) ==
  /\ stop[s].pc = "wait"
  /\ engine[stop[s].gen] = "running"
  /\ stop' = [stop EXCEPT ![s].pc = "lock"]
  /\ UNCHANGED <<serverVars, taskVars, engineVars, poll, issued, acked, finals>>

StopWaits(s) ==
  /\ stop[s].pc = "wait"
  /\ engine[stop[s].gen] = "done"
  /\ stop' = [stop EXCEPT ![s].pc = "lock"]
  /\ UNCHANGED <<serverVars, taskVars, engineVars, poll, issued, acked, finals>>

\* The second critical section: only the run that was asked for is stopped.
\* A client takes an answer that names another run for an error.
StopReply(s) ==
  /\ stop[s].pc = "lock"
  /\ state' = IF runID = stop[s].run /\ state \notin Terminal THEN "stopped" ELSE state
  /\ acked' = IF runID = stop[s].run THEN acked \cup {runID} ELSE acked
  /\ stop' = [stop EXCEPT ![s] = StopIdle]
  /\ UNCHANGED <<generation, runID, scheduleCancel, startedAt, taskVars, engineVars,
                 poll, issued, finals>>

\* Snapshot copies the status under the lock ...
SnapshotStatus(p) ==
  /\ poll[p].pc = "idle"
  /\ runID # NoRun
  /\ poll' = [poll EXCEPT ![p] = [pc |-> "counters", gen |-> generation,
                                  state |-> state, started |-> startedAt]]
  /\ UNCHANGED <<serverVars, taskVars, engineVars, stop, issued, acked, finals>>

\* ... and reads the counters of that run's engine afterwards.
SnapshotCounters(p) ==
  /\ poll[p].pc = "counters"
  /\ finals' = IF poll[p].state \in Terminal /\ poll[p].started
               THEN finals \cup {[gen |-> poll[p].gen, work |-> work[poll[p].gen]]}
               ELSE finals
  /\ poll' = [poll EXCEPT ![p] = PollIdle]
  /\ UNCHANGED <<serverVars, taskVars, engineVars, stop, issued, acked>>

-----------------------------------------------------------------------------
(* runScheduled, one goroutine per accepted Start.                         *)

TaskStep(g, from, to) == task[g] = from /\ task' = [task EXCEPT ![g] = to]

Unscheduled(g) ==
  /\ TaskStep(g, "timer", "exit")
  /\ g \in cancelled
  /\ UNCHANGED <<serverVars, cancelled, taskRun, engineVars, requestVars>>

\* A select with both cases ready takes either one, so the timer may win
\* over a cancelled context.
TimerFires(g) ==
  /\ TaskStep(g, "timer", "fired")
  /\ UNCHANGED <<serverVars, cancelled, taskRun, engineVars, requestVars>>

StartEngine(g) ==
  /\ TaskStep(g, "fired", "publish")
  /\ engine' = [engine EXCEPT ![g] = "running"]
  /\ UNCHANGED <<serverVars, cancelled, taskRun, work, requestVars>>

\* Mutant of Wanted: the state is not rechecked after the engine started.
WantedIgnoresState(g) == generation = g /\ runID = taskRun[g]

\* The recheck of generation, runID and state after the engine started.
Wanted(g) == generation = g /\ runID = taskRun[g] /\ state = "scheduled"

Publish(g) ==
  /\ TaskStep(g, "publish", "wait")
  /\ Wanted(g)
  /\ state' = "running"
  /\ startedAt' = TRUE
  /\ scheduleCancel' = 0
  /\ UNCHANGED <<generation, runID, cancelled, taskRun, engineVars, requestVars>>

Disown(g) ==
  /\ TaskStep(g, "publish", "abandon")
  /\ ~Wanted(g)
  /\ UNCHANGED <<serverVars, cancelled, taskRun, engineVars, requestVars>>

\* Mutant of AbandonEngine: the goroutine returns without stopping its engine.
AbandonEngineLeaks(g) ==
  /\ TaskStep(g, "abandon", "exit")
  /\ UNCHANGED <<serverVars, cancelled, taskRun, engineVars, requestVars>>

AbandonEngine(g) ==
  /\ TaskStep(g, "abandon", IF Live(g) THEN "abandonWait" ELSE "exit")
  /\ CancelEngine(g)
  /\ UNCHANGED <<serverVars, cancelled, taskRun, work, requestVars>>

AbandonWaits(g) ==
  /\ TaskStep(g, "abandonWait", "exit")
  /\ engine[g] = "done"
  /\ UNCHANGED <<serverVars, cancelled, taskRun, engineVars, requestVars>>

\* Mutant of Complete: the end of the engine is not recorded.
CompleteSilently(g) ==
  /\ TaskStep(g, "wait", "exit")
  /\ engine[g] = "done"
  /\ UNCHANGED <<serverVars, cancelled, taskRun, engineVars, requestVars>>

Complete(g) ==
  /\ TaskStep(g, "wait", "exit")
  /\ engine[g] = "done"
  /\ state' = IF generation = g /\ runID = taskRun[g] /\ state = "running"
              THEN "stopped" ELSE state
  /\ UNCHANGED <<generation, runID, scheduleCancel, startedAt, cancelled, taskRun,
                 engineVars, requestVars>>

-----------------------------------------------------------------------------
RunTask(g) ==
  \/ Unscheduled(g) \/ TimerFires(g) \/ StartEngine(g) \/ Publish(g) \/ Disown(g)
  \/ AbandonEngine(g) \/ AbandonWaits(g) \/ Complete(g)

HandleStop(s) == StopEngine(s) \/ StopWaits(s) \/ StopReply(s)

Next ==
  \/ \E r \in Runs :
       \/ Prepare(r)
       \/ Start(r)
       \/ \E s \in Stoppers : StopTerminal(s, r) \/ StopBeforeStart(s, r) \/ StopRunning(s, r)
  \/ \E s \in Stoppers : HandleStop(s)
  \/ \E p \in Pollers : SnapshotStatus(p) \/ SnapshotCounters(p)
  \/ \E g \in Gens : RunTask(g) \/ EngineWorks(g) \/ EngineExpires(g) \/ EngineDrains(g)

\* Goroutines that can run do run, and a cancelled engine drains: each of its
\* goroutines selects on the cancelled context. Nobody has to send requests,
\* and an engine need not expire.
Fairness ==
  /\ \A g \in Gens : WF_vars(RunTask(g)) /\ WF_vars(EngineDrains(g))
  /\ \A s \in Stoppers : WF_vars(HandleStop(s))

Spec == Init /\ [][Next]_vars /\ Fairness

-----------------------------------------------------------------------------
(* Safety.                                                                 *)

Unwinding(g) == task[g] \in {"publish", "abandon", "abandonWait"}

\* runScheduled starts the engine before it knows whether the run is still
\* wanted. Whatever Stop, Prepare and the timer do in between, an engine that
\* generates load is either the run that status reports as running, which a
\* Stop can reach, or one whose own goroutine has yet to publish or stop it.
NoOrphanEngine ==
  \A g \in Gens : Live(g) => Unwinding(g) \/ (state = "running" /\ generation = g)

\* Once a Stop is answered, its run is never reported as anything but
\* terminal, and load of that run can only come from the goroutine that lost
\* the race against its start timer and is about to stop its engine.
StopIsFinal ==
  /\ runID \in acked => state \in Terminal
  /\ \A g \in Gens : taskRun[g] \in acked /\ Live(g) => Unwinding(g)

\* handleSnapshot copies the status before it reads the counters, and Stop
\* waits for the engine before it marks a run stopped: a snapshot that reports
\* a started run as terminal carries that run's final counters.
FinalSnapshotIsFinal == \A f \in finals : f.work = work[f.gen]

-----------------------------------------------------------------------------
(* The inductive invariant behind the three properties above, by subject.  *)

\* The held run: its generation exists, and its goroutine is where the
\* reported state says it is.
HeldRun ==
  /\ state = "idle" <=> runID = NoRun
  /\ state # "idle" => generation \in Gens
  /\ scheduleCancel <= generation /\ \A g \in cancelled : g <= generation
  /\ state \in {"prepared", "scheduled"} => generation \notin cancelled
  /\ state = "prepared" => task[generation] = "none"
  /\ state = "scheduled" => /\ task[generation] \in {"timer", "fired", "publish"}
                            /\ taskRun[generation] = runID
  /\ state = "running" => task[generation] = "wait" /\ taskRun[generation] = runID
  /\ startedAt => state \in {"running", "stopped"}
  /\ startedAt /\ state = "stopped" => engine[generation] = "done"

\* Each goroutine and its engine: started once, after the timer; left by its
\* goroutine only when done or when status reports it as running.
TaskEngine ==
  \A g \in Gens :
    /\ task[g] = "none" => taskRun[g] = NoRun
    /\ task[g] # "none" => g <= generation
    /\ engine[g] = "none" <=> g > generation
    /\ task[g] \in {"none", "timer", "fired"} => ~Live(g) /\ engine[g] # "done"
    /\ task[g] \in {"publish", "abandonWait"} => Live(g) \/ engine[g] = "done"
    /\ task[g] = "wait" => \/ state = "running" /\ generation = g /\ Live(g)
                           \/ engine[g] = "done"
    /\ task[g] = "exit" => ~Live(g)

\* A run identifier belongs to one generation, and to none before it is drawn.
FreshRuns ==
  /\ runID \in issued \cup {NoRun}
  /\ acked \subseteq issued
  /\ \A g \in Gens : /\ taskRun[g] \in issued \cup {NoRun}
                     /\ taskRun[g] # NoRun /\ taskRun[g] = runID => g = generation

\* A Stop handler between its critical sections holds a run that was running.
StopHandlers ==
  \A s \in Stoppers : stop[s].pc # "idle" =>
    /\ stop[s].gen \in Gens
    /\ stop[s].run = taskRun[stop[s].gen] /\ stop[s].run # NoRun
    /\ task[stop[s].gen] \in {"wait", "exit"}
    /\ stop[s].pc = "engine" => engine[stop[s].gen] \in {"running", "stopping", "done"}
    /\ stop[s].pc = "wait" => engine[stop[s].gen] \in {"stopping", "done"}
    /\ stop[s].pc = "lock" => engine[stop[s].gen] = "done"

\* Terminal answers for started runs are given only after the engine is done.
FinalAnswers ==
  /\ runID \in acked => state = "stopped"
  /\ \A p \in Pollers : poll[p].pc = "counters" =>
       /\ poll[p].gen \in Gens
       /\ poll[p].state \in Terminal /\ poll[p].started => engine[poll[p].gen] = "done"
  /\ \A f \in finals : engine[f.gen] = "done" /\ f.work = work[f.gen]

IInv == TypeOK /\ HeldRun /\ TaskEngine /\ FreshRuns /\ StopHandlers /\ FinalAnswers

\* Clients of the worker see exactly the run lifecycle of RunLifecycle.
Lifecycle == INSTANCE RunLifecycle WITH run <- runID, phase <- state, seen <- issued

LifecycleSpec == Lifecycle!Spec

-----------------------------------------------------------------------------
(* Liveness.                                                               *)

\* A Stop request is always answered, also when it waits for an engine.
StopReturns == \A s \in Stoppers : (stop[s].pc # "idle") ~> (stop[s].pc = "idle")

\* An acknowledged Stop ends the load for good, even when the start timer had
\* already fired: from some moment on the engine of that run is not live.
StopEndsLoad ==
  \A g \in Gens : (taskRun[g] \in acked) ~> [](~Live(g))

\* When a run's engine is done, the worker reports the run as terminal unless
\* it already holds another one: the coordinator's AllTerminal cannot hang on
\* a finished engine.
CompletionIsReported ==
  \A g \in Gens :
    (engine[g] = "done" /\ generation = g) ~> (state \in Terminal \/ generation # g)
=============================================================================
