# FlowRoutine in TLA+

FlowRoutine is a load generator: a Go engine that runs a scenario of HTTP
requests under a load profile, a controller that starts and stops it for the
desktop application and for the headless runner, and a native distributed mode
in which a coordinator drives several workers. This directory models the
concurrent core of that program, its distributed mode, and the way of a scenario
from the submitted request to the steps of an iteration. TLC checks the models
on small instances, TLAPS proves the most important properties for every value
of the constants.

Paths below are relative to `src/`. `PROJECT.json` lists, for every definition,
the lines it models; it also lists every run, mutant, finding, hazard and
theorem.

## 1. Inventory

### Modelled

| Component | Source | State | Operations | Interacts with |
|---|---|---|---|---|
| Distributed worker server | `internal/distributed/worker.go` | `generation`, `plan.RunID`, `state`, `scheduleCancel`, `startedAt`, `engine` under one mutex | `handlePrepare`, `handleStart`, `handleStop`, `handleSnapshot`, goroutine `runScheduled` per accepted Start | coordinators by HTTP requests, one engine per generation |
| Run controller | `internal/bridge/controller.go` | `state`, `transition` channel, `engine`, `batcher` under one mutex | `Start` and its rollback, `Stop`, watcher goroutine per run | desktop shell and headless runner call it; it owns an engine and a batcher per run |
| Metrics batcher | `internal/bridge/batcher.go` | `running`, cancel function, `done` channel, last totals | `Start`, `Stop`, goroutine `run` with `emit` | reads the engine's counters, calls an emitter |
| Engine lifecycle | `internal/engine/engine.go` | running flag, cancel function, `done` channel | `Start`, `Stop`, `Running`, `Done` | owned by controller or worker; spawns the schedulers |
| Virtual-user scheduler | `internal/engine/scheduler.go` 23-209 | per VU: `active`, `busy`, `wake`, registered cancel function; the scheduler's target and retirement deadlines | `reconcile`, `forceRetire`, idle scan, drain; `runVUWorker` | N VU goroutines, the engine's context |
| Arrival-rate scheduler | `internal/engine/scheduler.go` 211-373 | `idle` stack, live workers, channels `ready`, `jobs`, `done`, `stop`, scheduled arrivals | `dispatch`, pool growth, drain; `runArrivalWorker` | up to `maxWorkers` worker goroutines |
| Rate limiter | `internal/engine/rate_limiter.go` | permits channel, carried remainder | `Run` (pacer), `Wait` | every worker of the engine waits on it |
| Headless runner | `internal/headless/runner.go` | the emitter's channel of one final batch | `Run`, `metricsEmitter.Emit` | a run controller, a signal context |
| Distributed coordinator | `internal/distributed/coordinator.go` | none between calls | `Start`: probe, prepare, start, undo | one client per worker, all phases in parallel |
| Distributed run and aggregation | `internal/distributed/aggregate.go` | per worker: last accepted snapshot, health; `snapshotMu`, `mu` | `Snapshot`, `Stop`, the checks on an answer, the result | worker clients; callers may poll and stop at once |
| Statistics | `internal/engine/stats.go`, `step_stats.go`, `branch_stats.go` | sharded atomic counters | `record...`, `Snapshot`, `RequestStepSnapshots`, `BranchRouteSnapshots` | written by every VU, read by batcher and worker server |
| Execution plan | `internal/engine/execution_plan.go`, `execution_runtime.go` | per VU: loop counters, active routes | compile checks, interpreter of branches, joins and loops | iterations |
| Iterations and request steps | `internal/engine/engine.go` 39-156, 269-, `template.go`, `config.go` | per VU: variables by scope and branch frame, assertion results | `runIteration`, `runStep`, `runRequestStep`, captures, assertions | statistics, rate limiter, HTTP client |
| Preflight | `internal/bridge/preflight.go` | none | normalisation, validation, estimate | calls the engine's own compilation |
| Load profile | `internal/engine/profile.go` | none | checks, derived bounds; the integrals are not modelled | schedulers |
| Sharding | `internal/distributed/shard.go` | none | `ShardConfigs` | coordinator |

### Not modelled

The last lines of section 8 give the reasons in full.

| Component | Source | Why |
|---|---|---|
| Headless scenario, report, quality gates | `internal/headless/scenario.go`, `report.go`, `quality.go` | parsing, formatting and comparison of one run's data |
| OpenAPI import | `internal/bridge/openapi*.go` | document conversion without state |
| Encoding, authentication, TLS | `internal/distributed/client.go`, `protocol.go`, `tls.go` | transport; its failures and the configuration's way over it are modelled |
| Desktop shell, command-line programs | `internal/desktop`, `app.go`, `cmd` | callers of the components above; flag parsing and I/O |
| System limits, release manifest | `internal/system`, `internal/releaseinfo` | system calls; file processing |
| Frontend | `frontend/src` | single-threaded editor state, conversion and views |

### What is hard here

* **Critical sections with a gap.** The controller's Start and Stop and the
  worker's Stop and `runScheduled` drop the mutex for their slow half and come
  back to a state that may have changed (controller.go:257, 261, 334;
  worker.go:221, 310).
* **Two reads that are not one.** A batch copies the counters and then asks
  whether the engine runs (batcher.go:164); a snapshot copies the status and then
  reads the counters (worker.go:249).
* **Selects with several ready cases.** A timer may win over a cancelled context
  (worker.go:208), the final batch over a signal (runner.go:65), the ticker over
  the deadline (scheduler.go:195).
* **Flags, tokens and contexts per virtual user** that are checked, cleared and
  replaced by two goroutines without a common lock (scheduler.go:90, 121, 142,
  147, 156).
* **Channels of fixed capacity** whose receiver may be gone (scheduler.go:318) or
  whose sender must never block (scheduler.go:259, runner.go:104).
* **Counters that are not one.** A request adds to ten atomics one after the
  other and a snapshot loads them one after the other (stats.go:187, 295), while
  the coordinator checks sums and monotony (aggregate.go:282-430).
* **Requests that are lost, late or answered by a restarted process** in the four
  phases of a distributed start, and statuses applied without the lock of a
  concurrent snapshot (coordinator.go:197, aggregate.go:104, 169).
* **Graphs.** Branches, joins and loops may be wired in any way the compiler does
  not refuse; the interpreter relies on its checks and ends an iteration silently
  where they fall short (execution_runtime.go:13, 43).
* **State kept from one iteration to the next**: assertion results and
  run-scoped variables outlive the iteration, branch frames do not
  (engine.go:70, 357).
* **Rounding**: a run is split over workers by quotient and remainder
  (shard.go:84), and a rate that is no multiple of 1000 is spread over ticks by
  a carried remainder (rate_limiter.go:77).

The hazards in `PROJECT.json` name each place with the properties that cover it.

## 2. Modules

| Module | Models | Theorems |
|---|---|---|
| `RunLifecycle` | abstract: what a worker promises about the run it holds | |
| `WorkerServer` | worker.go, with engine.go as it uses it | in `WorkerServerProofs` |
| `RunController` | controller.go, batcher.go, engine.go Start/Stop/Done | in `RunControllerProofs` |
| `HeadlessRun` | runner.go, composed with `RunController` | in `HeadlessRunProofs` |
| `VUScheduler` | scheduler.go, virtual-user profiles | in `VUSchedulerProofs` |
| `ArrivalScheduler` | scheduler.go, arrival-rate profiles | in `ArrivalSchedulerProofs` |
| `RateLimiter` | rate_limiter.go | in `RateLimiterProofs` |
| `Statistics` | stats.go, step_stats.go, branch_stats.go, and the coordinator's checks on them | |
| `DistributedRun` | coordinator.go, aggregate.go, client.go over several workers, with `Statistics` | in `DistributedRunProofs` |
| `LoadConfig` | profile.go, the load in config.go and preflight.go, shard.go | |
| `Scenario` | the steps in config.go and preflight.go | |
| `ExecutionPlan` | execution_plan.go, on the steps of `Scenario` | |
| `ScenarioRun` | preflight, engine.go's iteration and execution_runtime.go, composed of the three above | in `ScenarioRunProofs` |
| `MC...` | the TLC instance of each | |

**How state and actions correspond.** A critical section is one action; code
between two of them, or between two accesses to shared atomics or channels, is
a program counter and an action per access. A mutex is therefore never a
variable. A channel is a counter, a set or a sequence, whichever its users can
tell apart; a closed channel is a flag or membership in `closed`. A context is a
Boolean that only turns true, with the parent's cancel implying the child's. A
`select` is a disjunction of the cases that are ready. Time is abstracted: a
timer or ticker may fire at any moment it is armed, which contains every real
schedule; where the order of deadlines matters it is kept (`DueSets` in
`VUScheduler`). Names of actions follow the functions or the statement they
stand for.

**WorkerServer.** Generation *g* is the *g*-th accepted Prepare, with its engine
`engine[g]`, its goroutine `task[g]` and the count `work[g]` of what the engine
did. `stop[s]` and `poll[p]` are request handlers between their critical
sections. `issued`, `acked` and `finals` are histories: the identifiers handed
out, the runs whose Stop was answered and the terminal snapshots given.
`WorkerFailed` is left out because no reachable state produces it (`TaskEngine`
shows that each engine is started once, the only way Start could fail).

**RunController.** Run *n* is the *n*-th accepted Start. `caller[c]` is a call in
progress, `watcher[n]` the goroutine that waits for the end of run *n*,
`batcher[n]` the batcher goroutine with its last two reads, `channels` and
`closed` the transition channels. `ended` records what a returned Stop has
promised. `Faults` says which steps of Start may fail; the factories of the
controller are fields (controller.go:173-191), so a batcher or engine that is
already running is possible.

**HeadlessRun** extends it with the runner's own program counter, the emitter's
channel of one and the signal. It restricts callers to one, adds nothing to the
controller's actions, and of its failures keeps that of a run that does not compile:
`NewController`'s factories give every run a new engine and a new batcher.

**VUScheduler** and **ArrivalScheduler** have one scheduler goroutine and N
workers. The first abstracts the profile to "any target at any tick, the
deadline at any tick", the second to "any number of the remaining arrivals at
a tick, all at the deadline".

**RateLimiter** counts ticks instead of time. `taken` and `mark` are histories:
the permits workers received, and their number at some earlier tick, chosen
nondeterministically, so that a bound on `taken - mark.taken` is a bound on every
window.

**Statistics** gives each counter a cell and each record the cells in the order
the code adds to them; `LoadOrder` is the order in which a snapshot loads them. Cells
that are only ever summed (failure kinds, status codes, latency buckets) are one.

**DistributedRun** is the caller in `Start` and later in `Run.Stop` (`phase`), a
request to each worker (`call`), a snapshot request to each worker (`ask`), and
what `Run` keeps (`lock` for `snapshotMu`, `last`, `health`). `reply` is what an answer
to Stop says, which may be older than the worker when it is applied. A worker is reduced
to what `WorkerServer` shows of it. `writing` holds the records its iterations are in the
middle of, one entry for each, so that they add to the counters beside each other; a
request in flight begins its record even after Stop has cancelled the engine. `counts` keeps the counters of processes that died
as a history, so that "exact" can be said of them. `late` holds the requests whose
sender gave up while the network had not.

**LoadConfig**, **Scenario** and **ExecutionPlan** are operators: what each layer
accepts and what it returns. A text is a model string by what the checks tell
apart (empty, malformed, or any other), a template is the set of variables it
uses, and the analyses of the plan work on functions from ids to sets of ids.

**ScenarioRun** composes them: a submitted request is preflighted and compiled,
then iterations run along every route and every outcome of every request. A
linear scenario is a plan without branches. `fresh` and `missed` are histories:
the assertions evaluated in this iteration, the names some capture did not get.

## 3. Plan

Done, in this order: `WorkerServer` with its abstract specification and proofs;
`RunController`; `HeadlessRun`; the two schedulers; `RateLimiter` with proofs;
`Statistics` and `DistributedRun`; `LoadConfig`, `Scenario`, `ExecutionPlan` and
`ScenarioRun`; the proofs of `VUScheduler`, `RunController`, `HeadlessRun`,
`ArrivalScheduler`, `DistributedRun` and `ScenarioRun`.

Next:

1. The profile's integrals over rationals: arrivals are monotone and end at the
   floored integral.
2. Quality gates, and the editor's bounded undo history.

## 4. Runs

| Run | Instance | Distinct states | Shows |
|---|---|---|---|
| `worker` | 2 runs, 2 generations, 2 Stop handlers, 1 Snapshot handler, work 1 | 125,749 | no engine without an owner; an answered Stop and a terminal snapshot are final; refinement of `RunLifecycle`; every Stop answers and ends the load; a finished engine is reported; `IInv` holds |
| `controller_reuse` | 2 callers, 2 runs, work 1, compile failures | 3.6 million | runs never overlap; the last batch of a run is final |
| `controller_calls` | 3 callers, 1 run, all failures, no counting | 49,435 | a returned Stop left nothing running; nobody waits for a channel nobody closes; calls return; a finished run is released; a cancelled context ends everything |
| `headless_run` | 1 execution, work up to 2 | 10,213 | what a report and an error guarantee; Run returns |
| `headless_exact` | as above | stops at the counterexample | finding 1 |
| `headless_cancel` | as above, work 1 | stops at the counterexample | finding 2 |
| `vus` | 1 VU, with and without graceful window | 6,189 | forced retirement reaches late iterations; the idle scan overlooks nobody; no lost wake-up; the engine ends; `IInv` holds |
| `vus_fresh` | 1 VU | stops at the counterexample | finding 3 |
| `distributed` | 2 workers, 1 record each, 1 fault, 1 Snapshot beside Stop, counters `total` and `success` | 2,057,565 | a failed Start is undone; totals never decrease; a complete result is exact; Stop reports the end |
| `iteration` | 8,672 requests in six families, 2 iterations, up to 4 shards | 50,768 | branches nest; the transition bound suffices; assertions and templates see this iteration; shards add up and are accepted |
| `arrivals` | 1 preallocated of 2 workers, 4 arrivals | 64,851 | every arrival begun or dropped once; the pacer never blocks; drops only at capacity; nothing cut early; the scheduler and every worker return |
| `limiter_fast` | rate 8, 3 ticks per second, 2 waiters, 6 ticks | 333,111 | the exact rate bounds the run and every window; `IInv` holds |

**Why the bounds are enough.** Two runs are needed for one to displace or be
mistaken for another, and every comparison in the code is between the held run
and one other; a third repeats the second. Two Stop handlers race each other and
the goroutine; three callers of the controller are one in a transition, one
waiting for it and one arriving in between. `MaxWork` has to be 1 for "the
counter moved after it was read" to be visible, 2 for it to move twice
(`controller_calls` asks nothing about counters and sets it to 0). One VU
already meets every race between its flag, token and context. The scan of several
flags and the order of retirements need more: the invariants were checked with two
VUs as well (1,474,773 states) and are proved for any number; liveness is beyond TLC
there. Two workers are what a partial failure of a phase needs, and what sums
need to differ from parts; every property of `DistributedRun` is about one worker or
all of them. One fault at any moment already separates "lost before", "lost after",
"late", "restarted" and "refused". Two counters, of which the code adds to one
first, are what a torn snapshot needs. Several records at once, which one record per
engine does not show, are covered by the proofs, whose invariant was checked with three
records of one worker and two faults as well (196,319 states). The families of `MCScenarioRun` wire one branch,
one join and one loop, and two branches and a loop, in every way that might be
accepted, so that the refusals of the compiler are exercised as well as its
acceptances; loads are taken at and around every limit. An assumption of
`MCScenarioRun` checks that the sets `executionDominators` computes are the dominators,
on every graph of three steps. Two workers of
which one is preallocated, with four arrivals, reach every branch of the
dispatch: handoff to one and to two idle workers, growth, and drop. A rate of 8 at 3 ticks per second has a
remainder of 2, so ticks carry at different phases; 6 ticks are two full cycles.
The real constants (1000 ticks, any rate) are covered by the proofs.

`CHECK_DEADLOCK FALSE` is set only where the system stops by itself: a headless
execution that returned, an engine whose goroutines have all returned, a distributed
run that was stopped, a virtual user that has run its iterations. The
controller and the worker serve for ever and are checked for deadlock.

**Fairness.** Weak fairness on every step of a goroutine that can run: Go runs
runnable goroutines. Weak fairness on the drain of a *cancelled* engine, because
everything its goroutines wait for selects on the context or is bounded by the
request timeout. No fairness for callers, for requests, for counting work, or for
the natural end of an engine (a worker's engine may have no duration), except in
`HeadlessRun` and the schedulers, where preflight demands a positive duration.
Strong fairness only on one case of a `select` inside a loop (the batcher's
cancelled context, the schedulers' deadline and drain timers): Go chooses
uniformly among ready cases, so a case that is ready again and again is taken.

## 5. Proofs

`WorkerServerProofs` proves, for every set of runs, handlers and pollers and every
bound, `InductiveInvariant`, `TypeCorrect`, `NoOrphan`, `StopFinal`,
`FinalSnapshot` and `ImplementsLifecycle`. None of the safety properties is inductive:
`StopIsFinal`, for instance, needs to know that a terminal state leaves no goroutine
about to publish. `IInv` adds where the goroutine of the held generation is for each
reported state (`HeldRun`), that each engine is started once and left only when done
or published (`TaskEngine`), that an identifier belongs to one generation
(`FreshRuns`), that a handler between its critical sections remembers a run that was
running (`StopHandlers`), and that terminal answers for started runs follow the end of
the engine (`FinalAnswers`). There is one lemma per action. The refinement shows that
the initial state maps to the initial state of `RunLifecycle` and every step to a step
or a stutter. Assumptions: the bounds are naturals and `NoRun` is no run.

`RateLimiterProofs` proves, for every rate, tick rate, set of waiters and number of
ticks, `InductiveInvariant`, `TypeCorrect`, `RateRespected` and `BurstBounded`. The
bounds themselves are not inductive, since they say nothing of permits that are queued
or still to be sent. `IInv` counts all of them, in fractions of `1/Den` so that the
carried remainder is part of the account: a tick adds exactly `Num` to it
(`TickAccount`, from the lemma `Division` on quotient and remainder), every other step
moves permits or loses some (`MoveInv`). Assumption: rate and tick rate are positive
naturals.

`VUSchedulerProofs` proves, for any number of virtual users, `InductiveInvariant`,
`RetirementReachesAll`, `VerdictTrue` and `WakeupsArrive`. That forced retirement
reaches an iteration, for instance, depends on where the VU is between creating,
registering and checking its context (`RegisteredOK`), and that an idle verdict is true
depends on the scan having seen each flag after the VU could no longer claim work
(`DrainingOK`, `ScanOK`). There is one lemma per action. Assumption: the number of VUs
is a positive natural.

`RunControllerProofs` proves, for any callers, any number of runs, any work and any
faults of the factories, `ControllerInvariant`, `OwnedRuns`, `TransitionsAnnounced`,
`StopEndsTheRun` and `FinalBatch`. That nothing runs behind an idle controller is not
inductive: it depends on who may declare it idle. `IInv` says that an open transition
has exactly one owner, which works on the latest run (`OwnerOK`), how far the owner has
come with that run (`ProgressOK`), what a watcher has seen to its end (`RunsOK`), that
only the latest channel can be open (`ChannelsOK`), that a run some Stop has ended is
not the one in progress (`EndedOK`), and what a batcher that was told to leave carries
(`LeavingOK`): its cancel comes after the engine's end, so the counters it copies for
the final batch no longer move. There is one lemma per action. Assumption: the bounds
are naturals.

`HeadlessRunProofs` extends the proofs of the controller. `RunnerIsAController` shows
that every behaviour of the headless runner is one of the controller with one caller,
so `IInv` and everything proved from it hold of it too. `HeadlessIInv` adds what the
controller cannot know: that the runner's run is the controller's first and only one and
where the runner's own call of Start or Stop is (`CallOK`), that an engine is started
before its batcher (`StartedOK`), and that a batch that says the run is over, in the
batcher's hands or kept by the runner, was read after the engine had ended (`BatchOK`,
`KeptOK`). `ReportsFollowRuns` and `FailuresLeaveNothing` follow, for
any work and any moment of the signal.

`ArrivalSchedulerProofs` proves `ArrivalInvariant`, `EveryArrivalAccounted`,
`SendsNeverBlock`, `DropsAtCapacity` and `DrainCutsNobody` for any pool and any number
of arrivals. The counts are the heart of it: `liveWorkers` is the number of workers that
have not gone plus the completions still in the channel (`PoolOK`), an arrival is due, in
a worker's hands, begun or dropped (`CountOK`), and a worker is held by one of the stack,
the channel and the dispatcher, once (`HeldOK`). Room in the channels follows from
counting the workers that may still send. The lemmas on cardinalities come from the
library; the rest is one lemma per action. Assumption: the pool's sizes are naturals with
`1 <= PreAllocatedVUs <= MaxVUs`.

`DistributedRunProofs` proves `DistributedInvariant`, `FailedStartsAreUndone`,
`StopsAreReported`, `CompleteResultsAreExact` and `TotalsOnlyGrow`, for any set of
workers, any choice of counters, and any number of losses, restarts and late requests.
`IInv` says which requests can still arrive in each phase (`LateOK`: none but Stops once
Start has returned the run, and never both a Prepare and a Start), what a worker that
took the Stop of a failed Start can be (`UndoneOK`) and one that took the Stop of the run
(`StoppedOK`), and what an answer under way that says "stopped" means (`AnswerOK`): the
worker is stopped or has forgotten its run, its engine is done if it was ever published,
and each counter already loaded has its final value. It also relates the answer to Stop
that has come in but is not applied yet (`reply`) to the worker and to the snapshot under
way. None of this is visible in the four
properties, and each of them needs it. `TotalsOnlyGrow` is about a sum. The library has
no theorem on its folds and the provers cannot instantiate its induction theorems, so the
first part of the module derives induction on finite sets from the well-foundedness of
the naturals (`LeastNumber`, `Climb`, `SubsetInduction`), shows that the recursion of the
fold has a solution (`SumsExist`) that does not depend on the order (`TakeOut`), and that
a sum grows with its set and its numbers (`SumIsMonotone`). Assumptions: the workers are
a finite, non-empty set, at least one counter is followed, and the bounds are naturals.

`ScenarioRunProofs` proves `ScenarioInvariant`, `CountsAreFresh`, `BoundSuffices`,
`ShardsAddUp`, `RoutesInvariant`, `RoutesAreNested` and `VariablesResolve` for every
request: any plan, any steps, any load, any route taken and any outcome of a request. What an iteration relies on is what `compileExecutionPlan`
computed, so most of the module is about that.

* `executionDominators` and `forwardUntil` repeat a round until nothing changes. The
  models repeat it as often as there are steps; `ChainStops` shows that this is often
  enough. `LostIsClosed` and `LostIsLeast`, `FromIsClosed` and `FromIsLeast` say that the
  results are the least sets closed under a round, and `DominatorsDominate` that the sets
  computed are the dominators: those steps without which a step cannot be reached. It
  holds of every finite graph.
* `AssertionsAreFresh` is not inductive. `ProgramSound` keeps what the compiler has
  checked, for plans and for steps in order (`AcceptedIsSound`): targets are steps, and the
  request of an assertion dominates it. `FreshOK` says at every step that the
  assertions of all requests that dominate it have been evaluated in this iteration;
  going on to a successor keeps it because a dominator of the successor dominates the
  step (`Dominance`).
* `BoundIsEnough` needs an account of what is left. `ProgramBounded` keeps that the plan
  without the edges into bodies has no cycle, that loops do not nest, and that its steps
  and the rounds of its loops are no more than the bound (`BoundCounts`, by induction over
  the loops). `BoundOK` adds what has been done to what is left: outside of bodies the
  steps ahead and all rounds of the loops among them, in a body the rest of its rounds
  and what is ahead of its exit. Each transition takes one element from one of the two
  sets (`StepOutside`, `StepInside`, `StepIntoLoop`, `StepToNextRound`, `StepOutOfLoop`).
  It holds of every plan that is accepted, also of those of the first observation in
  section 7.
* `ShardsAgree` is about a request that preflight has accepted (`Ready`, from
  `AcceptedIsReady`), for any number of workers. `SplitIs` has the quotient and the
  remainder of a share; from it follow that a share is at least one unit where there are
  enough (`ShareIs`), that shares keep an order (`SharesGrow`, for `PreAllocatedVUs` and
  `MaxVUs`, and for the highest target in `ShardPeak`) and that they add up
  (`SharesAddUp`). `ActiveIs` says that there are enough for as many workers as
  `ShardConfigs` takes, and `ShareLoad` goes through every check that the engine makes of
  the load of a shard.

* `RoutesNest` is about all paths, so most of its proof is about regions. `Structured` has
  what `validateStructuredBranches` and `validateBoundedExecutionLoops` accept, on the
  graph without the edges into bodies. The routes of a branch have disjoint regions
  (`RegionsApart`), and with the bodies of the loops inside them (`InsideIs`) they are
  left only at the join (`InsideFacts`) and are still disjoint (`InsideApart`); a join is
  in no route of a branch inside of its own (`JoinOutside`). `FramesOK` says in every
  state that the open routes lie in one another, with the step in all of them or at the
  innermost join, and, of a branch that is not open, that it has not been met since the
  iteration began or since its join. The last part is what finds the branch of a join
  open: where no join can be met without its branch (`~JoinsUnopened`), a step that is a
  join has its branch among the frames, and only the innermost can join there
  (`JoinOfTop`, `OpenIsInside`). `FitsOn`, `FitsIn` and `FitsOut` keep it from step to step,
  in every accepted plan; only the conclusion needs `~JoinsUnopened`.
* `TemplatesResolve` needs the frames: a value captured in a route is gone at its join, and
  a branch that is entered again clears the values of its route. `ValuesOK` says that
  what the requests that dominate the step have captured is known in the frames that
  are open, and that what those that dominate an open branch have captured is known
  outside of it, or was missed. Leaving a route keeps it because what dominates a join
  dominates its branch (`JoinDominators`: a step is on one route at most, and a branch has
  another). It holds of every accepted plan, also of those with unopened joins.

The only assumptions are that requests are records of the types of the wire, and that the
bounds are naturals.

TLC checks the `IInv` of the worker, the limiter and the VU scheduler in `worker`,
`limiter_fast` and `vus`; the others were checked with TLC on the instances of the runs
before they were proved.

**Only model-checked:** every liveness property, since the prover has no support for
fairness and ENABLED: that calls, Stops, engines, pools and batchers end, and that ends are
reported. Every invariant and every action property of a passing run is the conclusion
of a theorem, for every value of the constants.

## 6. Findings

1. `headless_exact`: the report of a headless run may miss the results counted
   between the two reads of a periodic batch (batcher.go:164-165), because the
   emitter keeps the first batch that is not running (runner.go:104-108). README.md:74
   calls these summaries final and exact.
2. `headless_cancel`: a run cut short by a signal returns a normal report, with exit
   code 0, when its last batch is ready before the runner looks
   (runner.go:65-74); docs/headless-runner.md:30-33 gives cancellation exit code 3.
3. `vus_fresh`: a VU that was retired while idle has its context cancelled all the
   same (scheduler.go:121-127) and begins its next activation under it
   (scheduler.go:156); README.md:98-99 promises active iterations their graceful-stop
   window.

## 7. Observations

*A join can be met without its branch.* `validateStructuredBranches`
(execution_plan.go:507-572) looks at the graph without the edges into loop bodies, so
`compileExecutionPlan` accepts plans in which the body of a loop meets a join whose
branch was not taken on that way; the iteration then ends silently at
execution_runtime.go:43. Three shapes, `R` being the entry, `B{..}` and `D{..}` branches, `J` and
`K` their joins, `L` a loop:

* `R -> B{S, J}`, `S -> J -> L`, body of `L` is `S`: the body starts inside a route.
* `R -> B{J, J}`, `J -> L`, body of `L` is `S`, `S -> J`: the body holds the join.
* `R -> B{S, J}`, `S -> K -> L`, body of `L` is `D{T, K}`, `T -> K`, exit of `L` is `J`: a
  route holds the join of a branch that only the body reaches, and the iteration ends
  inside the open route.

README.md:128-131 says that every route must converge at its declared Join without
merging early. The operator `JoinsUnopened` of `ScenarioRun` characterises these plans;
`RoutesNest` leaves them out, and `RoutesAreNested` proves it for all others. The other
properties about plans are proved for these too.

*A route's frame stays open in a loop's body.* A loop inside a route runs its body with
the route's frame on the stack, although the region `forwardUntil` computes for the
route does not contain the body (`Inside` in `ScenarioRun` adds it).

*A failed capture uncovers an older value.* `invalidate` deletes from the innermost frame
only, so a capture that failed inside a route leaves the value captured outside
visible to later templates of the route (engine.go:75-93, 125-133).

*Preflight is stricter on captures.* `normalizeCaptures` refuses an entry with an empty
name and path that `compileVariableCaptures` skips (preflight.go:593-623, config.go:792-842).

*Shards of a ramp.* Targets add up at the ends of stages; in the middle of a ramp each
worker rounds for itself, so the sum may differ from the whole by less than the number
of workers.

## 8. Abstractions worth knowing

* Validation of requests and plans is left out where it changes no state; refused
  requests then do nothing in the model as in the code.
* The data of batches, snapshots and reports is one counter, the only thing the
  properties compare.
* HTTP requests of an iteration are not modelled: an iteration ends at some moment,
  or when its context is cancelled.
* A second Start of the same engine does not occur, since every owner starts an
  engine once; an engine that is already running when the controller gets it is
  covered by `Faults`.
* `PreAllocatedVUs + Total` workers suffice in `ArrivalScheduler`: each arrival
  starts at most one.
* In `DistributedRun` a scheduled start fires at any later moment or is refused as
  outside its window: clock offsets and leads are abstracted to that. Each run has a
  fresh identifier, so requests of other runs never match. The checks of step and
  route descriptors (aggregate.go:241-280) always pass, since all shards come from
  one plan. Bytes and latencies are added and compared like the counters that are
  modelled. A percentile computed from a torn snapshot is not modelled.
* A complete result is exact only for workers that published their start: a worker
  stopped between its timer and its publication may still be ending its engine.
* `ScenarioRun` keeps names, not values: a template resolves when each of its
  variables has some value. Outcomes of requests, assertions and captures are free.
  The weights of a branch and the hash that picks a route are abstracted to any
  route, the same one each time the branch is met in an iteration, as in the code.
* Of the limits, those on loads, on steps, routes, weights and loop iterations, on hosts
  and on connections are kept with the source's values. Those on bytes and lengths of
  texts, and on the headers, captures and variables of one step or plan, are left out:
  they refuse a request and change nothing else. Preflight's memory estimate is left out.
* The counters of an engine are kept per stripe (`statsShard`) and a snapshot goes over
  the stripes one after the other. The models load the sum of one counter over the
  stripes in one step, in the order in which one stripe is loaded.

**Not modelled.** The OpenAPI importer, scenario files, reports and quality gates turn one
document into another without state or concurrency, and a model of them would repeat
the code. The integrals of a load profile are floating-point functions of real time;
the schedulers are modelled for any target and any arrivals instead. HTTP, TLS, system
limits, command-line programs, the release manifest and the Wails runtime are I/O around
the components above. The frontend is a single-threaded editor with views and
converters; what reaches the engine from it passes the preflight that is modelled.
