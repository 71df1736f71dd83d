--------------------------- MODULE RunController ---------------------------
(***************************************************************************)
(* The local run controller (src/internal/bridge/controller.go) with the   *)
(* metrics batcher (batcher.go) and the life of the engines it owns        *)
(* (src/internal/engine/engine.go Start, Stop, Done).                      *)
(*                                                                         *)
(* Start and Stop are called by concurrent callers (the desktop's bound    *)
(* methods, shutdown, the headless runner). Both hold c.mu only to change  *)
(* the state, do their slow work unlocked, and announce the end of the     *)
(* transition by closing a channel others wait for. Every published run    *)
(* has a watcher goroutine that notices the end of the engine, and every   *)
(* batcher a goroutine that emits batches.                                 *)
(*                                                                         *)
(* Run n is the n-th accepted Start: its engine and its batcher. A         *)
(* transition channel is a number. Preflight, which touches no state, and  *)
(* time are abstracted: tickers and profiles may fire at any moment.       *)
(***************************************************************************)
EXTENDS Naturals

CONSTANTS Callers,    \* goroutines calling Start and Stop
          MaxRuns,    \* bound on accepted Starts
          MaxWork,    \* bound on the results one engine counts
          Faults      \* failures the injected factories may show: a subset of
                      \* {"compile", "engine", "batcher"}

ASSUME BoundsAssumption == MaxRuns \in Nat /\ MaxWork \in Nat
ASSUME FaultsAssumption == Faults \subseteq {"compile", "engine", "batcher"}

Runs == 1 .. MaxRuns
Channels == 1 .. 2 * MaxRuns

VARIABLES cstate, transition, current,  \* under c.mu; 0 is a nil channel or engine
          channels, closed,             \* transition channels made and closed
          runs,                         \* accepted Starts so far
          caller,                       \* each caller's pc and locals
          watcher,                      \* stopBatcherWhenEngineStops of each run
          engine, cancelled, work,      \* each engine: life, e.cancel called, counter
          batcher,                      \* each batcher goroutine: pc and locals
          quit,                         \* batchers whose cancel was called
          parent,                       \* the context given to Start is cancelled
          last,                         \* history: the last batch emitted by each run
          ended                         \* history: runs a returned Stop had to end

controlVars == <<cstate, transition, current, channels, closed>>
engineVars == <<engine, cancelled, work>>
batcherVars == <<batcher, quit, last>>
vars == <<controlVars, runs, caller, watcher, engineVars, batcherVars, parent, ended>>

Idle == [pc |-> "idle", run |-> 0, channel |-> 0, target |-> 0]
StartPCs == {"compile", "engineStart", "batcherStart", "publish"}
StopPCs == {"engineStop", "engineWait", "batcherStop", "batcherWait", "finish"}
BatcherOff == [pc |-> "off", final |-> FALSE, total |-> 0, running |-> FALSE]
NoBatch == [total |-> 0, running |-> TRUE]

EngineLive(n) == engine[n] = "running"
BatcherLive(n) == batcher[n].pc \in {"loop", "read", "send", "close"}

CallerState == [pc : {"idle", "await", "retry"} \cup StartPCs \cup StopPCs,
                run : 0 .. MaxRuns, channel : Channels \cup {0}, target : 0 .. MaxRuns]
BatcherState == [pc : {"off", "ready", "loop", "read", "send", "close", "done"},
                 final : BOOLEAN, total : 0 .. MaxWork, running : BOOLEAN]

\* The type of every variable.
TypeOK ==
  /\ cstate \in {"idle", "starting", "running", "stopping"}
  /\ transition \in Channels \cup {0} /\ channels \in Channels \cup {0}
  /\ closed \subseteq Channels
  /\ current \in 0 .. MaxRuns /\ runs \in 0 .. MaxRuns
  /\ caller \in [Callers -> CallerState]
  /\ watcher \in [Runs -> {"none", "engine", "stop", "batcher", "lock", "exit"}]
  /\ engine \in [Runs -> {"none", "ready", "running", "halted", "done"}]
  /\ cancelled \subseteq Runs /\ quit \subseteq Runs
  /\ work \in [Runs -> 0 .. MaxWork]
  /\ batcher \in [Runs -> BatcherState]
  /\ parent \in BOOLEAN
  /\ last \in [Runs -> [total : 0 .. MaxWork, running : BOOLEAN]]
  /\ ended \subseteq Runs

Init ==
  /\ cstate = "idle" /\ transition = 0 /\ current = 0
  /\ channels = 0 /\ closed = {} /\ runs = 0
  /\ caller = [c \in Callers |-> Idle]
  /\ watcher = [n \in Runs |-> "none"]
  /\ engine = [n \in Runs |-> "none"] /\ cancelled = {}
  /\ work = [n \in Runs |-> 0]
  /\ batcher = [n \in Runs |-> BatcherOff] /\ quit = {}
  /\ parent = FALSE
  /\ last = [n \in Runs |-> NoBatch]
  /\ ended = {}

Go(c, pc) == caller' = [caller EXCEPT ![c].pc = pc]

\* make(chan struct{}) for a new transition of state to.
OpenTransition(to) ==
  /\ cstate' = to
  /\ channels' = channels + 1
  /\ transition' = channels + 1
  /\ UNCHANGED closed

\* Mutant of CompleteTransition: the channel is dropped without closing it.
CompleteTransitionSilently(channel) ==
  IF transition = channel
  THEN transition' = 0 /\ UNCHANGED closed
  ELSE UNCHANGED <<closed, transition>>

\* completeTransitionLocked: only the channel that is still current is closed.
CompleteTransition(channel) ==
  IF transition = channel
  THEN closed' = closed \cup {channel} /\ transition' = 0
  ELSE UNCHANGED <<closed, transition>>

-----------------------------------------------------------------------------
(* Start.                                                                  *)

\* Any other state than idle refuses with ErrAlreadyRunning and changes nothing.
StartAccepted(c) ==
  /\ caller[c].pc = "idle"
  /\ cstate = "idle" /\ runs < MaxRuns
  /\ OpenTransition("starting")
  /\ runs' = runs + 1
  /\ caller' = [caller EXCEPT ![c] = [pc |-> "compile", run |-> runs + 1,
                                      channel |-> channels + 1, target |-> 0]]
  /\ UNCHANGED <<current, watcher, engineVars, batcherVars, parent, ended>>

\* newEngine rejects the configuration: roll back without engine and batcher.
CompileFails(c) ==
  /\ caller[c].pc = "compile" /\ "compile" \in Faults
  /\ Go(c, "finish")
  /\ UNCHANGED <<controlVars, runs, watcher, engineVars, batcherVars, parent, ended>>

\* newEngine and newBatcher. The factories are fields of the controller; an
\* injected one may hand out an engine or a batcher that is already started.
Build(c) ==
  LET n == caller[c].run IN
  /\ caller[c].pc = "compile"
  /\ \E e \in {"ready"} \cup (IF "engine" \in Faults THEN {"running"} ELSE {}) :
     \E b \in {"ready"} \cup (IF "batcher" \in Faults THEN {"loop"} ELSE {}) :
       /\ engine' = [engine EXCEPT ![n] = e]
       /\ batcher' = [batcher EXCEPT ![n].pc = b]
  /\ Go(c, "engineStart")
  /\ UNCHANGED <<controlVars, runs, watcher, cancelled, work, quit, last, parent, ended>>

\* e.Start: an engine that already runs answers ErrAlreadyRunning.
EngineStart(c) ==
  LET n == caller[c].run IN
  /\ caller[c].pc = "engineStart"
  /\ IF EngineLive(n)
     THEN Go(c, "engineStop") /\ UNCHANGED engine
     ELSE Go(c, "batcherStart") /\ engine' = [engine EXCEPT ![n] = "running"]
  /\ UNCHANGED <<controlVars, runs, watcher, cancelled, work, batcherVars, parent, ended>>

\* batcher.Start: a batcher that already runs answers ErrBatcherRunning.
BatcherStart(c) ==
  LET n == caller[c].run IN
  /\ caller[c].pc = "batcherStart"
  /\ IF BatcherLive(n)
     THEN Go(c, "engineStop") /\ UNCHANGED batcher
     ELSE Go(c, "publish") /\ batcher' = [batcher EXCEPT ![n].pc = "loop"]
  /\ UNCHANGED <<controlVars, runs, watcher, engineVars, quit, last, parent, ended>>

PublishRun(c) ==
  LET n == caller[c].run IN
  /\ caller[c].pc = "publish"
  /\ current' = n
  /\ cstate' = "running"
  /\ CompleteTransition(caller[c].channel)
  /\ watcher' = [watcher EXCEPT ![n] = "engine"]
  /\ caller' = [caller EXCEPT ![c] = Idle]
  /\ UNCHANGED <<channels, runs, engineVars, batcherVars, parent, ended>>

-----------------------------------------------------------------------------
(* Stop, and the rollback of a failed Start, which ends the same way.      *)

\* The run in progress when Stop was called; a retry keeps the first answer.
Target(c) == IF caller[c].pc \in {"await", "retry"} THEN caller[c].target
             ELSE IF cstate = "idle" THEN 0 ELSE runs

Returns(c) ==
  /\ ended' = ended \cup ({Target(c)} \ {0})
  /\ caller' = [caller EXCEPT ![c] = Idle]

StopWhenIdle(c) ==
  /\ caller[c].pc \in {"idle", "retry"}
  /\ cstate = "idle"
  /\ Returns(c)
  /\ UNCHANGED <<controlVars, runs, watcher, engineVars, batcherVars, parent>>

StopInTransition(c) ==
  /\ caller[c].pc \in {"idle", "retry"}
  /\ cstate \in {"starting", "stopping"}
  /\ caller' = [caller EXCEPT ![c] = [pc |-> "await", run |-> 0, channel |-> transition,
                                      target |-> Target(c)]]
  /\ UNCHANGED <<controlVars, runs, watcher, engineVars, batcherVars, parent, ended>>

\* Mutant of TransitionEnded: the end of the transition is taken for the end of
\* the run.
TransitionEndedReturns(c) ==
  /\ caller[c].pc = "await"
  /\ caller[c].channel \in closed
  /\ Returns(c)
  /\ UNCHANGED <<controlVars, runs, watcher, engineVars, batcherVars, parent>>

\* The transition others wait for has ended: look at the state again.
TransitionEnded(c) ==
  /\ caller[c].pc = "await"
  /\ caller[c].channel \in closed
  /\ Go(c, "retry")
  /\ UNCHANGED <<controlVars, runs, watcher, engineVars, batcherVars, parent, ended>>

StopWhenRunning(c) ==
  /\ caller[c].pc \in {"idle", "retry"}
  /\ cstate = "running"
  /\ OpenTransition("stopping")
  /\ caller' = [caller EXCEPT ![c] = [pc |-> "engineStop", run |-> current,
                                      channel |-> channels + 1, target |-> Target(c)]]
  /\ UNCHANGED <<current, runs, watcher, engineVars, batcherVars, parent, ended>>

\* Mutant of StopEngine: cancel without waiting for Done.
StopEngineNoWait(c) ==
  LET n == caller[c].run IN
  /\ caller[c].pc = "engineStop"
  /\ Go(c, "batcherStop")
  /\ cancelled' = IF EngineLive(n) THEN cancelled \cup {n} ELSE cancelled
  /\ UNCHANGED <<controlVars, runs, watcher, engine, work, batcherVars, parent, ended>>

\* stopEngine: Engine.Stop cancels a running engine and waits for Done, and
\* answers ErrNotRunning, which is ignored, as soon as Running is false.
StopEngine(c) ==
  LET n == caller[c].run IN
  /\ caller[c].pc = "engineStop"
  /\ IF EngineLive(n)
     THEN Go(c, "engineWait") /\ cancelled' = cancelled \cup {n}
     ELSE Go(c, "batcherStop") /\ UNCHANGED cancelled
  /\ UNCHANGED <<controlVars, runs, watcher, engine, work, batcherVars, parent, ended>>

EngineStopped(c) ==
  /\ caller[c].pc = "engineWait"
  /\ engine[caller[c].run] = "done"
  /\ Go(c, "batcherStop")
  /\ UNCHANGED <<controlVars, runs, watcher, engineVars, batcherVars, parent, ended>>

\* Batcher.Stop: cancel its context and wait for its goroutine.
StopBatcher(c) ==
  LET n == caller[c].run IN
  /\ caller[c].pc = "batcherStop"
  /\ IF BatcherLive(n)
     THEN Go(c, "batcherWait") /\ quit' = quit \cup {n}
     ELSE Go(c, "finish") /\ UNCHANGED quit
  /\ UNCHANGED <<controlVars, runs, watcher, engineVars, batcher, last, parent, ended>>

BatcherStopped(c) ==
  /\ caller[c].pc = "batcherWait"
  /\ batcher[caller[c].run].pc = "done"
  /\ Go(c, "finish")
  /\ UNCHANGED <<controlVars, runs, watcher, engineVars, batcherVars, parent, ended>>

FinishStop(c) ==
  /\ caller[c].pc = "finish"
  /\ current' = 0
  /\ cstate' = "idle"
  /\ CompleteTransition(caller[c].channel)
  /\ caller' = [caller EXCEPT ![c] = Idle]
  /\ ended' = ended \cup ({caller[c].target} \ {0})
  /\ UNCHANGED <<channels, runs, watcher, engineVars, batcherVars, parent>>

-----------------------------------------------------------------------------
(* The watcher of a published run.                                         *)

Watch(n, from, to) == watcher[n] = from /\ watcher' = [watcher EXCEPT ![n] = to]

WatcherSeesDone(n) ==
  /\ Watch(n, "engine", "stop")
  /\ engine[n] = "done"
  /\ UNCHANGED <<controlVars, runs, caller, engineVars, batcherVars, parent, ended>>

WatcherStopsBatcher(n) ==
  /\ Watch(n, "stop", IF BatcherLive(n) THEN "batcher" ELSE "lock")
  /\ quit' = IF BatcherLive(n) THEN quit \cup {n} ELSE quit
  /\ UNCHANGED <<controlVars, runs, caller, engineVars, batcher, last, parent, ended>>

WatcherJoinsBatcher(n) ==
  /\ Watch(n, "batcher", "lock")
  /\ batcher[n].pc = "done"
  /\ UNCHANGED <<controlVars, runs, caller, engineVars, batcherVars, parent, ended>>

\* Mutant of StillMine: any running run is taken for the watched one.
StillMineAnyRun(n) == cstate = "running"

\* The watcher may be late: only its own run, still running, is cleared.
StillMine(n) == cstate = "running" /\ current = n

\* Mutant of WatcherClears: the end of the run is not recorded.
WatcherClearsNothing(n) ==
  /\ Watch(n, "lock", "exit")
  /\ UNCHANGED <<controlVars, runs, caller, engineVars, batcherVars, parent, ended>>

WatcherClears(n) ==
  /\ Watch(n, "lock", "exit")
  /\ IF StillMine(n) THEN cstate' = "idle" /\ current' = 0
     ELSE UNCHANGED <<cstate, current>>
  /\ UNCHANGED <<transition, channels, closed, runs, caller, engineVars, batcherVars,
                 parent, ended>>

-----------------------------------------------------------------------------
(* The engine and the batcher goroutine of a run.                          *)

\* Mutant of Cancelled: the engine does not derive its context from the caller's.
CancelledByStopOnly(n) == n \in cancelled

Cancelled(n) == n \in cancelled \/ parent

EngineCounts(n) ==
  /\ EngineLive(n) /\ work[n] < MaxWork
  /\ work' = [work EXCEPT ![n] = @ + 1]
  /\ UNCHANGED <<controlVars, runs, caller, watcher, engine, cancelled, batcherVars,
                 parent, ended>>

\* Every goroutine returned, at the end of the profile or after cancel: first
\* Running turns false ...
EngineHalts(n) ==
  /\ EngineLive(n)
  /\ engine' = [engine EXCEPT ![n] = "halted"]
  /\ UNCHANGED <<controlVars, runs, caller, watcher, cancelled, work, batcherVars,
                 parent, ended>>

\* ... then Done is closed.
EngineCloses(n) ==
  /\ engine[n] = "halted"
  /\ engine' = [engine EXCEPT ![n] = "done"]
  /\ UNCHANGED <<controlVars, runs, caller, watcher, cancelled, work, batcherVars,
                 parent, ended>>

BatcherFrame == UNCHANGED <<controlVars, runs, caller, watcher, engineVars, quit, parent, ended>>

\* emit begins by copying the counters.
Emitting(n, final) == [pc |-> "read", final |-> final, total |-> work[n], running |-> FALSE]

\* The select takes the ticker, or the cancelled context.
BatcherTick(n) ==
  /\ batcher[n].pc = "loop"
  /\ batcher' = [batcher EXCEPT ![n] = Emitting(n, FALSE)]
  /\ BatcherFrame /\ UNCHANGED last

\* Mutant of BatcherQuits: leave without the deferred final batch.
BatcherQuitsSilently(n) ==
  /\ batcher[n].pc = "loop"
  /\ n \in quit \/ parent
  /\ batcher' = [batcher EXCEPT ![n].pc = "close"]
  /\ BatcherFrame /\ UNCHANGED last

BatcherQuits(n) ==
  /\ batcher[n].pc = "loop"
  /\ n \in quit \/ parent
  /\ batcher' = [batcher EXCEPT ![n] = Emitting(n, TRUE)]
  /\ BatcherFrame /\ UNCHANGED last

\* Only then emit asks whether the engine is running.
BatcherReadsRunning(n) ==
  /\ batcher[n].pc = "read"
  /\ batcher' = [batcher EXCEPT ![n] =
                   [pc |-> "send", final |-> batcher[n].final, total |-> batcher[n].total,
                    running |-> EngineLive(n)]]
  /\ BatcherFrame /\ UNCHANGED last

Batch(n) == [total |-> batcher[n].total, running |-> batcher[n].running]

BatcherEmits(n) ==
  /\ batcher[n].pc = "send"
  /\ last' = [last EXCEPT ![n] = Batch(n)]
  /\ batcher' = [batcher EXCEPT ![n] =
                   [pc |-> IF batcher[n].final THEN "close" ELSE "loop",
                    final |-> FALSE, total |-> 0, running |-> FALSE]]
  /\ BatcherFrame

BatcherCloses(n) ==
  /\ batcher[n].pc = "close"
  /\ batcher' = [batcher EXCEPT ![n].pc = "done"]
  /\ BatcherFrame /\ UNCHANGED last

\* The caller's context ends: SIGINT in the headless runner, application exit.
CancelParent ==
  /\ ~parent
  /\ parent' = TRUE
  /\ UNCHANGED <<controlVars, runs, caller, watcher, engineVars, batcherVars, ended>>

-----------------------------------------------------------------------------
CallStop(c) == StopWhenIdle(c) \/ StopInTransition(c) \/ StopWhenRunning(c)

\* Everything a caller does once its call was accepted.
Continue(c) ==
  \/ CompileFails(c) \/ Build(c) \/ EngineStart(c) \/ BatcherStart(c) \/ PublishRun(c)
  \/ TransitionEnded(c) \/ (caller[c].pc = "retry" /\ CallStop(c))
  \/ StopEngine(c) \/ EngineStopped(c) \/ StopBatcher(c) \/ BatcherStopped(c) \/ FinishStop(c)

WatcherStep(n) ==
  WatcherSeesDone(n) \/ WatcherStopsBatcher(n) \/ WatcherJoinsBatcher(n) \/ WatcherClears(n)

EngineStep(n) == EngineCounts(n) \/ EngineHalts(n) \/ EngineCloses(n)

BatcherStep(n) ==
  BatcherTick(n) \/ BatcherQuits(n) \/ BatcherReadsRunning(n) \/ BatcherEmits(n) \/ BatcherCloses(n)

Next ==
  \/ \E c \in Callers :
       StartAccepted(c) \/ (caller[c].pc = "idle" /\ CallStop(c)) \/ Continue(c)
  \/ \E n \in Runs : WatcherStep(n) \/ EngineStep(n) \/ BatcherStep(n)
  \/ CancelParent

\* Runnable goroutines run. A cancelled engine halts, since all it waits for
\* selects on its context; an engine that is not cancelled need not. Go's
\* select chooses uniformly among ready cases, so a batcher that is offered
\* its cancelled context again and again takes it: strong fairness.
Fairness ==
  /\ \A c \in Callers : WF_vars(Continue(c))
  /\ \A n \in Runs :
       /\ WF_vars(WatcherStep(n))
       /\ WF_vars(Cancelled(n) /\ EngineHalts(n)) /\ WF_vars(EngineCloses(n))
       /\ WF_vars(BatcherStep(n)) /\ SF_vars(BatcherQuits(n))

Spec == Init /\ [][Next]_vars /\ Fairness

-----------------------------------------------------------------------------
(* Safety.                                                                 *)

\* A live engine or batcher belongs to the latest accepted Start, and the
\* controller is not idle; once published it is the run that Stop reaches.
Owned ==
  \A n \in Runs : EngineLive(n) \/ BatcherLive(n) =>
    /\ n = runs
    /\ cstate # "idle"
    /\ cstate = "running" => current = n

\* Every variable has its type, two runs never overlap, and nothing runs behind
\* the back of an idle controller.
NothingRunsUnowned == TypeOK /\ Owned

\* Whatever run was starting, running or stopping when Stop was called is over
\* when Stop returns, also when Stop came while it was still being started.
StopMeansStopped ==
  \A n \in ended : ~EngineLive(n) /\ ~BatcherLive(n)

\* A caller waits only for a channel that is closed already or that the owner
\* of the current transition will close: no Stop waits for a lost wake-up.
NoLostTransition ==
  /\ (cstate \in {"starting", "stopping"}) <=> (transition # 0)
  /\ transition \notin closed
  /\ \A c \in Callers : caller[c].pc = "await" =>
       caller[c].channel \in closed \/ caller[c].channel = transition

\* Unless its context was cancelled from outside, a batcher leaves only after
\* the engine has stopped, and the last batch of the run carries the final
\* counters and says that the run is over.
LastBatchIsFinal ==
  \A n \in Runs : batcher[n].pc = "done" /\ ~parent =>
    ~EngineLive(n) /\ last[n] = [total |-> work[n], running |-> FALSE]

(* The inductive invariant of RunControllerProofs: the parts below, which  *)
(* imply the properties above, or hold them as they are.                   *)

Busy(c) == caller[c].pc \in StartPCs \cup StopPCs

\* Each run has at most two transitions, only the latest can be open, and nobody
\* waits for a nil channel.
ChannelsOK ==
  /\ channels <= 2 * runs
  /\ cstate \in {"starting", "running"} => channels < 2 * runs
  /\ transition \in {0, channels} /\ closed \subseteq 1 .. channels
  /\ cstate = "running" => current = runs /\ runs > 0
  /\ \A c \in Callers : caller[c].pc = "await" => caller[c].channel # 0

\* A transition has one owner, which works on the latest run.
OwnerOK ==
  /\ \A c \in Callers : Busy(c) =>
       /\ cstate \in {"starting", "stopping"}
       /\ caller[c].pc \in StartPCs => cstate = "starting"
       /\ caller[c].channel = transition
       /\ caller[c].run = runs /\ runs > 0
  /\ \A c, d \in Callers : Busy(c) /\ Busy(d) => c = d

\* How far the owner has come with the engine and the batcher of its run.
ProgressOK ==
  \A c \in Callers : LET n == caller[c].run IN
    /\ caller[c].pc \in StartPCs => watcher[n] = "none" /\ n \notin quit
    /\ caller[c].pc = "compile" => engine[n] = "none" /\ batcher[n] = BatcherOff
    /\ caller[c].pc \in {"batcherStop", "batcherWait", "finish"} => ~EngineLive(n)
    /\ caller[c].pc = "finish" => ~BatcherLive(n)

\* Runs that are still to come, and what a watcher has seen to its end.
RunsOK ==
  \A n \in Runs :
    /\ n > runs => /\ engine[n] = "none" /\ batcher[n] = BatcherOff
                   /\ watcher[n] = "none" /\ n \notin quit
    /\ watcher[n] \in {"stop", "batcher", "lock"} => ~EngineLive(n)
    /\ watcher[n] = "lock" => ~BatcherLive(n)
    /\ n \in quit => ~EngineLive(n)

\* A run that a Stop has ended is not the one in progress.
EndedOK ==
  /\ \A n \in ended : n <= runs /\ (cstate # "idle" => n < runs)
  /\ \A c \in Callers : caller[c].target <= runs

\* The last batch of a batcher that was told to leave, on its way.
LeavingOK ==
  \A n \in Runs :
    /\ batcher[n].pc \notin {"read", "send"} => ~batcher[n].final
    /\ ~parent =>
         /\ batcher[n].final => n \in quit /\ batcher[n].total = work[n]
         /\ batcher[n].final /\ batcher[n].pc = "send" => ~batcher[n].running
         /\ batcher[n].pc \in {"close", "done"} =>
              n \in quit /\ last[n] = [total |-> work[n], running |-> FALSE]

IInv ==
  /\ NothingRunsUnowned /\ NoLostTransition
  /\ ChannelsOK /\ OwnerOK /\ ProgressOK /\ RunsOK /\ EndedOK /\ LeavingOK

(* Liveness.                                                               *)

\* Stop and Start return: no call waits forever for an engine, a batcher or
\* another caller's transition.
CallsReturn == \A c \in Callers : (caller[c].pc # "idle") ~> (caller[c].pc = "idle")

\* The end of the engine is noticed: the controller lets go of a finished run.
FinishedRunIsReleased ==
  \A n \in Runs : (engine[n] = "done") ~> (current # n)

\* A cancelled context ends whatever is running and leaves the controller idle.
ParentEndsEverything ==
  parent ~> (cstate = "idle" /\ \A n \in Runs : ~EngineLive(n) /\ ~BatcherLive(n))
=============================================================================
