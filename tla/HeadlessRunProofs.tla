------------------------- MODULE HeadlessRunProofs -------------------------
(***************************************************************************)
(* Proofs about HeadlessRun for any number of runs and results. A step of  *)
(* the runner is a step of the controller or leaves it alone, so all that  *)
(* is proved of the controller holds here too; HeadlessIInv adds where the *)
(* runner's one call has come to, and what the batch the emitter keeps     *)
(* says of the run: it was read after the engine had halted, and an engine *)
(* is never started twice.                                                 *)
(***************************************************************************)
EXTENDS HeadlessRun, RunControllerProofs

LEMMA RunnerCalls == Runner \in Callers
BY RunnerAssumption

\* The runner uses the controller the way the controller allows.
LEMMA StepIsControllers == RunnerNext => [Next]_vars
<1>1. InsideCall => Next BY RunnerCalls DEF InsideCall, Next
<1>2. SeesCancel \/ Wakes => Next
  BY RunnerCalls
  DEF SeesCancel, Wakes, CallStop, StopWhenIdle, StopInTransition, StopWhenRunning, Next, Continue
<1>3. CallsStart \/ StartReturns => Next
  BY RunnerCalls DEF CallsStart, StartReturns, Next, Continue
<1>4. RefusesCancelled \/ TakesReport \/ Parks \/ StopReturns => UNCHANGED vars
  BY DEF RefusesCancelled, TakesReport, Parks, StopReturns
<1>5. CancelWakes => Next BY DEF CancelWakes, Next
<1>6. ASSUME NEW n \in Runs PROVE Background(n) => Next
  BY DEF Background, Emit, Halt, Next, EngineStep, BatcherStep
<1> QED BY <1>1, <1>2, <1>3, <1>4, <1>5, <1>6 DEF RunnerNext, RunnerStep

\* Where the runner's call is busy, it works on the one run there is.
LEMMA CallWorks ==
  ASSUME HeadlessIInv, Busy(Runner)
  PROVE  /\ caller[Runner].run = runs /\ runs = 1 /\ runs \in Runs
         /\ runner \in {"starting", "stopping"}
<1>1. caller[Runner].run = runs /\ runs \in Runs
  BY RunnerCalls, OwnerAlone DEF HeadlessIInv
<1>2. caller[Runner].pc # "idle" BY DEF Busy, StartPCs, StopPCs
<1> QED BY <1>1, <1>2 DEF HeadlessIInv, CallOK

\* What runs does so for the one run there is.
LEMMA LiveIsTheRun ==
  ASSUME HeadlessIInv, NEW n \in Runs, EngineLive(n) \/ BatcherLive(n)
  PROVE  n = runs /\ runs = 1 /\ cstate # "idle"
<1>1. n = runs /\ cstate # "idle" BY DEF HeadlessIInv, IInv, NothingRunsUnowned, Owned
<1> QED BY <1>1 DEF HeadlessIInv, CallOK

\* A step of the runner that leaves the engine and the batcher alone.
LEMMA RunRests ==
  ASSUME HeadlessIInv, UNCHANGED <<runs, engine, batcher, work>>,
         \/ caller'[Runner].pc = caller[Runner].pc
         \/ caller'[Runner].pc \notin {"engineStart", "batcherStart", "publish"}
  PROVE  StartedOK' /\ BatchOK'
<1>1. StartedOK' BY DEF HeadlessIInv, StartedOK, EngineStarted
<1>2. BatchOK' BY DEF HeadlessIInv, BatchOK, EngineOver
<1> QED BY <1>1, <1>2

\* A step that leaves the emitter alone and does not set the run back.
LEMMA EmitterRests ==
  ASSUME HeadlessIInv, UNCHANGED <<runs, final, finalSent, report>>,
         runner' = "reported" => runner = "reported",
         EngineOver(runs) => EngineOver(runs)' /\ work'[runs] = work[runs]
  PROVE  KeptOK'
BY DEF HeadlessIInv, KeptOK

-----------------------------------------------------------------------------
(* The steps of the runner.                                                *)

\* Steps outside the controller, and the signal.
LEMMA OutsideKeeps ==
  ASSUME HeadlessIInv,
         RefusesCancelled \/ TakesReport \/ Parks \/ StopReturns \/ CancelWakes
  PROVE  RunnerTypeOK' /\ CallOK' /\ StartedOK' /\ BatchOK' /\ KeptOK'
<1> USE DEF HeadlessIInv
<1>1. UNCHANGED <<cstate, runs, caller, engine, batcher, work, final, finalSent, cutShort>>
  BY DEF RefusesCancelled, TakesReport, Parks, StopReturns, CancelWakes, CancelParent, vars,
         controlVars, engineVars, batcherVars, emitterVars
<1>2. StartedOK' /\ BatchOK' BY <1>1, RunRests
<1>3. \/ runner = "start" /\ runner' = "failed" /\ report' = report
      \/ runner = "select" /\ runner' = "reported" /\ finalSent /\ report' = final
      \/ runner = "select" /\ runner' = "parked" /\ report' = report
      \/ runner = "stopping" /\ runner' = "failed" /\ caller[Runner].pc = "idle" /\ report' = report
      \/ runner = "parked" /\ runner' = "woken" /\ report' = report
      \/ runner' = runner /\ report' = report
  BY DEF RefusesCancelled, TakesReport, Parks, StopReturns, CancelWakes, Moves
<1>4. RunnerTypeOK' BY <1>1, <1>3 DEF RunnerTypeOK, RunnerPCs
<1>5. CallOK' BY <1>1, <1>3 DEF CallOK, StopPCs
<1>6. KeptOK' BY <1>1, <1>3 DEF KeptOK, EngineOver
<1> QED BY <1>2, <1>4, <1>5, <1>6

LEMMA CallsStartKeeps ==
  ASSUME HeadlessIInv, CallsStart
  PROVE  RunnerTypeOK' /\ CallOK' /\ StartedOK' /\ BatchOK' /\ KeptOK'
<1> USE DEF HeadlessIInv
<1>1. /\ runner = "start" /\ runner' = "starting"
      /\ UNCHANGED <<report, final, finalSent, cutShort, engine, batcher, work>>
      /\ runs' = runs + 1
  BY DEF CallsStart, Moves, StartAccepted, emitterVars, engineVars, batcherVars
<1>2. caller'[Runner].pc = "compile"
  BY RunnerCalls DEF CallsStart, StartAccepted, IInv, NothingRunsUnowned, TypeOK
<1>3. runs = 0 /\ ~finalSent BY <1>1 DEF CallOK, KeptOK
<1>4. RunnerTypeOK' BY <1>1 DEF RunnerTypeOK, RunnerPCs
<1>5. CallOK' BY <1>1, <1>2, <1>3 DEF CallOK, StartPCs
<1>6. StartedOK' BY <1>1, <1>2 DEF StartedOK, EngineStarted
<1>7. BatchOK' BY <1>1 DEF BatchOK, EngineOver
<1>8. KeptOK' BY <1>1, <1>3 DEF KeptOK
<1> QED BY <1>4, <1>5, <1>6, <1>7, <1>8

\* Start returns: published, or rolled back.
LEMMA StartReturnsKeeps ==
  ASSUME HeadlessIInv, StartReturns
  PROVE  RunnerTypeOK' /\ CallOK' /\ StartedOK' /\ BatchOK' /\ KeptOK'
<1> USE DEF HeadlessIInv
<1>1. /\ runner = "starting"
      /\ UNCHANGED <<report, final, finalSent, cutShort, runs, engine, batcher, work>>
      /\ \/ runner' = "select" /\ cstate' = "running"
         \/ runner' = "failed" /\ cstate' = "idle"
      /\ caller' = [caller EXCEPT ![Runner] = Idle]
  BY DEF StartReturns, Moves, PublishRun, FinishStop, emitterVars, engineVars, batcherVars
<1>2. caller'[Runner].pc = "idle"
  BY <1>1, RunnerCalls DEF IInv, NothingRunsUnowned, TypeOK, Idle
<1>3. RunnerTypeOK' BY <1>1 DEF RunnerTypeOK, RunnerPCs
<1>4. CallOK' BY <1>1, <1>2 DEF CallOK
<1>5. StartedOK' /\ BatchOK' BY <1>1, <1>2, RunRests
<1>6. KeptOK' BY <1>1, EmitterRests DEF EngineOver
<1> QED BY <1>3, <1>4, <1>5, <1>6

\* Stop is called on an idle controller or on the running run.
LEMMA CallsStopKeeps ==
  ASSUME HeadlessIInv, SeesCancel \/ Wakes
  PROVE  RunnerTypeOK' /\ CallOK' /\ StartedOK' /\ BatchOK' /\ KeptOK'
<1> USE DEF HeadlessIInv
<1>1. /\ runner \in {"select", "woken"} /\ runner' = "stopping"
      /\ UNCHANGED <<report, final, finalSent, cutShort>>
      /\ CallStop(Runner)
  BY DEF SeesCancel, Wakes, Moves, emitterVars
<1>2. caller[Runner].pc = "idle" /\ cstate \in {"idle", "running"} /\ runs = 1
  BY <1>1 DEF CallOK
<1>3. StopWhenIdle(Runner) \/ StopWhenRunning(Runner)
  BY <1>1, <1>2 DEF CallStop, StopInTransition
<1>4. /\ UNCHANGED <<runs, engine, batcher, work>>
      /\ \/ caller'[Runner].pc = "idle" /\ cstate' = "idle"
         \/ caller'[Runner].pc = "engineStop"
  BY <1>3, RunnerCalls
  DEF StopWhenIdle, StopWhenRunning, Returns, Idle, controlVars, engineVars, batcherVars, IInv,
      NothingRunsUnowned, TypeOK
<1>5. RunnerTypeOK' BY <1>1 DEF RunnerTypeOK, RunnerPCs
<1>6. CallOK' BY <1>1, <1>2, <1>4 DEF CallOK, StopPCs
<1>7. StartedOK' /\ BatchOK' BY <1>4, RunRests
<1>8. KeptOK' BY <1>1, <1>4, EmitterRests DEF EngineOver
<1> QED BY <1>5, <1>6, <1>7, <1>8

-----------------------------------------------------------------------------
(* The steps of the controller under the runner's call.                    *)

\* The steps that start something.
LEMMA StartingKeeps ==
  ASSUME HeadlessIInv, UNCHANGED headlessVars,
         CompileFails(Runner) \/ Build(Runner) \/ EngineStart(Runner) \/ BatcherStart(Runner)
  PROVE  CallOK' /\ StartedOK' /\ BatchOK' /\ KeptOK'
<1> USE DEF HeadlessIInv
<1>1. /\ caller[Runner].pc \in {"compile", "engineStart", "batcherStart"}
      /\ UNCHANGED <<runner, report, final, finalSent, cstate, runs, work>>
  BY DEF CompileFails, Build, EngineStart, BatcherStart, headlessVars, runVars, emitterVars,
         controlVars, engineVars
<1>2. /\ caller[Runner].run = runs /\ runs = 1 /\ runs \in Runs /\ runner = "starting"
  BY <1>1, CallWorks DEF Busy, StartPCs, StopPCs, CallOK
<1>3. /\ caller[Runner].pc = "compile" => engine[runs] = "none" /\ batcher[runs] = BatcherOff
      /\ caller[Runner].pc = "engineStart" => engine[runs] = "ready"
      /\ caller[Runner].pc = "batcherStart" => EngineStarted(runs)
  BY <1>2, RunnerCalls DEF IInv, ProgressOK, StartedOK
<1>4. /\ engine \in [Runs -> {"none", "ready", "running", "halted", "done"}]
      /\ batcher \in [Runs -> BatcherState]
  BY DEF IInv, NothingRunsUnowned, TypeOK
<1>5. CASE CompileFails(Runner)
  <2>1. caller'[Runner].pc = "finish" /\ UNCHANGED <<engine, batcher>>
    BY <1>5, RunnerCalls, GoMoves
    DEF CompileFails, StopPCs, engineVars, batcherVars, IInv, NothingRunsUnowned
  <2>2. CallOK' BY <1>1, <1>2, <2>1 DEF CallOK, StopPCs
  <2> QED BY <1>1, <2>1, <2>2, RunRests, EmitterRests DEF EngineOver
<1>6. CASE Build(Runner)
  <2>1. caller'[Runner].pc = "engineStart" /\ caller[Runner].pc = "compile"
    BY <1>6, RunnerCalls, GoMoves DEF Build, StartPCs, IInv, NothingRunsUnowned
  <2>2. PICK e \in {"ready"}, b \in {"ready"} :
          engine' = [engine EXCEPT ![runs] = e] /\ batcher' = [batcher EXCEPT ![runs].pc = b]
    BY <1>2, <1>6, RunnerAssumption DEF Build
  <2>3. /\ engine'[runs] = "ready" /\ batcher'[runs].pc = "ready" /\ batcher'[runs].total = 0
        /\ \A m \in Runs \ {runs} : engine'[m] = engine[m] /\ batcher'[m] = batcher[m]
    BY <1>2, <1>3, <1>4, <2>1, <2>2 DEF BatcherOff, BatcherState
  <2>4. ~finalSent BY <1>3, <2>1 DEF KeptOK, EngineOver
  <2>5. CallOK' BY <1>1, <1>2, <2>1 DEF CallOK, StartPCs
  <2>6. StartedOK' BY <1>1, <2>1, <2>3 DEF StartedOK, EngineStarted
  <2>7. BatchOK'
    <3>1. work[runs] \in Nat BY <1>2 DEF IInv, NothingRunsUnowned, TypeOK
    <3> QED BY <1>1, <2>3, <3>1 DEF BatchOK, EngineOver
  <2>8. KeptOK' BY <1>1, <1>2, <2>4 DEF KeptOK
  <2> QED BY <2>5, <2>6, <2>7, <2>8
<1>7. CASE EngineStart(Runner)
  <2>1. caller[Runner].pc = "engineStart" /\ engine[runs] = "ready" BY <1>3, <1>7 DEF EngineStart
  <2>2. /\ Go(Runner, "batcherStart") /\ engine' = [engine EXCEPT ![runs] = "running"]
        /\ batcher' = batcher
    BY <1>2, <1>7, <2>1 DEF EngineStart, EngineLive, batcherVars
  <2>3. caller'[Runner].pc = "batcherStart"
    BY <2>2, RunnerCalls, GoMoves DEF StartPCs, IInv, NothingRunsUnowned
  <2>4. engine'[runs] = "running" /\ \A m \in Runs \ {runs} : engine'[m] = engine[m]
    BY <1>2, <1>4, <2>2
  <2>5. ~finalSent BY <2>1 DEF KeptOK, EngineOver
  <2>6. CallOK' BY <1>1, <1>2, <2>3 DEF CallOK, StartPCs
  <2>7. StartedOK' BY <1>1, <2>2, <2>3, <2>4 DEF StartedOK, EngineStarted
  <2>8. BatchOK' BY <1>1, <2>1, <2>2, <2>4 DEF BatchOK, EngineOver
  <2>9. KeptOK' BY <1>1, <1>2, <2>5 DEF KeptOK
  <2> QED BY <2>6, <2>7, <2>8, <2>9
<1>8. CASE BatcherStart(Runner)
  <2>1. caller[Runner].pc = "batcherStart" /\ EngineStarted(runs) /\ engine' = engine
    BY <1>3, <1>8 DEF BatcherStart, engineVars
  <2>2. PICK pc \in {"engineStop", "publish"} : Go(Runner, pc) BY <1>8 DEF BatcherStart
  <2>3. caller'[Runner].pc = pc
    BY <2>2, RunnerCalls, GoMoves DEF StartPCs, StopPCs, IInv, NothingRunsUnowned
  <2>4. /\ batcher'[runs].total = batcher[runs].total
        /\ batcher'[runs].pc \in {batcher[runs].pc, "loop"}
        /\ batcher'[runs].pc # "send" \/ batcher'[runs] = batcher[runs]
        /\ \A m \in Runs \ {runs} : batcher'[m] = batcher[m]
    BY <1>2, <1>4, <1>8 DEF BatcherStart, BatcherState
  <2>5. CallOK' BY <1>1, <1>2, <2>3 DEF CallOK, StartPCs, StopPCs
  <2>6. StartedOK' BY <1>1, <2>1, <2>3, <2>4 DEF StartedOK, EngineStarted
  <2>7. BatchOK' BY <1>1, <2>1, <2>4 DEF BatchOK, EngineOver
  <2>8. KeptOK' BY <1>1, <2>1, EmitterRests DEF EngineOver
  <2> QED BY <2>5, <2>6, <2>7, <2>8
<1> QED BY <1>5, <1>6, <1>7, <1>8

\* The steps that stop it.
LEMMA StoppingKeeps ==
  ASSUME HeadlessIInv, UNCHANGED headlessVars,
         \/ StopEngine(Runner) \/ EngineStopped(Runner) \/ StopBatcher(Runner)
         \/ BatcherStopped(Runner) \/ (FinishStop(Runner) /\ runner = "stopping")
  PROVE  CallOK' /\ StartedOK' /\ BatchOK' /\ KeptOK'
<1> USE DEF HeadlessIInv
<1>1. /\ caller[Runner].pc \in StopPCs
      /\ UNCHANGED <<runner, report, final, finalSent, runs, engine, batcher, work>>
  BY DEF StopEngine, EngineStopped, StopBatcher, BatcherStopped, FinishStop, StopPCs,
         headlessVars, runVars, emitterVars, engineVars, batcherVars
<1>2. runner \in {"starting", "stopping"} BY <1>1, CallWorks DEF Busy
<1>3. \/ caller'[Runner].pc \in StopPCs /\ cstate' = cstate
      \/ caller'[Runner].pc = "idle" /\ cstate' = "idle" /\ runner = "stopping"
  <2>1. CASE FinishStop(Runner) /\ runner = "stopping"
    BY <2>1, RunnerCalls DEF FinishStop, Idle, IInv, NothingRunsUnowned, TypeOK
  <2>2. CASE ~(FinishStop(Runner) /\ runner = "stopping")
    <3>1. PICK pc \in StopPCs : Go(Runner, pc) /\ cstate' = cstate
      BY <2>2
      DEF StopEngine, EngineStopped, StopBatcher, BatcherStopped, StopPCs, controlVars
    <3> QED BY <3>1, RunnerCalls, GoMoves DEF IInv, NothingRunsUnowned
  <2> QED BY <2>1, <2>2
<1>4. CallOK' BY <1>1, <1>2, <1>3 DEF CallOK
<1>5. StartedOK' /\ BatchOK' BY <1>1, <1>3, RunRests DEF StopPCs
<1>6. KeptOK' BY <1>1, EmitterRests DEF EngineOver
<1> QED BY <1>4, <1>5, <1>6

LEMMA InsideCallKeeps ==
  ASSUME HeadlessIInv, InsideCall
  PROVE  RunnerTypeOK' /\ CallOK' /\ StartedOK' /\ BatchOK' /\ KeptOK'
<1> USE DEF HeadlessIInv
<1>1. UNCHANGED headlessVars /\ caller[Runner].pc \notin {"await", "retry"}
  BY DEF InsideCall, CallOK, StartPCs, StopPCs
<1>2. RunnerTypeOK' BY <1>1 DEF RunnerTypeOK, headlessVars, runVars, emitterVars
<1>3. \/ /\ \/ CompileFails(Runner) \/ Build(Runner) \/ EngineStart(Runner)
            \/ BatcherStart(Runner)
      \/ \/ StopEngine(Runner) \/ EngineStopped(Runner) \/ StopBatcher(Runner)
         \/ BatcherStopped(Runner) \/ (FinishStop(Runner) /\ runner = "stopping")
  <2>1. runner = "stopping" => ~PublishRun(Runner) BY DEF CallOK, PublishRun, StopPCs
  <2> QED BY <1>1, <2>1 DEF InsideCall, Continue, TransitionEnded
<1> QED BY <1>1, <1>2, <1>3, StartingKeeps, StoppingKeeps

-----------------------------------------------------------------------------
(* The goroutines of the run.                                              *)

LEMMA WatcherKeeps ==
  ASSUME HeadlessIInv, NEW n \in Runs, WatcherStep(n), UNCHANGED headlessVars
  PROVE  RunnerTypeOK' /\ CallOK' /\ StartedOK' /\ BatchOK' /\ KeptOK'
<1> USE DEF HeadlessIInv
<1>1. /\ UNCHANGED <<runner, report, final, finalSent, cutShort>>
      /\ UNCHANGED <<runs, caller, engine, batcher, work>>
      /\ cstate' = cstate \/ (cstate = "running" /\ cstate' = "idle")
  BY DEF WatcherStep, WatcherSeesDone, WatcherStopsBatcher, WatcherJoinsBatcher,
         WatcherClears, StillMine, headlessVars, runVars, emitterVars, controlVars,
         engineVars, batcherVars
<1>2. RunnerTypeOK' BY <1>1 DEF RunnerTypeOK
<1>3. CallOK' BY <1>1 DEF CallOK
<1>4. StartedOK' /\ BatchOK' BY <1>1, RunRests
<1>5. KeptOK' BY <1>1, EmitterRests DEF EngineOver
<1> QED BY <1>2, <1>3, <1>4, <1>5

\* The engine counts, halts and closes Done; none of it can be undone.
LEMMA EngineKeeps ==
  ASSUME HeadlessIInv, NEW n \in Runs,
         \/ (EngineCounts(n) \/ EngineCloses(n)) /\ UNCHANGED headlessVars
         \/ Halt(n)
  PROVE  RunnerTypeOK' /\ CallOK' /\ StartedOK' /\ BatchOK' /\ KeptOK'
<1> USE DEF HeadlessIInv
<1>1. /\ UNCHANGED <<runner, report, final, finalSent, runs, caller, cstate, batcher>>
      /\ cutShort' \in BOOLEAN
  BY DEF EngineCounts, EngineCloses, Halt, EngineHalts, headlessVars, runVars, emitterVars,
         controlVars, batcherVars, RunnerTypeOK, Cancelled
<1>2. /\ engine \in [Runs -> {"none", "ready", "running", "halted", "done"}]
      /\ work \in [Runs -> 0 .. MaxWork]
      /\ batcher \in [Runs -> BatcherState] /\ n \in Runs
  BY DEF IInv, NothingRunsUnowned, TypeOK
<1>3. /\ \A m \in Runs : /\ engine[m] \in {"none", "ready"} => engine'[m] = engine[m]
                         /\ EngineStarted(m) => EngineStarted(m)'
                         /\ EngineOver(m) => EngineOver(m)' /\ work'[m] = work[m]
                         /\ work[m] <= work'[m]
  BY <1>2
  DEF EngineCounts, EngineCloses, Halt, EngineHalts, EngineLive, EngineStarted, EngineOver
<1>4. RunnerTypeOK' BY <1>1 DEF RunnerTypeOK
<1>5. CallOK' BY <1>1 DEF CallOK
<1>6. StartedOK'
  <2>1. Busy(Runner) => runs \in Runs BY CallWorks
  <2> QED BY <1>1, <1>3, <2>1 DEF StartedOK, Busy, StartPCs
<1>7. BatchOK'
  <2>1. \A m \in Runs : batcher[m].total \in Nat /\ work[m] \in Nat /\ work'[m] \in Nat
    BY <1>2 DEF BatcherState, EngineCounts, EngineCloses, Halt, EngineHalts
  <2> QED BY <1>1, <1>3, <2>1 DEF BatchOK
<1>8. KeptOK'
  <2>1. finalSent => runs \in Runs
    <3>1. finalSent => runs = 1 BY DEF KeptOK
    <3> QED BY <3>1 DEF IInv, NothingRunsUnowned, TypeOK, Runs
  <2> QED BY <1>1, <1>3, <2>1 DEF KeptOK
<1> QED BY <1>4, <1>5, <1>6, <1>7, <1>8

\* A step of the batcher, up to what it does to the emitter.
LEMMA BatcherStepRests ==
  ASSUME HeadlessIInv, NEW n \in Runs, BatcherStep(n)
  PROVE  /\ UNCHANGED <<cstate, runs, caller, engine, work>>
         /\ StartedOK' /\ BatchOK'
<1> USE DEF HeadlessIInv
<1>1. UNCHANGED <<cstate, runs, caller, engine, work>>
  BY DEF BatcherStep, BatcherTick, BatcherQuits, BatcherReadsRunning, BatcherEmits,
         BatcherCloses, BatcherFrame, controlVars, engineVars
<1>2. BatcherLive(n)
  BY DEF BatcherStep, BatcherTick, BatcherQuits, BatcherReadsRunning, BatcherEmits,
         BatcherCloses, BatcherLive
<1>3. EngineStarted(n) BY <1>2 DEF StartedOK, BatcherLive
<1>4. batcher \in [Runs -> BatcherState] /\ work \in [Runs -> 0 .. MaxWork]
  BY DEF IInv, NothingRunsUnowned, TypeOK
<1>5. \A m \in Runs \ {n} : batcher'[m] = batcher[m]
  BY <1>4 DEF BatcherStep, BatcherTick, BatcherQuits, BatcherReadsRunning, BatcherEmits,
              BatcherCloses
<1>6. /\ batcher'[n].total <= work[n]
      /\ batcher'[n].pc = "send" /\ ~batcher'[n].running => EngineOver(n)
  <2>1. batcher[n].total <= work[n] /\ 0 <= work[n] /\ work[n] <= work[n]
    BY <1>4 DEF BatchOK
  <2>2. CASE BatcherTick(n) \/ BatcherQuits(n)
    BY <1>4, <2>1, <2>2 DEF BatcherTick, BatcherQuits, Emitting
  <2>3. CASE BatcherReadsRunning(n)
    <3>1. batcher'[n] = [pc |-> "send", final |-> batcher[n].final,
                         total |-> batcher[n].total, running |-> EngineLive(n)]
      BY <1>4, <2>3 DEF BatcherReadsRunning
    <3>2. batcher'[n].total = batcher[n].total BY <3>1
    <3>3. batcher'[n].running = EngineLive(n) BY <3>1
    <3>4. ~EngineLive(n) => EngineOver(n) BY <1>3 DEF EngineStarted, EngineOver, EngineLive
    <3> QED BY <2>1, <3>2, <3>3, <3>4
  <2>4. CASE BatcherEmits(n) BY <1>4, <2>1, <2>4 DEF BatcherEmits
  <2>5. CASE BatcherCloses(n)
    BY <1>4, <2>1, <2>5 DEF BatcherCloses, BatcherState
  <2> QED BY <2>2, <2>3, <2>4, <2>5 DEF BatcherStep
<1>7. StartedOK' BY <1>1, <1>3, <1>5 DEF StartedOK, EngineStarted
<1>8. BatchOK' BY <1>1, <1>5, <1>6 DEF BatchOK, EngineOver
<1> QED BY <1>1, <1>7, <1>8

\* A batch that says the run is over is kept when it is the first.
LEMMA EmitKeeps ==
  ASSUME HeadlessIInv, NEW n \in Runs, Emit(n)
  PROVE  RunnerTypeOK' /\ CallOK' /\ StartedOK' /\ BatchOK' /\ KeptOK'
<1> USE DEF HeadlessIInv
<1>1. BatcherEmits(n) /\ batcher[n].pc = "send" /\ cutShort' = cutShort
  BY DEF Emit, BatcherEmits
<1>2. UNCHANGED <<cstate, runs, caller, engine, work>> /\ StartedOK' /\ BatchOK'
  BY <1>1, BatcherStepRests DEF BatcherStep
<1>3. n = runs /\ runs = 1 BY <1>1, LiveIsTheRun DEF BatcherLive
<1>4. Batch(n) \in [total : 0 .. MaxWork, running : BOOLEAN]
  BY DEF IInv, NothingRunsUnowned, TypeOK, BatcherState, Batch
<1>5. \/ UNCHANGED <<runner, report, final, finalSent>>
      \/ /\ ~Batch(n).running /\ finalSent' = TRUE /\ final' = Batch(n)
         /\ \/ runner = "parked" /\ runner' = "reported" /\ report' = Batch(n)
            \/ runner' = runner /\ report' = report /\ ~finalSent
  BY DEF Emit, EmitterKeeps, emitterVars, runVars
<1>6. RunnerTypeOK'
  <2>1. CASE UNCHANGED <<runner, report, final, finalSent>> BY <1>1, <2>1 DEF RunnerTypeOK
  <2>2. CASE ~UNCHANGED <<runner, report, final, finalSent>>
    <3>1. finalSent' = TRUE /\ ~final'.running /\ cutShort' \in BOOLEAN
      BY <1>1, <1>5, <2>2 DEF RunnerTypeOK
    <3>2. /\ runner' \in RunnerPCs
          /\ final' \in [total : 0 .. MaxWork, running : BOOLEAN]
          /\ report' \in [total : 0 .. MaxWork, running : BOOLEAN]
      BY <1>4, <1>5, <2>2 DEF RunnerTypeOK, RunnerPCs
    <3> QED BY <3>1, <3>2 DEF RunnerTypeOK
  <2> QED BY <2>1, <2>2
<1>7. CallOK' BY <1>2, <1>5 DEF CallOK
<1>8. KeptOK'
  <2>1. CASE UNCHANGED <<runner, report, final, finalSent>>
    BY <1>2, <2>1 DEF KeptOK, EngineOver
  <2>2. CASE ~UNCHANGED <<runner, report, final, finalSent>>
    <3>1. finalSent' /\ final' = Batch(n) /\ ~Batch(n).running BY <1>5, <2>2
    <3>2. EngineOver(runs) /\ Batch(n).total <= work[runs]
      BY <1>1, <1>3, <3>1 DEF BatchOK, Batch
    <3>3. runner' = "reported" => report' = final' BY <1>5, <2>2 DEF KeptOK
    <3> QED BY <1>2, <1>3, <3>1, <3>2, <3>3 DEF KeptOK, EngineOver
  <2> QED BY <2>1, <2>2
<1> QED BY <1>2, <1>6, <1>7, <1>8

LEMMA BackgroundKeeps ==
  ASSUME HeadlessIInv, NEW n \in Runs, Background(n)
  PROVE  RunnerTypeOK' /\ CallOK' /\ StartedOK' /\ BatchOK' /\ KeptOK'
<1>1. CASE WatcherStep(n) /\ UNCHANGED headlessVars BY <1>1, WatcherKeeps
<1>2. CASE ((EngineCounts(n) \/ EngineCloses(n)) /\ UNCHANGED headlessVars) \/ Halt(n)
  BY <1>2, EngineKeeps
<1>3. CASE Emit(n) BY <1>3, EmitKeeps
<1>4. CASE /\ \/ BatcherTick(n) \/ BatcherQuits(n) \/ BatcherReadsRunning(n)
              \/ BatcherCloses(n)
           /\ UNCHANGED headlessVars
  <2> USE DEF HeadlessIInv
  <2>1. UNCHANGED <<runner, report, final, finalSent, cutShort>>
    BY <1>4 DEF headlessVars, runVars, emitterVars
  <2>2. UNCHANGED <<cstate, runs, caller, engine, work>> /\ StartedOK' /\ BatchOK'
    BY <1>4, BatcherStepRests DEF BatcherStep
  <2>3. RunnerTypeOK' BY <2>1 DEF RunnerTypeOK
  <2>4. CallOK' BY <2>1, <2>2 DEF CallOK
  <2>5. KeptOK' BY <2>1, <2>2, EmitterRests DEF EngineOver
  <2> QED BY <2>2, <2>3, <2>4, <2>5
<1> QED BY <1>1, <1>2, <1>3, <1>4 DEF Background

-----------------------------------------------------------------------------
(* The invariant and what it implies.                                      *)

LEMMA InitHeadless == RunnerInit => HeadlessIInv
<1> SUFFICES ASSUME RunnerInit PROVE HeadlessIInv OBVIOUS
<1>1. IInv BY InitIInv DEF RunnerInit
<1>2. /\ runs = 0 /\ cstate = "idle" /\ caller[Runner].pc = "idle"
      /\ engine = [n \in Runs |-> "none"] /\ work = [n \in Runs |-> 0]
      /\ batcher = [n \in Runs |-> BatcherOff]
  BY RunnerCalls DEF RunnerInit, Init, Idle
<1>3. /\ runner = "start" /\ report = NoBatch /\ final = NoBatch /\ finalSent = FALSE
      /\ cutShort = FALSE
  BY DEF RunnerInit
<1>4. RunnerTypeOK
  <2>1. NoBatch \in [total : 0 .. MaxWork, running : BOOLEAN] /\ NoBatch.running = TRUE
    BY BoundsAssumption DEF NoBatch
  <2> QED BY <1>3, <2>1 DEF RunnerTypeOK, RunnerPCs
<1>5. CallOK BY <1>2, <1>3 DEF CallOK
<1>6. StartedOK BY <1>2 DEF StartedOK, BatcherOff
<1>7. BatchOK BY <1>2 DEF BatchOK, BatcherOff
<1>8. KeptOK BY <1>3 DEF KeptOK
<1> QED BY <1>1, <1>4, <1>5, <1>6, <1>7, <1>8 DEF HeadlessIInv

LEMMA NextHeadless == HeadlessIInv /\ [RunnerNext]_allVars => HeadlessIInv'
<1> SUFFICES ASSUME HeadlessIInv, [RunnerNext]_allVars PROVE HeadlessIInv' OBVIOUS
<1>1. [Next]_vars BY StepIsControllers DEF allVars
<1>2. IInv' BY <1>1, NextIInv DEF HeadlessIInv
<1>3. CASE RunnerStep
  BY <1>2, <1>3, OutsideKeeps, CallsStartKeeps, StartReturnsKeeps, CallsStopKeeps,
     InsideCallKeeps
  DEF RunnerStep, HeadlessIInv
<1>4. CASE CancelWakes BY <1>2, <1>4, OutsideKeeps DEF HeadlessIInv
<1>5. CASE \E n \in Runs : Background(n)
  BY <1>2, <1>5, BackgroundKeeps DEF HeadlessIInv
<1>6. CASE UNCHANGED allVars
  <2>1. UNCHANGED <<runner, report, final, finalSent, cutShort, cstate, runs, caller, engine,
                    batcher, work>>
    BY <1>6 DEF allVars, headlessVars, runVars, emitterVars, vars, controlVars, engineVars,
                batcherVars
  <2>2. RunnerTypeOK' BY <2>1 DEF HeadlessIInv, RunnerTypeOK
  <2>3. CallOK' BY <2>1 DEF HeadlessIInv, CallOK
  <2>4. StartedOK' /\ BatchOK' BY <2>1, RunRests
  <2>5. KeptOK' BY <2>1, EmitterRests DEF EngineOver
  <2> QED BY <1>2, <2>2, <2>3, <2>4, <2>5 DEF HeadlessIInv
<1> QED BY <1>3, <1>4, <1>5, <1>6 DEF RunnerNext

\* HeadlessIInv holds in every reachable state: the runner's call is where the
\* controller is, and the batch it keeps was read after the engine halted.
THEOREM HeadlessInvariant == RunnerSpec => []HeadlessIInv
BY InitHeadless, NextHeadless, PTL DEF RunnerSpec

\* A headless execution is a behaviour of the controller: whatever is proved of
\* the controller's steps holds under the runner too.
THEOREM RunnerIsAController == RunnerSpec => Init /\ [][Next]_vars
<1>1. RunnerInit => Init BY DEF RunnerInit
<1>2. [RunnerNext]_allVars => [Next]_vars BY StepIsControllers DEF allVars
<1> QED BY <1>1, <1>2, PTL DEF RunnerSpec

\* A report is built from a batch that was read after the engine had halted, and
\* counts no more than the run did: metricsEmitter takes no periodic batch of a
\* live run, and nothing starts the engine again.
THEOREM ReportsFollowRuns == RunnerSpec => []ReportFollowsRun
<1>1. HeadlessIInv => ReportFollowsRun
  <2> SUFFICES ASSUME HeadlessIInv, runner = "reported"
               PROVE  (\A n \in Runs : ~EngineLive(n)) /\ work[runs] >= report.total
    BY DEF ReportFollowsRun, HeadlessIInv
  <2>1. EngineOver(runs) /\ report.total <= work[runs] BY DEF HeadlessIInv, KeptOK
  <2>2. \A n \in Runs : ~EngineLive(n) BY <2>1, LiveIsTheRun DEF EngineOver, EngineLive
  <2> QED BY <2>1, <2>2
<1> QED BY <1>1, HeadlessInvariant, PTL

\* An error, before, during or after the run, means that nothing is left behind:
\* controller.Start rolls back and controller.Stop waits before they return.
THEOREM FailuresLeaveNothing == RunnerSpec => []FailureLeavesNothing
<1>1. HeadlessIInv => FailureLeavesNothing
  BY LiveIsTheRun DEF HeadlessIInv, CallOK, FailureLeavesNothing
<1> QED BY <1>1, HeadlessInvariant, PTL
=============================================================================
