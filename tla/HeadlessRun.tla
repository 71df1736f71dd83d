----------------------------- MODULE HeadlessRun -----------------------------
(***************************************************************************)
(* One headless execution (src/internal/headless/runner.go Run) on top of  *)
(* the run controller: the runner starts one run, then waits for the first *)
(* batch that says the run is over, or for its context (SIGINT, SIGTERM),  *)
(* and the metrics emitter keeps that first batch in a channel of one.     *)
(***************************************************************************)
EXTENDS RunController

CONSTANT Runner   \* the goroutine of Run, the only caller of the controller

\* Run makes a controller of its own, with the factories NewController gives it:
\* these may refuse a configuration, and hand out nothing that already runs.
ASSUME RunnerAssumption == Callers = {Runner} /\ Faults \subseteq {"compile"}

VARIABLES runner,     \* pc of Run
          final,      \* the batch in emitter.final, NoBatch when empty
          finalSent,  \* emitter.finalSent
          report,     \* the batch the report was built from
          cutShort    \* history: the engine halted because it was cancelled

runVars == <<runner, report>>
emitterVars == <<final, finalSent>>
headlessVars == <<runVars, emitterVars, cutShort>>

RunnerPCs == {"start", "starting", "select", "parked", "woken", "stopping", "reported", "failed"}

\* The type of every variable of the runner and its emitter: the channel of one
\* is filled by a batch that says the run is over, and only by such a batch.
RunnerTypeOK ==
  /\ runner \in RunnerPCs
  /\ final \in [total : 0 .. MaxWork, running : BOOLEAN]
  /\ report \in [total : 0 .. MaxWork, running : BOOLEAN]
  /\ finalSent <=> ~final.running
  /\ finalSent \in BOOLEAN /\ cutShort \in BOOLEAN

RunnerInit ==
  /\ Init
  /\ runner = "start" /\ report = NoBatch
  /\ final = NoBatch /\ finalSent = FALSE
  /\ cutShort = FALSE

Moves(from, to) == runner = from /\ runner' = to

\* A context that is cancelled already is an error before anything starts.
RefusesCancelled ==
  /\ parent
  /\ Moves("start", "failed")
  /\ UNCHANGED <<vars, report, emitterVars, cutShort>>

CallsStart ==
  /\ ~parent
  /\ Moves("start", "starting")
  /\ StartAccepted(Runner)
  /\ UNCHANGED <<report, emitterVars, cutShort>>

\* controller.Start returns: with a published run, or with an error.
StartReturns ==
  \/ Moves("starting", "select") /\ PublishRun(Runner)
     /\ UNCHANGED <<report, emitterVars, cutShort>>
  \/ Moves("starting", "failed") /\ FinishStop(Runner)
     /\ UNCHANGED <<report, emitterVars, cutShort>>

\* The select takes a ready case, either one when both are ready ...
TakesReport ==
  /\ Moves("select", "reported")
  /\ finalSent
  /\ report' = final
  /\ UNCHANGED <<vars, emitterVars, cutShort>>

SeesCancel ==
  /\ Moves("select", "stopping")
  /\ parent
  /\ CallStop(Runner)
  /\ UNCHANGED <<report, emitterVars, cutShort>>

\* ... and parks when none is; then the first one to become ready wakes it.
Parks ==
  /\ Moves("select", "parked")
  /\ ~parent /\ ~finalSent
  /\ UNCHANGED <<vars, report, emitterVars, cutShort>>

CancelWakes ==
  /\ CancelParent
  /\ runner' = IF runner = "parked" THEN "woken" ELSE runner
  /\ UNCHANGED <<report, emitterVars, cutShort>>

Wakes ==
  /\ Moves("woken", "stopping")
  /\ CallStop(Runner)
  /\ UNCHANGED <<report, emitterVars, cutShort>>

\* controller.Stop returns; StopWhenIdle returns at once.
StopReturns ==
  /\ Moves("stopping", "failed")
  /\ caller[Runner].pc = "idle"
  /\ UNCHANGED <<vars, report, emitterVars, cutShort>>

InsideCall ==
  /\ runner \in {"starting", "stopping"}
  /\ Continue(Runner)
  /\ ~(runner = "starting" /\ (PublishRun(Runner) \/ FinishStop(Runner)))
  /\ UNCHANGED headlessVars

\* Mutant of EmitterKeeps: the first batch is kept, whatever it says.
EmitterKeepsAny(n) == ~finalSent

\* metricsEmitter.Emit: the first batch that is not running is the final one.
EmitterKeeps(n) == ~Batch(n).running /\ ~finalSent

Emit(n) ==
  /\ BatcherEmits(n)
  /\ IF EmitterKeeps(n)
     THEN /\ finalSent' = TRUE
          /\ final' = Batch(n)
          /\ IF runner = "parked"
             THEN runner' = "reported" /\ report' = Batch(n)
             ELSE UNCHANGED runVars
     ELSE UNCHANGED <<emitterVars, runVars>>
  /\ UNCHANGED cutShort

Halt(n) ==
  /\ EngineHalts(n)
  /\ cutShort' = (cutShort \/ Cancelled(n))
  /\ UNCHANGED <<runVars, emitterVars>>

Background(n) ==
  \/ /\ \/ WatcherStep(n) \/ EngineCounts(n) \/ EngineCloses(n)
        \/ BatcherTick(n) \/ BatcherQuits(n) \/ BatcherReadsRunning(n) \/ BatcherCloses(n)
     /\ UNCHANGED headlessVars
  \/ Emit(n)
  \/ Halt(n)

RunnerStep ==
  \/ RefusesCancelled \/ CallsStart \/ StartReturns \/ TakesReport \/ SeesCancel
  \/ Parks \/ Wakes \/ StopReturns \/ InsideCall

RunnerNext == RunnerStep \/ CancelWakes \/ \E n \in Runs : Background(n)

allVars == <<vars, headlessVars>>

\* The runner always validates a positive duration (preflight), so here the
\* engine does end by itself.
RunnerFairness ==
  /\ WF_allVars(RunnerStep)
  /\ \A n \in Runs :
       /\ WF_allVars(WatcherStep(n) /\ UNCHANGED headlessVars)
       /\ WF_allVars(Halt(n)) /\ WF_allVars(EngineCloses(n) /\ UNCHANGED headlessVars)
       /\ WF_allVars(Background(n) /\ BatcherStep(n))
       /\ SF_allVars(BatcherQuits(n) /\ UNCHANGED headlessVars)

RunnerSpec == RunnerInit /\ [][RunnerNext]_allVars /\ RunnerFairness

-----------------------------------------------------------------------------
(* Safety.                                                                 *)

\* A report is built only after the engine stopped counting: the periodic
\* batches of a live run are never taken for its result, and the channel of
\* one holds no other batch (RunnerTypeOK).
ReportFollowsRun ==
  /\ RunnerTypeOK
  /\ runner = "reported" => (\A n \in Runs : ~EngineLive(n)) /\ work[runs] >= report.total

\* A run that ends with an error, cancelled or not started, leaves neither an
\* engine nor a batcher behind.
FailureLeavesNothing ==
  runner = "failed" => \A n \in Runs : ~EngineLive(n) /\ ~BatcherLive(n)

\* README.md 74: "Request, failure, byte, and status-code summaries use the
\* final cumulative engine snapshot and remain exact."
ReportIsExact ==
  runner = "reported" => report.total = work[runs]

\* docs/headless-runner.md 30-33: exit code 0 or 4 means "Execution completed",
\* cancellation is exit code 3. Only a returned report exits 0 or 4.
ReportMeansCompleted == runner = "reported" => ~cutShort

(* The inductive invariant of HeadlessRunProofs: that of the controller,   *)
(* and the parts below.                                                    *)

EngineStarted(n) == engine[n] \in {"running", "halted", "done"}
EngineOver(n) == engine[n] \in {"halted", "done"}

\* Where the runner's own call to the controller is, as far as the runner knows.
CallOK ==
  LET pc == caller[Runner].pc IN
  /\ runner = "start" => runs = 0
  /\ runner \notin {"start", "failed"} => runs = 1
  /\ runner = "starting" => pc \in StartPCs \cup StopPCs
  /\ runner = "stopping" => pc \in StopPCs \/ (pc = "idle" /\ cstate = "idle")
  /\ runner \notin {"starting", "stopping"} => pc = "idle"
  /\ runner \in {"start", "failed"} => cstate = "idle"
  /\ runner \in {"select", "parked", "woken", "reported"} => cstate \in {"idle", "running"}

\* An engine is started once, before its batcher.
StartedOK ==
  LET pc == caller[Runner].pc IN
  /\ pc = "engineStart" => engine[runs] = "ready"
  /\ pc \in {"batcherStart", "publish"} => EngineStarted(runs)
  /\ \A n \in Runs : batcher[n].pc \notin {"off", "ready"} => EngineStarted(n)

\* A batch counts what the engine had counted, and one that says the run is
\* over was read after it was.
BatchOK ==
  \A n \in Runs :
    /\ batcher[n].total <= work[n]
    /\ batcher[n].pc = "send" /\ ~batcher[n].running => EngineOver(n)

\* So is the one the emitter keeps, and the report is no other.
KeptOK ==
  /\ finalSent => runs = 1 /\ EngineOver(runs) /\ final.total <= work[runs]
  /\ runner = "reported" => finalSent /\ report = final

HeadlessIInv == IInv /\ RunnerTypeOK /\ CallOK /\ StartedOK /\ BatchOK /\ KeptOK

(* Liveness.                                                               *)

\* Run returns: with a report, or with an error after a cancel.
RunReturns == <>(runner \in {"reported", "failed"})
=============================================================================
