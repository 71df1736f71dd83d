------------------------ MODULE RunControllerProofs ------------------------
(***************************************************************************)
(* Proofs about RunController for any callers, any number of runs and any  *)
(* faults of the factories. IInv says who owns the transition and how far  *)
(* it has come with the run; a step of the owner is safe because nobody    *)
(* else is at work, a step of a run because the owner has not passed the   *)
(* point where that run must be silent.                                    *)
(*                                                                         *)
(* The first lemmas say what a step does to the caller or the batcher that *)
(* takes it. Two lemmas dispose of the parts of IInv that most steps leave *)
(* alone; the rest is one lemma per action.                                *)
(***************************************************************************)
EXTENDS RunController, TLAPS

BatchState == [total : 0 .. MaxWork, running : BOOLEAN]

\* What a caller keeps when only its program counter moves.
LEMMA GoMoves ==
  ASSUME TypeOK, NEW c \in Callers,
         NEW pc \in StartPCs \cup StopPCs \cup {"retry"}, Go(c, pc)
  PROVE  /\ caller' \in [Callers -> CallerState]
         /\ caller'[c].pc = pc /\ caller'[c].run = caller[c].run
         /\ caller'[c].channel = caller[c].channel /\ caller'[c].target = caller[c].target
         /\ \A d \in Callers \ {c} : caller'[d] = caller[d]
BY DEF TypeOK, CallerState, Go

\* A caller that is given a new record.
LEMMA CallerMoves ==
  ASSUME TypeOK, NEW c \in Callers, NEW r \in CallerState,
         caller' = [caller EXCEPT ![c] = r]
  PROVE  /\ caller' \in [Callers -> CallerState]
         /\ caller'[c] = r
         /\ \A d \in Callers \ {c} : caller'[d] = caller[d]
BY DEF TypeOK

\* A batcher that is given a new record.
LEMMA BatcherMoves ==
  ASSUME TypeOK, NEW n \in Runs, NEW r \in BatcherState,
         batcher' = [batcher EXCEPT ![n] = r]
  PROVE  /\ batcher' \in [Runs -> BatcherState]
         /\ batcher'[n] = r
         /\ \A m \in Runs \ {n} : batcher'[m] = batcher[m]
BY DEF TypeOK

\* A batcher of which only the program counter moves.
LEMMA BatcherGoes ==
  ASSUME TypeOK, NEW n \in Runs, NEW pc \in {"ready", "loop", "done"},
         batcher' = [batcher EXCEPT ![n].pc = pc]
  PROVE  /\ batcher' \in [Runs -> BatcherState]
         /\ batcher'[n].pc = pc /\ batcher'[n].final = batcher[n].final
         /\ \A m \in Runs \ {n} : batcher'[m] = batcher[m]
BY DEF TypeOK, BatcherState

\* A busy caller works on the latest run, under the open transition, alone.
LEMMA OwnerAlone ==
  ASSUME IInv, NEW c \in Callers, Busy(c)
  PROVE  /\ caller[c].run = runs /\ runs \in Runs
         /\ caller[c].channel = transition /\ transition \in Channels
         /\ transition = channels /\ cstate \in {"starting", "stopping"}
         /\ \A d \in Callers \ {c} : ~Busy(d)
<1>1. /\ caller[c].run = runs /\ runs > 0 /\ caller[c].channel = transition
      /\ cstate \in {"starting", "stopping"} /\ \A d \in Callers \ {c} : ~Busy(d)
  BY DEF IInv, OwnerOK
<1>2. transition # 0 BY <1>1 DEF IInv, NoLostTransition
<1> QED BY <1>1, <1>2 DEF IInv, NothingRunsUnowned, TypeOK, ChannelsOK, Runs

\* While the owner only moves on, the control state keeps its shape.
LEMMA OwnerStepKeeps ==
  ASSUME IInv, NEW c \in Callers, Busy(c),
         NEW pc \in StartPCs \cup StopPCs, Go(c, pc),
         pc \in StartPCs => caller[c].pc \in StartPCs,
         UNCHANGED <<cstate, transition, channels, closed, current, runs, ended>>
  PROVE  NoLostTransition' /\ ChannelsOK' /\ OwnerOK' /\ EndedOK'
<1> USE DEF IInv, NothingRunsUnowned
<1>1. /\ caller'[c].pc = pc /\ caller'[c].run = caller[c].run
      /\ caller'[c].channel = caller[c].channel /\ caller'[c].target = caller[c].target
      /\ \A d \in Callers \ {c} : caller'[d] = caller[d]
  BY GoMoves
<1>2. \A d \in Callers \ {c} : ~Busy(d)' BY <1>1, OwnerAlone DEF Busy
<1>3. NoLostTransition' BY <1>1 DEF NoLostTransition, StartPCs, StopPCs
<1>4. ChannelsOK' BY <1>1 DEF ChannelsOK, StartPCs, StopPCs
<1>5. OwnerOK' BY <1>1, <1>2 DEF OwnerOK
<1>6. EndedOK' BY <1>1 DEF EndedOK
<1> QED BY <1>3, <1>4, <1>5, <1>6

\* A step of a run's own goroutines leaves the control state alone.
LEMMA RunStepKeeps ==
  ASSUME IInv, UNCHANGED <<cstate, transition, channels, closed, current, runs, ended, caller>>
  PROVE  NoLostTransition' /\ ChannelsOK' /\ OwnerOK' /\ EndedOK'
<1>1. NoLostTransition' BY DEF IInv, NoLostTransition
<1>2. ChannelsOK' BY DEF IInv, ChannelsOK
<1>3. OwnerOK' BY DEF IInv, OwnerOK, Busy
<1>4. EndedOK' BY DEF IInv, EndedOK
<1> QED BY <1>1, <1>2, <1>3, <1>4

\* A step of a caller that leaves the goroutines of all runs alone.
LEMMA RunsAtRest ==
  ASSUME IInv, runs' \in {runs, runs + 1},
         UNCHANGED <<watcher, engine, work, batcher, quit, last, parent>>
  PROVE  RunsOK' /\ LeavingOK'
<1>1. RunsOK' BY DEF IInv, NothingRunsUnowned, TypeOK, RunsOK, EngineLive, BatcherLive, Runs
<1>2. LeavingOK' BY DEF IInv, LeavingOK
<1> QED BY <1>1, <1>2

-----------------------------------------------------------------------------
(* Start.                                                                  *)

LEMMA StartAcceptedKeeps ==
  ASSUME IInv, NEW c \in Callers, StartAccepted(c)
  PROVE  IInv'
<1> USE DEF IInv, NothingRunsUnowned
<1>1. /\ cstate = "idle" /\ cstate' = "starting" /\ closed' = closed
      /\ transition' = channels + 1 /\ channels' = channels + 1 /\ runs' = runs + 1
      /\ UNCHANGED <<current, watcher, engine, cancelled, work, batcher, quit, last,
                     parent, ended>>
  BY DEF StartAccepted, OpenTransition, engineVars, batcherVars
<1>2. /\ runs \in 0 .. MaxRuns /\ runs + 1 \in Runs
      /\ channels \in Nat /\ channels + 1 \in Channels /\ channels + 1 \notin closed
  BY BoundsAssumption DEF StartAccepted, TypeOK, ChannelsOK, Runs, Channels
<1> DEFINE r == [pc |-> "compile", run |-> runs + 1, channel |-> channels + 1, target |-> 0]
<1>3. r \in CallerState BY <1>2, BoundsAssumption DEF CallerState, StartPCs, Runs
<1>4. /\ caller' \in [Callers -> CallerState]
      /\ caller'[c] = r /\ \A d \in Callers \ {c} : caller'[d] = caller[d]
  BY <1>3, CallerMoves DEF StartAccepted
<1>5. \A d \in Callers : ~Busy(d) BY <1>1 DEF OwnerOK
<1>6. \A d \in Callers \ {c} : ~Busy(d)' BY <1>4, <1>5 DEF Busy
<1>7. TypeOK' BY <1>1, <1>2, <1>4 DEF TypeOK, Runs
<1>8. Owned' BY <1>1 DEF Owned, EngineLive, BatcherLive
<1>9. NoLostTransition' BY <1>1, <1>2, <1>4 DEF NoLostTransition, ChannelsOK
<1>10. ChannelsOK' BY <1>1, <1>2, <1>4 DEF ChannelsOK, TypeOK
<1>11. OwnerOK' BY <1>1, <1>2, <1>4, <1>6 DEF OwnerOK, Runs
<1>12. ProgressOK'
  <2>1. /\ engine[runs + 1] = "none" /\ batcher[runs + 1] = BatcherOff
        /\ watcher[runs + 1] = "none" /\ runs + 1 \notin quit
    BY <1>2 DEF RunsOK
  <2>2. \A d \in Callers \ {c} : caller'[d].pc \notin StartPCs \cup StopPCs
    BY <1>6 DEF Busy
  <2> QED BY <1>1, <1>4, <2>1, <2>2 DEF ProgressOK, StartPCs, StopPCs
<1>13. RunsOK' /\ LeavingOK' BY <1>1, RunsAtRest
<1>14. EndedOK'
  <2>1. \A n \in ended : n <= runs + 1 /\ n < runs + 1 BY <1>2 DEF EndedOK, TypeOK, Runs
  <2>2. \A d \in Callers \ {c} : caller'[d].target <= runs + 1
    BY <1>2, <1>4 DEF EndedOK, TypeOK, CallerState
  <2>3. caller'[c].target <= runs + 1 BY <1>2, <1>4
  <2> QED BY <1>1, <1>4, <2>1, <2>2, <2>3 DEF EndedOK
<1> QED BY <1>7, <1>8, <1>9, <1>10, <1>11, <1>12, <1>13, <1>14

LEMMA CompileFailsKeeps ==
  ASSUME IInv, NEW c \in Callers, CompileFails(c)
  PROVE  IInv'
<1> USE DEF IInv, NothingRunsUnowned
<1>1. /\ caller[c].pc = "compile" /\ Busy(c) /\ Go(c, "finish")
      /\ UNCHANGED <<cstate, transition, current, channels, closed, runs, watcher, engine,
                     cancelled, work, batcher, quit, last, parent, ended>>
  BY DEF CompileFails, Busy, StartPCs, controlVars, engineVars, batcherVars
<1>2. /\ caller' \in [Callers -> CallerState]
      /\ caller'[c].pc = "finish" /\ caller'[c].run = caller[c].run
      /\ \A d \in Callers \ {c} : caller'[d] = caller[d]
  BY <1>1, GoMoves DEF StopPCs
<1>3. TypeOK' BY <1>1, <1>2 DEF TypeOK
<1>4. Owned' BY <1>1 DEF Owned, EngineLive, BatcherLive
<1>5. NoLostTransition' /\ ChannelsOK' /\ OwnerOK' /\ EndedOK'
  BY <1>1, OwnerStepKeeps DEF StartPCs, StopPCs
<1>6. ProgressOK'
  BY <1>1, <1>2, OwnerAlone
  DEF ProgressOK, Busy, StartPCs, StopPCs, EngineLive, BatcherLive, BatcherOff
<1>7. RunsOK' /\ LeavingOK' BY <1>1, RunsAtRest
<1> QED BY <1>3, <1>4, <1>5, <1>6, <1>7

LEMMA BuildKeeps ==
  ASSUME IInv, NEW c \in Callers, Build(c)
  PROVE  IInv'
<1> USE DEF IInv, NothingRunsUnowned
<1>1. /\ caller[c].pc = "compile" /\ Busy(c) /\ Go(c, "engineStart")
      /\ UNCHANGED <<cstate, transition, current, channels, closed, runs, watcher,
                     cancelled, work, quit, last, parent, ended>>
  BY DEF Build, Busy, StartPCs, controlVars, engineVars, batcherVars
<1>2. /\ caller' \in [Callers -> CallerState]
      /\ caller'[c].pc = "engineStart" /\ caller'[c].run = caller[c].run
      /\ \A d \in Callers \ {c} : caller'[d] = caller[d]
  BY <1>1, GoMoves DEF StartPCs
<1>3. /\ caller[c].run = runs /\ runs \in Runs /\ cstate = "starting"
      /\ watcher[runs] = "none" /\ runs \notin quit /\ batcher[runs] = BatcherOff
      /\ \A d \in Callers \ {c} : ~Busy(d)
  BY <1>1, OwnerAlone DEF OwnerOK, ProgressOK, StartPCs
<1>4. PICK e \in {"ready", "running"}, b \in {"ready", "loop"} :
        /\ engine' = [engine EXCEPT ![runs] = e]
        /\ batcher' = [batcher EXCEPT ![runs].pc = b]
  BY <1>3 DEF Build
<1>5. /\ batcher' \in [Runs -> BatcherState]
      /\ batcher'[runs].pc = b /\ batcher'[runs].final = FALSE
      /\ \A m \in Runs \ {runs} : batcher'[m] = batcher[m]
  <2>1. batcher[runs].final = FALSE BY <1>3 DEF BatcherOff
  <2> QED BY <1>3, <1>4, <2>1, BatcherGoes
<1>6. /\ engine' \in [Runs -> {"none", "ready", "running", "halted", "done"}]
      /\ \A m \in Runs \ {runs} : engine'[m] = engine[m]
  BY <1>4 DEF TypeOK
<1>7. TypeOK' BY <1>1, <1>2, <1>5, <1>6 DEF TypeOK
<1>8. Owned' BY <1>1, <1>3, <1>5, <1>6 DEF Owned, EngineLive, BatcherLive
<1>9. NoLostTransition' /\ ChannelsOK' /\ OwnerOK' /\ EndedOK'
  BY <1>1, OwnerStepKeeps DEF StartPCs, StopPCs
<1>10. ProgressOK' BY <1>1, <1>2, <1>3 DEF ProgressOK, Busy, StartPCs, StopPCs
<1>11. RunsOK' BY <1>1, <1>3, <1>5, <1>6 DEF RunsOK, TypeOK, EngineLive, BatcherLive, Runs
<1>12. LeavingOK' BY <1>1, <1>3, <1>5, <1>6 DEF LeavingOK
<1> QED BY <1>7, <1>8, <1>9, <1>10, <1>11, <1>12

LEMMA EngineStartKeeps ==
  ASSUME IInv, NEW c \in Callers, EngineStart(c)
  PROVE  IInv'
<1> USE DEF IInv, NothingRunsUnowned
<1>1. /\ caller[c].pc = "engineStart" /\ Busy(c)
      /\ UNCHANGED <<cstate, transition, current, channels, closed, runs, watcher,
                     cancelled, work, batcher, quit, last, parent, ended>>
  BY DEF EngineStart, Busy, StartPCs, controlVars, batcherVars
<1>2. PICK pc \in {"engineStop", "batcherStart"} : Go(c, pc) BY DEF EngineStart
<1>3. /\ caller' \in [Callers -> CallerState]
      /\ caller'[c].pc = pc /\ caller'[c].run = caller[c].run
      /\ \A d \in Callers \ {c} : caller'[d] = caller[d]
  BY <1>2, GoMoves DEF StartPCs, StopPCs
<1>4. /\ caller[c].run = runs /\ runs \in Runs /\ cstate = "starting"
      /\ watcher[runs] = "none" /\ runs \notin quit
      /\ \A d \in Callers \ {c} : ~Busy(d)
  BY <1>1, OwnerAlone DEF OwnerOK, ProgressOK, StartPCs
<1>5. /\ engine' \in [Runs -> {"none", "ready", "running", "halted", "done"}]
      /\ \A m \in Runs \ {runs} : engine'[m] = engine[m]
  BY <1>4 DEF TypeOK, EngineStart
<1>6. TypeOK' BY <1>1, <1>3, <1>5 DEF TypeOK
<1>7. Owned' BY <1>1, <1>4, <1>5 DEF Owned, EngineLive, BatcherLive
<1>8. NoLostTransition' /\ ChannelsOK' /\ OwnerOK' /\ EndedOK'
  BY <1>1, <1>2, OwnerStepKeeps DEF StartPCs, StopPCs
<1>9. ProgressOK' BY <1>1, <1>3, <1>4 DEF ProgressOK, Busy, StartPCs, StopPCs
<1>10. RunsOK' BY <1>1, <1>4, <1>5 DEF RunsOK, TypeOK, EngineLive, BatcherLive, Runs
<1>11. LeavingOK' BY <1>1 DEF LeavingOK
<1> QED BY <1>6, <1>7, <1>8, <1>9, <1>10, <1>11

LEMMA BatcherStartKeeps ==
  ASSUME IInv, NEW c \in Callers, BatcherStart(c)
  PROVE  IInv'
<1> USE DEF IInv, NothingRunsUnowned
<1>1. /\ caller[c].pc = "batcherStart" /\ Busy(c)
      /\ UNCHANGED <<cstate, transition, current, channels, closed, runs, watcher, engine,
                     cancelled, work, quit, last, parent, ended>>
  BY DEF BatcherStart, Busy, StartPCs, controlVars, engineVars
<1>2. PICK pc \in {"engineStop", "publish"} : Go(c, pc) BY DEF BatcherStart
<1>3. /\ caller' \in [Callers -> CallerState]
      /\ caller'[c].pc = pc /\ caller'[c].run = caller[c].run
      /\ \A d \in Callers \ {c} : caller'[d] = caller[d]
  BY <1>2, GoMoves DEF StartPCs, StopPCs
<1>4. /\ caller[c].run = runs /\ runs \in Runs /\ cstate = "starting"
      /\ watcher[runs] = "none" /\ runs \notin quit
      /\ \A d \in Callers \ {c} : ~Busy(d)
  BY <1>1, OwnerAlone DEF OwnerOK, ProgressOK, StartPCs
<1>5. /\ batcher' \in [Runs -> BatcherState]
      /\ \A m \in Runs \ {runs} : batcher'[m] = batcher[m]
      /\ \/ batcher'[runs] = batcher[runs]
         \/ /\ ~BatcherLive(runs) /\ batcher'[runs].pc = "loop"
            /\ batcher'[runs].final = batcher[runs].final
  BY <1>4, BatcherGoes DEF TypeOK, BatcherStart
<1>6. TypeOK' BY <1>1, <1>3, <1>5 DEF TypeOK
<1>7. Owned' BY <1>1, <1>4, <1>5 DEF Owned, EngineLive, BatcherLive
<1>8. NoLostTransition' /\ ChannelsOK' /\ OwnerOK' /\ EndedOK'
  BY <1>1, <1>2, OwnerStepKeeps DEF StartPCs, StopPCs
<1>9. ProgressOK' BY <1>1, <1>3, <1>4 DEF ProgressOK, Busy, StartPCs, StopPCs
<1>10. RunsOK' BY <1>1, <1>4, <1>5 DEF RunsOK, TypeOK, EngineLive, BatcherLive, Runs
<1>11. LeavingOK' BY <1>1, <1>4, <1>5 DEF LeavingOK, BatcherLive
<1> QED BY <1>6, <1>7, <1>8, <1>9, <1>10, <1>11

LEMMA PublishRunKeeps ==
  ASSUME IInv, NEW c \in Callers, PublishRun(c)
  PROVE  IInv'
<1> USE DEF IInv, NothingRunsUnowned
<1>1. /\ caller[c].pc = "publish" /\ Busy(c)
      /\ UNCHANGED <<channels, runs, engine, cancelled, work, batcher, quit, last,
                     parent, ended>>
  BY DEF PublishRun, Busy, StartPCs, engineVars, batcherVars
<1>2. /\ caller[c].run = runs /\ runs \in Runs /\ cstate = "starting"
      /\ caller[c].channel = transition /\ transition \in Channels
      /\ transition = channels
      /\ runs \notin quit /\ \A d \in Callers \ {c} : ~Busy(d)
  BY <1>1, OwnerAlone DEF OwnerOK, ProgressOK, StartPCs
<1>3. /\ cstate' = "running" /\ current' = runs
      /\ transition' = 0 /\ closed' = closed \cup {transition}
      /\ watcher' = [watcher EXCEPT ![runs] = "engine"]
  BY <1>2 DEF PublishRun, CompleteTransition
<1>4. Idle \in CallerState BY BoundsAssumption DEF CallerState, Idle
<1>5. /\ caller' \in [Callers -> CallerState]
      /\ caller'[c] = Idle /\ \A d \in Callers \ {c} : caller'[d] = caller[d]
  BY <1>4, CallerMoves DEF PublishRun
<1>6. \A d \in Callers : ~Busy(d)' BY <1>2, <1>5 DEF Busy, Idle, StartPCs, StopPCs
<1>7. TypeOK' BY <1>1, <1>2, <1>3, <1>5 DEF TypeOK, Runs
<1>8. Owned' BY <1>1, <1>3 DEF Owned, EngineLive, BatcherLive
<1>9. NoLostTransition'
  <2>1. \A d \in Callers : caller'[d].pc = "await" => caller'[d].channel \in closed'
    BY <1>3, <1>5 DEF NoLostTransition, Idle
  <2>2. 0 \notin closed' BY <1>2, <1>3 DEF TypeOK, Channels
  <2> QED BY <1>3, <2>1, <2>2 DEF NoLostTransition
<1>10. ChannelsOK'
  BY <1>1, <1>2, <1>3, <1>5 DEF ChannelsOK, TypeOK, Runs, Channels, Idle
<1>11. OwnerOK' BY <1>6 DEF OwnerOK
<1>12. ProgressOK' BY <1>6 DEF ProgressOK, Busy, StartPCs, StopPCs
<1>13. RunsOK' BY <1>1, <1>2, <1>3 DEF RunsOK, TypeOK, EngineLive, BatcherLive, Runs
<1>14. EndedOK' BY <1>1, <1>2, <1>3, <1>5 DEF EndedOK, Idle, Runs
<1>15. LeavingOK' BY <1>1 DEF LeavingOK
<1> QED BY <1>7, <1>8, <1>9, <1>10, <1>11, <1>12, <1>13, <1>14, <1>15

-----------------------------------------------------------------------------
(* Stop.                                                                   *)

\* The run a Stop is answerable for has been accepted.
LEMMA TargetAccepted ==
  ASSUME IInv, NEW c \in Callers
  PROVE  Target(c) \in 0 .. runs
BY DEF IInv, NothingRunsUnowned, TypeOK, CallerState, EndedOK, Target

LEMMA StopWhenIdleKeeps ==
  ASSUME IInv, NEW c \in Callers, StopWhenIdle(c)
  PROVE  IInv'
<1> USE DEF IInv, NothingRunsUnowned
<1>1. /\ cstate = "idle" /\ ended' = ended \cup ({Target(c)} \ {0})
      /\ UNCHANGED <<cstate, transition, current, channels, closed, runs, watcher, engine,
                     cancelled, work, batcher, quit, last, parent>>
  BY DEF StopWhenIdle, Returns, controlVars, engineVars, batcherVars
<1>2. Idle \in CallerState BY BoundsAssumption DEF CallerState, Idle
<1>3. /\ caller' \in [Callers -> CallerState]
      /\ caller'[c] = Idle /\ \A d \in Callers \ {c} : caller'[d] = caller[d]
  BY <1>2, CallerMoves DEF StopWhenIdle, Returns
<1>4. \A d \in Callers : ~Busy(d)' BY <1>1, <1>3 DEF OwnerOK, Busy, Idle, StartPCs, StopPCs
<1>5. ended' \subseteq Runs
  <2>1. Target(c) # 0 => Target(c) \in Runs
    <3>1. Target(c) \in 0 .. runs BY TargetAccepted
    <3> QED BY <3>1, BoundsAssumption DEF TypeOK, Runs
  <2> QED BY <1>1, <2>1 DEF TypeOK
<1>6. TypeOK' BY <1>1, <1>3, <1>5 DEF TypeOK
<1>7. Owned' BY <1>1 DEF Owned, EngineLive, BatcherLive
<1>8. NoLostTransition' BY <1>1, <1>3 DEF NoLostTransition, Idle
<1>9. ChannelsOK' BY <1>1, <1>3 DEF ChannelsOK, Idle
<1>10. OwnerOK' BY <1>4 DEF OwnerOK
<1>11. ProgressOK' BY <1>4 DEF ProgressOK, Busy, StartPCs, StopPCs
<1>12. RunsOK' /\ LeavingOK' BY <1>1, RunsAtRest
<1>13. EndedOK'
  <2>1. \A n \in ended' : n <= runs BY <1>1, TargetAccepted DEF EndedOK
  <2>2. 0 <= runs BY DEF TypeOK
  <2> QED BY <1>1, <1>3, <2>1, <2>2 DEF EndedOK, Idle
<1> QED BY <1>6, <1>7, <1>8, <1>9, <1>10, <1>11, <1>12, <1>13

LEMMA StopInTransitionKeeps ==
  ASSUME IInv, NEW c \in Callers, StopInTransition(c)
  PROVE  IInv'
<1> USE DEF IInv, NothingRunsUnowned
<1>1. /\ cstate \in {"starting", "stopping"} /\ ~Busy(c)
      /\ UNCHANGED <<cstate, transition, current, channels, closed, runs, watcher, engine,
                     cancelled, work, batcher, quit, last, parent, ended>>
  BY DEF StopInTransition, Busy, StartPCs, StopPCs, controlVars, engineVars, batcherVars
<1> DEFINE r == [pc |-> "await", run |-> 0, channel |-> transition, target |-> Target(c)]
<1>2. r \in CallerState
  BY TargetAccepted, BoundsAssumption DEF TypeOK, CallerState
<1>3. /\ caller' \in [Callers -> CallerState]
      /\ caller'[c] = r /\ \A d \in Callers \ {c} : caller'[d] = caller[d]
  BY <1>2, CallerMoves DEF StopInTransition
<1>4. \A d \in Callers : Busy(d)' => d # c /\ Busy(d)
  BY <1>3 DEF Busy, StartPCs, StopPCs
<1>5. TypeOK' BY <1>1, <1>3 DEF TypeOK
<1>6. Owned' BY <1>1 DEF Owned, EngineLive, BatcherLive
<1>7. NoLostTransition' BY <1>1, <1>3 DEF NoLostTransition
<1>8. ChannelsOK' BY <1>1, <1>3 DEF ChannelsOK, NoLostTransition
<1>9. OwnerOK' BY <1>1, <1>3, <1>4 DEF OwnerOK
<1>10. ProgressOK'
  BY <1>1, <1>3 DEF ProgressOK, StartPCs, StopPCs, EngineLive, BatcherLive
<1>11. RunsOK' /\ LeavingOK' BY <1>1, RunsAtRest
<1>12. EndedOK'
  <2>1. caller'[c].target <= runs BY <1>3, TargetAccepted
  <2> QED BY <1>1, <1>3, <2>1 DEF EndedOK
<1> QED BY <1>5, <1>6, <1>7, <1>8, <1>9, <1>10, <1>11, <1>12

LEMMA TransitionEndedKeeps ==
  ASSUME IInv, NEW c \in Callers, TransitionEnded(c)
  PROVE  IInv'
<1> USE DEF IInv, NothingRunsUnowned
<1>1. /\ caller[c].pc = "await" /\ Go(c, "retry")
      /\ UNCHANGED <<cstate, transition, current, channels, closed, runs, watcher, engine,
                     cancelled, work, batcher, quit, last, parent, ended>>
  BY DEF TransitionEnded, controlVars, engineVars, batcherVars
<1>2. /\ caller' \in [Callers -> CallerState]
      /\ caller'[c].pc = "retry" /\ caller'[c].target = caller[c].target
      /\ \A d \in Callers \ {c} : caller'[d] = caller[d]
  BY <1>1, GoMoves
<1>3. \A d \in Callers : Busy(d)' => d # c /\ Busy(d)
  BY <1>2 DEF Busy, StartPCs, StopPCs
<1>4. TypeOK' BY <1>1, <1>2 DEF TypeOK
<1>5. Owned' BY <1>1 DEF Owned, EngineLive, BatcherLive
<1>6. NoLostTransition' BY <1>1, <1>2 DEF NoLostTransition
<1>7. ChannelsOK' BY <1>1, <1>2 DEF ChannelsOK
<1>8. OwnerOK' BY <1>1, <1>2, <1>3 DEF OwnerOK
<1>9. ProgressOK'
  BY <1>1, <1>2 DEF ProgressOK, StartPCs, StopPCs, EngineLive, BatcherLive
<1>10. RunsOK' /\ LeavingOK' BY <1>1, RunsAtRest
<1>11. EndedOK' BY <1>1, <1>2 DEF EndedOK
<1> QED BY <1>4, <1>5, <1>6, <1>7, <1>8, <1>9, <1>10, <1>11

LEMMA StopWhenRunningKeeps ==
  ASSUME IInv, NEW c \in Callers, StopWhenRunning(c)
  PROVE  IInv'
<1> USE DEF IInv, NothingRunsUnowned
<1>1. /\ cstate = "running" /\ cstate' = "stopping" /\ closed' = closed
      /\ transition' = channels + 1 /\ channels' = channels + 1
      /\ UNCHANGED <<current, runs, watcher, engine, cancelled, work, batcher, quit, last,
                     parent, ended>>
  BY DEF StopWhenRunning, OpenTransition, engineVars, batcherVars
<1>2. /\ current = runs /\ runs \in Runs /\ transition = 0
      /\ channels \in Nat /\ channels + 1 <= 2 * runs
      /\ channels + 1 \in Channels /\ channels + 1 \notin closed
  BY <1>1, BoundsAssumption DEF TypeOK, ChannelsOK, NoLostTransition, Runs, Channels
<1> DEFINE r == [pc |-> "engineStop", run |-> current, channel |-> channels + 1,
                 target |-> Target(c)]
<1>3. r \in CallerState
  BY <1>2, TargetAccepted, BoundsAssumption DEF TypeOK, CallerState, StopPCs
<1>4. /\ caller' \in [Callers -> CallerState]
      /\ caller'[c] = r /\ \A d \in Callers \ {c} : caller'[d] = caller[d]
  BY <1>3, CallerMoves DEF StopWhenRunning
<1>5. \A d \in Callers \ {c} : ~Busy(d)' BY <1>1, <1>4 DEF OwnerOK, Busy
<1>6. TypeOK' BY <1>1, <1>2, <1>4 DEF TypeOK
<1>7. Owned' BY <1>1, <1>2 DEF Owned, EngineLive, BatcherLive
<1>8. NoLostTransition'
  <2>1. \A d \in Callers : caller'[d].pc = "await" => caller'[d].channel \in closed
    BY <1>2, <1>4 DEF NoLostTransition, ChannelsOK
  <2> QED BY <1>1, <1>2, <2>1 DEF NoLostTransition
<1>9. ChannelsOK' BY <1>1, <1>2, <1>4 DEF ChannelsOK, TypeOK
<1>10. OwnerOK' BY <1>1, <1>2, <1>4, <1>5 DEF OwnerOK, StartPCs, Runs
<1>11. ProgressOK' BY <1>4, <1>5 DEF ProgressOK, Busy, StartPCs, StopPCs
<1>12. RunsOK' /\ LeavingOK' BY <1>1, RunsAtRest
<1>13. EndedOK'
  <2>1. caller'[c].target <= runs BY <1>4, TargetAccepted
  <2> QED BY <1>1, <1>4, <2>1 DEF EndedOK
<1> QED BY <1>6, <1>7, <1>8, <1>9, <1>10, <1>11, <1>12, <1>13

LEMMA StopEngineKeeps ==
  ASSUME IInv, NEW c \in Callers, StopEngine(c)
  PROVE  IInv'
<1> USE DEF IInv, NothingRunsUnowned
<1>1. /\ caller[c].pc = "engineStop" /\ Busy(c)
      /\ UNCHANGED <<cstate, transition, current, channels, closed, runs, watcher, engine,
                     work, batcher, quit, last, parent, ended>>
  BY DEF StopEngine, Busy, StopPCs, controlVars, batcherVars
<1>2. PICK pc \in {"engineWait", "batcherStop"} :
        Go(c, pc) /\ (pc = "batcherStop" => ~EngineLive(caller[c].run))
  BY DEF StopEngine
<1>3. /\ caller' \in [Callers -> CallerState]
      /\ caller'[c].pc = pc /\ caller'[c].run = caller[c].run
      /\ \A d \in Callers \ {c} : caller'[d] = caller[d]
  BY <1>2, GoMoves DEF StopPCs
<1>4. cancelled' \subseteq Runs BY <1>1, OwnerAlone DEF StopEngine, TypeOK
<1>5. TypeOK' BY <1>1, <1>3, <1>4 DEF TypeOK
<1>6. Owned' BY <1>1 DEF Owned, EngineLive, BatcherLive
<1>7. NoLostTransition' /\ ChannelsOK' /\ OwnerOK' /\ EndedOK'
  BY <1>1, <1>2, OwnerStepKeeps DEF StartPCs, StopPCs
<1>8. ProgressOK'
  BY <1>1, <1>2, <1>3, OwnerAlone
  DEF ProgressOK, Busy, StartPCs, StopPCs, EngineLive, BatcherLive
<1>9. RunsOK' /\ LeavingOK' BY <1>1, RunsAtRest
<1> QED BY <1>5, <1>6, <1>7, <1>8, <1>9

LEMMA EngineStoppedKeeps ==
  ASSUME IInv, NEW c \in Callers, EngineStopped(c)
  PROVE  IInv'
<1> USE DEF IInv, NothingRunsUnowned
<1>1. /\ caller[c].pc = "engineWait" /\ Busy(c) /\ Go(c, "batcherStop")
      /\ UNCHANGED <<cstate, transition, current, channels, closed, runs, watcher, engine,
                     cancelled, work, batcher, quit, last, parent, ended>>
  BY DEF EngineStopped, Busy, StopPCs, controlVars, engineVars, batcherVars
<1>2. /\ caller' \in [Callers -> CallerState]
      /\ caller'[c].pc = "batcherStop" /\ caller'[c].run = caller[c].run
      /\ \A d \in Callers \ {c} : caller'[d] = caller[d]
  BY <1>1, GoMoves DEF StopPCs
<1>3. TypeOK' BY <1>1, <1>2 DEF TypeOK
<1>4. Owned' BY <1>1 DEF Owned, EngineLive, BatcherLive
<1>5. NoLostTransition' /\ ChannelsOK' /\ OwnerOK' /\ EndedOK'
  BY <1>1, OwnerStepKeeps DEF StartPCs, StopPCs
<1>6. ProgressOK'
  BY <1>1, <1>2, OwnerAlone
  DEF ProgressOK, EngineStopped, Busy, StartPCs, StopPCs, EngineLive, BatcherLive
<1>7. RunsOK' /\ LeavingOK' BY <1>1, RunsAtRest
<1> QED BY <1>3, <1>4, <1>5, <1>6, <1>7

LEMMA StopBatcherKeeps ==
  ASSUME IInv, NEW c \in Callers, StopBatcher(c)
  PROVE  IInv'
<1> USE DEF IInv, NothingRunsUnowned
<1>1. /\ caller[c].pc = "batcherStop" /\ Busy(c)
      /\ UNCHANGED <<cstate, transition, current, channels, closed, runs, watcher, engine,
                     cancelled, work, batcher, last, parent, ended>>
  BY DEF StopBatcher, Busy, StopPCs, controlVars, engineVars
<1>2. PICK pc \in {"batcherWait", "finish"} :
        Go(c, pc) /\ (pc = "finish" => ~BatcherLive(caller[c].run))
  BY DEF StopBatcher
<1>3. /\ caller' \in [Callers -> CallerState]
      /\ caller'[c].pc = pc /\ caller'[c].run = caller[c].run
      /\ \A d \in Callers \ {c} : caller'[d] = caller[d]
  BY <1>2, GoMoves DEF StopPCs
<1>4. /\ caller[c].run = runs /\ runs \in Runs /\ \A d \in Callers \ {c} : ~Busy(d)
  BY <1>1, OwnerAlone
<1>5. ~EngineLive(runs) BY <1>1, <1>4 DEF ProgressOK
<1>6. quit' \in {quit, quit \cup {runs}} BY <1>4 DEF StopBatcher
<1>7. TypeOK' BY <1>1, <1>3, <1>4, <1>6 DEF TypeOK
<1>8. Owned' BY <1>1 DEF Owned, EngineLive, BatcherLive
<1>9. NoLostTransition' /\ ChannelsOK' /\ OwnerOK' /\ EndedOK'
  BY <1>1, <1>2, OwnerStepKeeps DEF StartPCs, StopPCs
<1>10. ProgressOK'
  BY <1>1, <1>2, <1>3, <1>4, <1>5
  DEF ProgressOK, Busy, StartPCs, StopPCs, EngineLive, BatcherLive
<1>11. RunsOK' BY <1>1, <1>4, <1>5, <1>6 DEF RunsOK, TypeOK, EngineLive, BatcherLive
<1>12. LeavingOK' BY <1>1, <1>6 DEF LeavingOK
<1> QED BY <1>7, <1>8, <1>9, <1>10, <1>11, <1>12

LEMMA BatcherStoppedKeeps ==
  ASSUME IInv, NEW c \in Callers, BatcherStopped(c)
  PROVE  IInv'
<1> USE DEF IInv, NothingRunsUnowned
<1>1. /\ caller[c].pc = "batcherWait" /\ Busy(c) /\ Go(c, "finish")
      /\ UNCHANGED <<cstate, transition, current, channels, closed, runs, watcher, engine,
                     cancelled, work, batcher, quit, last, parent, ended>>
  BY DEF BatcherStopped, Busy, StopPCs, controlVars, engineVars, batcherVars
<1>2. /\ caller' \in [Callers -> CallerState]
      /\ caller'[c].pc = "finish" /\ caller'[c].run = caller[c].run
      /\ \A d \in Callers \ {c} : caller'[d] = caller[d]
  BY <1>1, GoMoves DEF StopPCs
<1>3. TypeOK' BY <1>1, <1>2 DEF TypeOK
<1>4. Owned' BY <1>1 DEF Owned, EngineLive, BatcherLive
<1>5. NoLostTransition' /\ ChannelsOK' /\ OwnerOK' /\ EndedOK'
  BY <1>1, OwnerStepKeeps DEF StartPCs, StopPCs
<1>6. ProgressOK'
  BY <1>1, <1>2, OwnerAlone
  DEF ProgressOK, BatcherStopped, Busy, StartPCs, StopPCs, EngineLive, BatcherLive
<1>7. RunsOK' /\ LeavingOK' BY <1>1, RunsAtRest
<1> QED BY <1>3, <1>4, <1>5, <1>6, <1>7

LEMMA FinishStopKeeps ==
  ASSUME IInv, NEW c \in Callers, FinishStop(c)
  PROVE  IInv'
<1> USE DEF IInv, NothingRunsUnowned
<1>1. /\ caller[c].pc = "finish" /\ Busy(c)
      /\ cstate' = "idle" /\ current' = 0
      /\ ended' = ended \cup ({caller[c].target} \ {0})
      /\ UNCHANGED <<channels, runs, watcher, engine, cancelled, work, batcher, quit, last,
                     parent>>
  BY DEF FinishStop, Busy, StopPCs, engineVars, batcherVars
<1>2. /\ caller[c].run = runs /\ runs \in Runs
      /\ caller[c].channel = transition /\ transition \in Channels
      /\ transition = channels
      /\ \A d \in Callers \ {c} : ~Busy(d)
  BY <1>1, OwnerAlone
<1>3. ~EngineLive(runs) /\ ~BatcherLive(runs) BY <1>1, <1>2 DEF ProgressOK
<1>4. transition' = 0 /\ closed' = closed \cup {transition}
  BY <1>2 DEF FinishStop, CompleteTransition
<1>5. Idle \in CallerState BY BoundsAssumption DEF CallerState, Idle
<1>6. /\ caller' \in [Callers -> CallerState]
      /\ caller'[c] = Idle /\ \A d \in Callers \ {c} : caller'[d] = caller[d]
  BY <1>5, CallerMoves DEF FinishStop
<1>7. \A d \in Callers : ~Busy(d)' BY <1>2, <1>6 DEF Busy, Idle, StartPCs, StopPCs
<1>8. caller[c].target \in 0 .. runs BY DEF TypeOK, CallerState, EndedOK
<1>9. TypeOK'
  <2>1. caller[c].target # 0 => caller[c].target \in Runs
    BY <1>8, BoundsAssumption DEF TypeOK, Runs
  <2>2. ended' \subseteq Runs BY <1>1, <2>1 DEF TypeOK
  <2> QED BY <1>1, <1>2, <1>4, <1>6, <2>2, BoundsAssumption DEF TypeOK
<1>10. Owned' BY <1>1, <1>3 DEF Owned, EngineLive, BatcherLive
<1>11. NoLostTransition'
  <2>1. \A d \in Callers : caller'[d].pc = "await" => caller'[d].channel \in closed'
    BY <1>4, <1>6 DEF NoLostTransition, Idle
  <2>2. 0 \notin closed' BY <1>2, <1>4 DEF TypeOK, Channels
  <2> QED BY <1>1, <1>4, <2>1, <2>2 DEF NoLostTransition
<1>12. ChannelsOK'
  BY <1>1, <1>2, <1>4, <1>6 DEF ChannelsOK, TypeOK, Runs, Channels, Idle
<1>13. OwnerOK' BY <1>7 DEF OwnerOK
<1>14. ProgressOK' BY <1>7 DEF ProgressOK, Busy, StartPCs, StopPCs
<1>15. RunsOK' /\ LeavingOK' BY <1>1, RunsAtRest
<1>16. EndedOK'
  <2>1. \A n \in ended' : n <= runs BY <1>1, <1>8 DEF EndedOK
  <2>2. 0 <= runs BY DEF TypeOK
  <2> QED BY <1>1, <1>6, <2>1, <2>2 DEF EndedOK, Idle
<1> QED BY <1>9, <1>10, <1>11, <1>12, <1>13, <1>14, <1>15, <1>16

-----------------------------------------------------------------------------
(* The watcher, the engine and the batcher of a run, and the context.      *)

LEMMA WatcherSeesDoneKeeps ==
  ASSUME IInv, NEW n \in Runs, WatcherSeesDone(n)
  PROVE  IInv'
<1> USE DEF IInv, NothingRunsUnowned
<1>1. /\ watcher' = [watcher EXCEPT ![n] = "stop"] /\ watcher[n] = "engine"
      /\ ~EngineLive(n)
      /\ UNCHANGED <<cstate, transition, channels, closed, current, runs, ended, caller, engine,
                     cancelled, work, batcher, quit, last, parent>>
  BY DEF WatcherSeesDone, Watch, EngineLive, controlVars, engineVars, batcherVars
<1>2. NoLostTransition' /\ ChannelsOK' /\ OwnerOK' /\ EndedOK' BY <1>1, RunStepKeeps
<1>3. TypeOK' BY <1>1 DEF TypeOK
<1>4. Owned' BY <1>1 DEF Owned, EngineLive, BatcherLive
<1>5. ProgressOK'
  BY <1>1, OwnerAlone DEF ProgressOK, Busy, StartPCs, StopPCs, EngineLive, BatcherLive, TypeOK
<1>6. RunsOK' BY <1>1 DEF RunsOK, TypeOK, EngineLive, BatcherLive
<1>7. LeavingOK' BY <1>1 DEF LeavingOK
<1> QED BY <1>2, <1>3, <1>4, <1>5, <1>6, <1>7

LEMMA WatcherStopsBatcherKeeps ==
  ASSUME IInv, NEW n \in Runs, WatcherStopsBatcher(n)
  PROVE  IInv'
<1> USE DEF IInv, NothingRunsUnowned
<1>1. /\ watcher[n] = "stop"
      /\ UNCHANGED <<cstate, transition, channels, closed, current, runs, ended, caller, engine,
                     cancelled, work, batcher, last, parent>>
  BY DEF WatcherStopsBatcher, Watch, controlVars, engineVars
<1>2. PICK pc \in {"batcher", "lock"} :
        watcher' = [watcher EXCEPT ![n] = pc] /\ (pc = "lock" => ~BatcherLive(n))
  BY DEF WatcherStopsBatcher, Watch
<1>3. quit' \in {quit, quit \cup {n}} BY DEF WatcherStopsBatcher
<1>4. ~EngineLive(n) BY <1>1 DEF RunsOK
<1>5. NoLostTransition' /\ ChannelsOK' /\ OwnerOK' /\ EndedOK' BY <1>1, RunStepKeeps
<1>6. TypeOK' BY <1>1, <1>2, <1>3 DEF TypeOK
<1>7. Owned' BY <1>1 DEF Owned, EngineLive, BatcherLive
<1>8. ProgressOK'
  BY <1>1, <1>2, <1>3, OwnerAlone
  DEF ProgressOK, Busy, StartPCs, StopPCs, EngineLive, BatcherLive, TypeOK
<1>9. RunsOK' BY <1>1, <1>2, <1>3, <1>4 DEF RunsOK, TypeOK, EngineLive, BatcherLive
<1>10. LeavingOK' BY <1>1, <1>3 DEF LeavingOK
<1> QED BY <1>5, <1>6, <1>7, <1>8, <1>9, <1>10

LEMMA WatcherJoinsBatcherKeeps ==
  ASSUME IInv, NEW n \in Runs, WatcherJoinsBatcher(n)
  PROVE  IInv'
<1> USE DEF IInv, NothingRunsUnowned
<1>1. /\ watcher' = [watcher EXCEPT ![n] = "lock"] /\ watcher[n] = "batcher"
      /\ ~BatcherLive(n)
      /\ UNCHANGED <<cstate, transition, channels, closed, current, runs, ended, caller, engine,
                     cancelled, work, batcher, quit, last, parent>>
  BY DEF WatcherJoinsBatcher, Watch, BatcherLive, controlVars, engineVars, batcherVars
<1>2. NoLostTransition' /\ ChannelsOK' /\ OwnerOK' /\ EndedOK' BY <1>1, RunStepKeeps
<1>3. TypeOK' BY <1>1 DEF TypeOK
<1>4. Owned' BY <1>1 DEF Owned, EngineLive, BatcherLive
<1>5. ProgressOK'
  BY <1>1, OwnerAlone DEF ProgressOK, Busy, StartPCs, StopPCs, EngineLive, BatcherLive, TypeOK
<1>6. RunsOK' BY <1>1 DEF RunsOK, TypeOK, EngineLive, BatcherLive
<1>7. LeavingOK' BY <1>1 DEF LeavingOK
<1> QED BY <1>2, <1>3, <1>4, <1>5, <1>6, <1>7

LEMMA WatcherClearsKeeps ==
  ASSUME IInv, NEW n \in Runs, WatcherClears(n)
  PROVE  IInv'
<1> USE DEF IInv, NothingRunsUnowned
<1>1. /\ watcher' = [watcher EXCEPT ![n] = "exit"] /\ watcher[n] = "lock"
      /\ UNCHANGED <<transition, channels, closed, runs, caller, engine, cancelled, work,
                     batcher, quit, last, parent, ended>>
  BY DEF WatcherClears, Watch, engineVars, batcherVars
<1>2. ~EngineLive(n) /\ ~BatcherLive(n) BY <1>1 DEF RunsOK
<1>3. \/ UNCHANGED <<cstate, current>>
      \/ /\ cstate = "running" /\ current = n /\ n = runs
         /\ cstate' = "idle" /\ current' = 0
  BY DEF WatcherClears, StillMine, ChannelsOK
<1>4. TypeOK' BY <1>1, <1>3, BoundsAssumption DEF TypeOK
<1>5. Owned' BY <1>1, <1>2, <1>3 DEF Owned, EngineLive, BatcherLive
<1>6. NoLostTransition' BY <1>1, <1>3 DEF NoLostTransition
<1>7. ChannelsOK' BY <1>1, <1>3 DEF ChannelsOK
<1>8. OwnerOK' BY <1>1, <1>3 DEF OwnerOK, Busy
<1>9. ProgressOK'
  BY <1>1, OwnerAlone DEF ProgressOK, Busy, StartPCs, StopPCs, EngineLive, BatcherLive, TypeOK
<1>10. RunsOK' BY <1>1 DEF RunsOK, TypeOK, EngineLive, BatcherLive
<1>11. EndedOK' BY <1>1, <1>3 DEF EndedOK
<1>12. LeavingOK' BY <1>1 DEF LeavingOK
<1> QED BY <1>4, <1>5, <1>6, <1>7, <1>8, <1>9, <1>10, <1>11, <1>12

LEMMA EngineCountsKeeps ==
  ASSUME IInv, NEW n \in Runs, EngineCounts(n)
  PROVE  IInv'
<1> USE DEF IInv, NothingRunsUnowned
<1>1. /\ EngineLive(n) /\ work[n] < MaxWork /\ work' = [work EXCEPT ![n] = @ + 1]
      /\ UNCHANGED <<cstate, transition, channels, closed, current, runs, ended, caller, watcher,
                     engine, cancelled, batcher, quit, last, parent>>
  BY DEF EngineCounts, controlVars, batcherVars
<1>2. NoLostTransition' /\ ChannelsOK' /\ OwnerOK' /\ EndedOK' BY <1>1, RunStepKeeps
<1>3. TypeOK'
  <2>1. work[n] + 1 \in 0 .. MaxWork BY <1>1, BoundsAssumption DEF TypeOK
  <2> QED BY <1>1, <2>1 DEF TypeOK
<1>4. Owned' BY <1>1 DEF Owned, EngineLive, BatcherLive
<1>5. ProgressOK' BY <1>1 DEF ProgressOK, EngineLive, BatcherLive
<1>6. RunsOK' BY <1>1 DEF RunsOK, EngineLive, BatcherLive
<1>7. LeavingOK'
  <2>1. n \notin quit BY <1>1 DEF RunsOK
  <2>2. \A m \in Runs \ {n} : work'[m] = work[m] BY <1>1 DEF TypeOK
  <2> QED BY <1>1, <2>1, <2>2 DEF LeavingOK
<1> QED BY <1>2, <1>3, <1>4, <1>5, <1>6, <1>7

LEMMA EngineHaltsKeeps ==
  ASSUME IInv, NEW n \in Runs, EngineHalts(n)
  PROVE  IInv'
<1> USE DEF IInv, NothingRunsUnowned
<1>1. /\ engine[n] = "running" /\ engine' = [engine EXCEPT ![n] = "halted"]
      /\ UNCHANGED <<cstate, transition, channels, closed, current, runs, ended, caller, watcher,
                     cancelled, work, batcher, quit, last, parent>>
  BY DEF EngineHalts, EngineLive, controlVars, batcherVars
<1>2. n <= runs BY <1>1 DEF RunsOK, TypeOK, Runs
<1>3. \A m \in Runs : EngineLive(m)' => EngineLive(m) BY <1>1 DEF EngineLive, TypeOK
<1>4. NoLostTransition' /\ ChannelsOK' /\ OwnerOK' /\ EndedOK' BY <1>1, RunStepKeeps
<1>5. TypeOK' BY <1>1 DEF TypeOK
<1>6. Owned' BY <1>1, <1>3 DEF Owned, BatcherLive
<1>7. ProgressOK'
  BY <1>1, <1>3, OwnerAlone DEF ProgressOK, Busy, StartPCs, StopPCs, BatcherLive, TypeOK
<1>8. RunsOK' BY <1>1, <1>2, <1>3 DEF RunsOK, TypeOK, BatcherLive
<1>9. LeavingOK' BY <1>1 DEF LeavingOK
<1> QED BY <1>4, <1>5, <1>6, <1>7, <1>8, <1>9

LEMMA EngineClosesKeeps ==
  ASSUME IInv, NEW n \in Runs, EngineCloses(n)
  PROVE  IInv'
<1> USE DEF IInv, NothingRunsUnowned
<1>1. /\ engine[n] = "halted" /\ engine' = [engine EXCEPT ![n] = "done"]
      /\ UNCHANGED <<cstate, transition, channels, closed, current, runs, ended, caller, watcher,
                     cancelled, work, batcher, quit, last, parent>>
  BY DEF EngineCloses, EngineLive, controlVars, batcherVars
<1>2. n <= runs BY <1>1 DEF RunsOK, TypeOK, Runs
<1>3. \A m \in Runs : EngineLive(m)' => EngineLive(m) BY <1>1 DEF EngineLive, TypeOK
<1>4. NoLostTransition' /\ ChannelsOK' /\ OwnerOK' /\ EndedOK' BY <1>1, RunStepKeeps
<1>5. TypeOK' BY <1>1 DEF TypeOK
<1>6. Owned' BY <1>1, <1>3 DEF Owned, BatcherLive
<1>7. ProgressOK'
  BY <1>1, <1>3, OwnerAlone DEF ProgressOK, Busy, StartPCs, StopPCs, BatcherLive, TypeOK
<1>8. RunsOK' BY <1>1, <1>2, <1>3 DEF RunsOK, TypeOK, BatcherLive
<1>9. LeavingOK' BY <1>1 DEF LeavingOK
<1> QED BY <1>4, <1>5, <1>6, <1>7, <1>8, <1>9

\* A step of a live batcher disturbs nothing but what its last batch says.
LEMMA BatcherStepKeeps ==
  ASSUME IInv, NEW n \in Runs, BatcherLive(n),
         batcher' \in [Runs -> BatcherState], last' \in [Runs -> BatchState],
         \A m \in Runs \ {n} : batcher'[m] = batcher[m],
         BatcherFrame
  PROVE  /\ NothingRunsUnowned' /\ NoLostTransition' /\ ChannelsOK' /\ OwnerOK'
         /\ ProgressOK' /\ RunsOK' /\ EndedOK'
<1> USE DEF IInv, NothingRunsUnowned
<1>1. UNCHANGED <<cstate, transition, channels, closed, current, runs, ended, caller, watcher,
                  engine, cancelled, work, quit, parent>>
  BY DEF BatcherFrame, controlVars, engineVars
<1>2. n = runs /\ batcher[n] # BatcherOff BY DEF Owned, BatcherLive, BatcherOff
<1>3. \A m \in Runs : BatcherLive(m)' => BatcherLive(m) BY DEF BatcherLive
<1>4. NoLostTransition' /\ ChannelsOK' /\ OwnerOK' /\ EndedOK' BY <1>1, RunStepKeeps
<1>5. TypeOK' BY <1>1 DEF TypeOK, BatchState
<1>6. Owned' BY <1>1, <1>3 DEF Owned, EngineLive
<1>7. ProgressOK'
  BY <1>1, <1>2, <1>3, OwnerAlone DEF ProgressOK, Busy, StartPCs, StopPCs, EngineLive
<1>8. RunsOK' BY <1>1, <1>2, <1>3 DEF RunsOK, TypeOK, EngineLive, Runs
<1> QED BY <1>4, <1>5, <1>6, <1>7, <1>8

LEMMA BatcherTickKeeps ==
  ASSUME IInv, NEW n \in Runs, BatcherTick(n)
  PROVE  IInv'
<1> USE DEF IInv, NothingRunsUnowned
<1>1. /\ batcher[n].pc = "loop" /\ BatcherLive(n) /\ BatcherFrame
      /\ UNCHANGED <<work, quit, last, parent>>
      /\ batcher' = [batcher EXCEPT ![n] = Emitting(n, FALSE)]
  BY DEF BatcherTick, BatcherLive, BatcherFrame, engineVars
<1>2. Emitting(n, FALSE) \in BatcherState BY DEF TypeOK, BatcherState, Emitting
<1>3. /\ batcher' \in [Runs -> BatcherState] /\ batcher'[n] = Emitting(n, FALSE)
      /\ \A m \in Runs \ {n} : batcher'[m] = batcher[m]
  BY <1>1, <1>2, BatcherMoves
<1>4. last' \in [Runs -> BatchState] BY <1>1 DEF TypeOK, BatchState
<1>5. LeavingOK' BY <1>1, <1>3 DEF LeavingOK, Emitting
<1> QED BY <1>1, <1>3, <1>4, <1>5, BatcherStepKeeps

LEMMA BatcherQuitsKeeps ==
  ASSUME IInv, NEW n \in Runs, BatcherQuits(n)
  PROVE  IInv'
<1> USE DEF IInv, NothingRunsUnowned
<1>1. /\ batcher[n].pc = "loop" /\ BatcherLive(n) /\ BatcherFrame
      /\ UNCHANGED <<work, quit, last, parent>>
      /\ batcher' = [batcher EXCEPT ![n] = Emitting(n, TRUE)]
  BY DEF BatcherQuits, BatcherLive, BatcherFrame, engineVars
<1>2. Emitting(n, TRUE) \in BatcherState BY DEF TypeOK, BatcherState, Emitting
<1>3. /\ batcher' \in [Runs -> BatcherState] /\ batcher'[n] = Emitting(n, TRUE)
      /\ \A m \in Runs \ {n} : batcher'[m] = batcher[m]
  BY <1>1, <1>2, BatcherMoves
<1>4. last' \in [Runs -> BatchState] BY <1>1 DEF TypeOK, BatchState
<1>5. LeavingOK' BY <1>1, <1>3 DEF LeavingOK, Emitting, BatcherQuits
<1> QED BY <1>1, <1>3, <1>4, <1>5, BatcherStepKeeps

LEMMA BatcherReadsRunningKeeps ==
  ASSUME IInv, NEW n \in Runs, BatcherReadsRunning(n)
  PROVE  IInv'
<1> USE DEF IInv, NothingRunsUnowned
<1> DEFINE r == [pc |-> "send", final |-> batcher[n].final, total |-> batcher[n].total,
                 running |-> EngineLive(n)]
<1>1. /\ batcher[n].pc = "read" /\ BatcherLive(n) /\ BatcherFrame
      /\ UNCHANGED <<work, quit, last, parent>>
      /\ batcher' = [batcher EXCEPT ![n] = r]
  BY DEF BatcherReadsRunning, BatcherLive, BatcherFrame, engineVars
<1>2. r \in BatcherState BY DEF TypeOK, BatcherState, EngineLive
<1>3. /\ batcher' \in [Runs -> BatcherState] /\ batcher'[n] = r
      /\ \A m \in Runs \ {n} : batcher'[m] = batcher[m]
  BY <1>1, <1>2, BatcherMoves
<1>4. last' \in [Runs -> BatchState] BY <1>1 DEF TypeOK, BatchState
<1>5. n \in quit => ~EngineLive(n) BY DEF RunsOK
<1>6. LeavingOK' BY <1>1, <1>3, <1>5 DEF LeavingOK
<1> QED BY <1>1, <1>3, <1>4, <1>6, BatcherStepKeeps

LEMMA BatcherEmitsKeeps ==
  ASSUME IInv, NEW n \in Runs, BatcherEmits(n)
  PROVE  IInv'
<1> USE DEF IInv, NothingRunsUnowned
<1> DEFINE r == [pc |-> IF batcher[n].final THEN "close" ELSE "loop",
                 final |-> FALSE, total |-> 0, running |-> FALSE]
<1>1. /\ batcher[n].pc = "send" /\ BatcherLive(n) /\ BatcherFrame
      /\ UNCHANGED <<work, quit, parent>>
      /\ last' = [last EXCEPT ![n] = Batch(n)] /\ batcher' = [batcher EXCEPT ![n] = r]
  BY DEF BatcherEmits, BatcherLive, BatcherFrame, engineVars
<1>2. r \in BatcherState BY BoundsAssumption DEF TypeOK, BatcherState
<1>3. /\ batcher' \in [Runs -> BatcherState] /\ batcher'[n] = r
      /\ \A m \in Runs \ {n} : batcher'[m] = batcher[m]
  BY <1>1, <1>2, BatcherMoves
<1>4. /\ last' \in [Runs -> BatchState] /\ last'[n] = Batch(n)
      /\ \A m \in Runs \ {n} : last'[m] = last[m]
  <2>1. Batch(n) \in BatchState BY DEF Batch, TypeOK, BatcherState, BatchState
  <2> QED BY <1>1, <2>1 DEF TypeOK, BatchState
<1>5. LeavingOK'
  <2>1. r.pc = "close" => batcher[n].final OBVIOUS
  <2>2. ~parent /\ r.pc = "close" =>
          n \in quit /\ last'[n] = [total |-> work[n], running |-> FALSE]
    BY <1>1, <1>4, <2>1 DEF LeavingOK, Batch, TypeOK, BatcherState
  <2>3. r.final = FALSE /\ r.pc \in {"close", "loop"} OBVIOUS
  <2> QED BY <1>1, <1>3, <1>4, <2>2, <2>3 DEF LeavingOK
<1> QED BY <1>1, <1>3, <1>4, <1>5, BatcherStepKeeps

LEMMA BatcherClosesKeeps ==
  ASSUME IInv, NEW n \in Runs, BatcherCloses(n)
  PROVE  IInv'
<1> USE DEF IInv, NothingRunsUnowned
<1>1. /\ batcher[n].pc = "close" /\ BatcherLive(n) /\ BatcherFrame
      /\ UNCHANGED <<work, quit, last, parent>>
      /\ batcher' = [batcher EXCEPT ![n].pc = "done"]
  BY DEF BatcherCloses, BatcherLive, BatcherFrame, engineVars
<1>2. /\ batcher' \in [Runs -> BatcherState]
      /\ batcher'[n].pc = "done" /\ batcher'[n].final = batcher[n].final
      /\ \A m \in Runs \ {n} : batcher'[m] = batcher[m]
  BY <1>1, BatcherGoes
<1>3. last' \in [Runs -> BatchState] BY <1>1 DEF TypeOK, BatchState
<1>4. LeavingOK' BY <1>1, <1>2 DEF LeavingOK
<1> QED BY <1>1, <1>2, <1>3, <1>4, BatcherStepKeeps

LEMMA CancelParentKeeps ==
  ASSUME IInv, CancelParent
  PROVE  IInv'
<1> USE DEF IInv, NothingRunsUnowned
<1>1. /\ parent' = TRUE
      /\ UNCHANGED <<cstate, transition, channels, closed, current, runs, ended, caller,
                     watcher, engine, cancelled, work, batcher, quit, last>>
  BY DEF CancelParent, controlVars, engineVars, batcherVars
<1>2. NoLostTransition' /\ ChannelsOK' /\ OwnerOK' /\ EndedOK' BY <1>1, RunStepKeeps
<1>3. TypeOK' BY <1>1 DEF TypeOK
<1>4. Owned' BY <1>1 DEF Owned, EngineLive, BatcherLive
<1>5. ProgressOK' BY <1>1 DEF ProgressOK, EngineLive, BatcherLive
<1>6. RunsOK' BY <1>1 DEF RunsOK, EngineLive, BatcherLive
<1>7. LeavingOK' BY <1>1 DEF LeavingOK
<1> QED BY <1>2, <1>3, <1>4, <1>5, <1>6, <1>7

-----------------------------------------------------------------------------
(* The invariant and what it implies.                                      *)

LEMMA InitIInv == Init => IInv
<1> SUFFICES ASSUME Init PROVE IInv OBVIOUS
<1> USE BoundsAssumption DEF Init
<1>1. TypeOK
  <2>1. Idle \in CallerState BY DEF Idle, CallerState
  <2>2. BatcherOff \in BatcherState BY DEF BatcherOff, BatcherState
  <2>3. caller \in [Callers -> CallerState] BY <2>1
  <2>4. batcher \in [Runs -> BatcherState] BY <2>2
  <2>5. last \in [Runs -> BatchState] BY DEF NoBatch, BatchState
  <2>6. work \in [Runs -> 0 .. MaxWork] OBVIOUS
  <2>7. 0 \in 0 .. MaxRuns OBVIOUS
  <2>8. /\ watcher \in [Runs -> {"none", "engine", "stop", "batcher", "lock", "exit"}]
        /\ engine \in [Runs -> {"none", "ready", "running", "halted", "done"}]
    OBVIOUS
  <2> HIDE DEF Init
  <2>9. /\ cstate = "idle" /\ transition = 0 /\ current = 0 /\ channels = 0 /\ closed = {}
        /\ runs = 0 /\ cancelled = {} /\ quit = {} /\ parent = FALSE /\ ended = {}
    BY DEF Init
  <2> QED BY <2>3, <2>4, <2>5, <2>6, <2>7, <2>8, <2>9 DEF TypeOK, BatchState
<1>2. Owned BY DEF Owned, EngineLive, BatcherLive, BatcherOff
<1>3. NoLostTransition /\ ChannelsOK BY DEF NoLostTransition, ChannelsOK, Idle
<1>4. OwnerOK /\ ProgressOK
  BY DEF OwnerOK, ProgressOK, Busy, Idle, StartPCs, StopPCs
<1>5. RunsOK BY DEF RunsOK, EngineLive, BatcherLive, BatcherOff
<1>6. EndedOK BY DEF EndedOK, Idle
<1>7. LeavingOK BY DEF LeavingOK, BatcherOff
<1> QED BY <1>1, <1>2, <1>3, <1>4, <1>5, <1>6, <1>7 DEF IInv, NothingRunsUnowned

LEMMA NextIInv == IInv /\ [Next]_vars => IInv'
<1> SUFFICES ASSUME IInv, [Next]_vars PROVE IInv' OBVIOUS
<1>1. ASSUME NEW c \in Callers,
             StartAccepted(c) \/ (caller[c].pc = "idle" /\ CallStop(c)) \/ Continue(c)
      PROVE  IInv'
  BY <1>1, StartAcceptedKeeps, CompileFailsKeeps, BuildKeeps, EngineStartKeeps,
     BatcherStartKeeps, PublishRunKeeps, StopWhenIdleKeeps, StopInTransitionKeeps,
     TransitionEndedKeeps, StopWhenRunningKeeps, StopEngineKeeps, EngineStoppedKeeps,
     StopBatcherKeeps, BatcherStoppedKeeps, FinishStopKeeps
  DEF CallStop, Continue
<1>2. ASSUME NEW n \in Runs, WatcherStep(n) PROVE IInv'
  BY <1>2, WatcherSeesDoneKeeps, WatcherStopsBatcherKeeps, WatcherJoinsBatcherKeeps,
     WatcherClearsKeeps
  DEF WatcherStep
<1>3. ASSUME NEW n \in Runs, EngineStep(n) PROVE IInv'
  BY <1>3, EngineCountsKeeps, EngineHaltsKeeps, EngineClosesKeeps DEF EngineStep
<1>4. ASSUME NEW n \in Runs, BatcherStep(n) PROVE IInv'
  BY <1>4, BatcherTickKeeps, BatcherQuitsKeeps, BatcherReadsRunningKeeps, BatcherEmitsKeeps,
     BatcherClosesKeeps
  DEF BatcherStep
<1>5. CASE CancelParent BY <1>5, CancelParentKeeps
<1>6. CASE UNCHANGED vars
  <2>1. UNCHANGED <<cstate, transition, channels, closed, current, runs, ended, caller,
                    watcher, engine, cancelled, work, batcher, quit, last, parent>>
    BY <1>6 DEF vars, controlVars, engineVars, batcherVars
  <2>2. TypeOK' BY <2>1 DEF IInv, NothingRunsUnowned, TypeOK
  <2>3. Owned' BY <2>1 DEF IInv, NothingRunsUnowned, Owned, EngineLive, BatcherLive
  <2>4. NoLostTransition' /\ ChannelsOK' /\ OwnerOK' /\ EndedOK' BY <2>1, RunStepKeeps
  <2>5. ProgressOK' BY <2>1 DEF IInv, ProgressOK, EngineLive, BatcherLive
  <2>6. RunsOK' /\ LeavingOK' BY <2>1, RunsAtRest
  <2> QED BY <2>2, <2>3, <2>4, <2>5, <2>6 DEF IInv, NothingRunsUnowned
<1> QED BY <1>1, <1>2, <1>3, <1>4, <1>5, <1>6 DEF Next

\* IInv holds in every reachable state: one owner per transition, and a run is
\* silent by the time its owner or its watcher says so.
THEOREM ControllerInvariant == Spec => []IInv
BY InitIInv, NextIInv, PTL DEF Spec

\* Nothing runs behind the back of an idle controller, and two runs never
\* overlap: Start rolls back what it started, Stop and the watcher let go of a
\* run only when it is silent.
THEOREM OwnedRuns == Spec => []NothingRunsUnowned
<1>1. IInv => NothingRunsUnowned BY DEF IInv
<1> QED BY <1>1, ControllerInvariant, PTL

\* Every caller that waits for a transition waits for a channel that its owner
\* closes: completeTransitionLocked forgets no channel.
THEOREM TransitionsAnnounced == Spec => []NoLostTransition
<1>1. IInv => NoLostTransition BY DEF IInv
<1> QED BY <1>1, ControllerInvariant, PTL

\* When Stop returns, the run that was in progress when it was called is over,
\* engine and batcher, however often Stop had to wait for a transition.
THEOREM StopEndsTheRun == Spec => []StopMeansStopped
<1>1. IInv => StopMeansStopped
  <2> SUFFICES ASSUME IInv, NEW n \in ended PROVE ~EngineLive(n) /\ ~BatcherLive(n)
    BY DEF StopMeansStopped
  <2>1. n \in Runs /\ runs \in Nat BY DEF IInv, NothingRunsUnowned, TypeOK
  <2>2. cstate # "idle" => n # runs BY <2>1 DEF IInv, EndedOK, Runs
  <2> QED BY <2>1, <2>2 DEF IInv, NothingRunsUnowned, Owned
<1> QED BY <1>1, ControllerInvariant, PTL

\* The last batch of a run that nobody cancelled from outside carries the final
\* counters and says that the run is over: the batcher copies the counters for
\* its final batch after the engine has stopped.
THEOREM FinalBatch == Spec => []LastBatchIsFinal
<1>1. IInv => LastBatchIsFinal
  BY DEF IInv, NothingRunsUnowned, TypeOK, RunsOK, LeavingOK, LastBatchIsFinal
<1> QED BY <1>1, ControllerInvariant, PTL
=============================================================================
