------------------------- MODULE WorkerServerProofs -------------------------
(***************************************************************************)
(* Proofs about WorkerServer for every set of runs, handlers and pollers   *)
(* and every bound. IInv is inductive: it holds initially, and one lemma   *)
(* per action shows that the action preserves each of its parts.           *)
(***************************************************************************)
EXTENDS WorkerServer, TLAPS

\* The empty worker satisfies the invariant.
LEMMA InitInv == Init => IInv
<1> SUFFICES ASSUME Init PROVE IInv
  OBVIOUS
<1> USE BoundsAssumption, NoRunAssumption DEF Init
<1>1. TypeOK
  <2>1. generation \in 0 .. MaxGenerations /\ scheduleCancel \in 0 .. MaxGenerations
    OBVIOUS
  <2>2. work \in [Gens -> 0 .. MaxWork]
    OBVIOUS
  <2>3. stop \in [Stoppers -> [pc : {"idle", "engine", "wait", "lock"},
                              run : Runs \cup {NoRun}, gen : 0 .. MaxGenerations]]
    BY DEF StopIdle
  <2>4. poll \in [Pollers -> [pc : {"idle", "counters"}, gen : 0 .. MaxGenerations,
                             state : States, started : BOOLEAN]]
    BY DEF PollIdle, States
  <2>5. task \in [Gens -> TaskPCs] /\ engine \in [Gens -> EnginePhases]
    BY DEF TaskPCs, EnginePhases
  <2> QED BY <2>1, <2>2, <2>3, <2>4, <2>5 DEF TypeOK, States
<1>2. HeldRun /\ FreshRuns
  BY DEF HeldRun, FreshRuns
<1>3. TaskEngine
  BY DEF TaskEngine, Live, Gens
<1>4. StopHandlers /\ FinalAnswers
  BY DEF StopHandlers, FinalAnswers, StopIdle, PollIdle
<1> QED BY <1>1, <1>2, <1>3, <1>4 DEF IInv

\* Prepare draws a new identifier and generation, so no goroutine belongs to them yet.
LEMMA PrepareInv ==
  ASSUME IInv, NEW r \in Runs, Prepare(r)
  PROVE  IInv'
<1> USE BoundsAssumption, NoRunAssumption DEF IInv, Prepare, Expire
<1>1. TypeOK'
  <2>1. engine' \in [Gens -> EnginePhases]
    BY DEF TypeOK, EnginePhases
  <2>2. generation' \in Gens /\ cancelled' \subseteq Gens
    BY DEF TypeOK, Gens
  <2>3. generation' \in 0 .. MaxGenerations /\ scheduleCancel' \in 0 .. MaxGenerations
    BY DEF TypeOK
  <2>4. state' \in States
    BY DEF States
  <2> QED BY <2>1, <2>2, <2>3, <2>4 DEF TypeOK
<1>2. HeldRun'
  BY DEF HeldRun, TypeOK, TaskEngine, Gens, Terminal, Live
<1>3. TaskEngine'
  BY DEF TaskEngine, TypeOK, Gens, Terminal, Live
<1>4. FreshRuns'
  <2>1. acked' \subseteq issued' /\ runID' \in issued'
    BY DEF FreshRuns
  <2>2. \A g \in Gens : taskRun[g] \in issued' \cup {NoRun} /\ taskRun[g] # r
    BY DEF FreshRuns
  <2> QED BY <2>1, <2>2 DEF FreshRuns
<1>5. StopHandlers'
  BY DEF StopHandlers, TypeOK, TaskEngine, Gens, Terminal, Live
<1>6. FinalAnswers'
  BY DEF FinalAnswers, TypeOK, HeldRun, TaskEngine, FreshRuns, StopHandlers, Gens, Terminal, Live
<1> QED BY <1>1, <1>2, <1>3, <1>4, <1>5, <1>6

\* Start gives the held generation its goroutine, which waits for the timer.
LEMMA StartInv ==
  ASSUME IInv, NEW r \in Runs, Start(r)
  PROVE  IInv'
<1> USE BoundsAssumption, NoRunAssumption DEF IInv, Start, engineVars, requestVars
<1>1. TypeOK'
  BY DEF TypeOK, States, Gens, EnginePhases, TaskPCs
<1>2. HeldRun'
  BY DEF HeldRun, TypeOK, Gens
<1>3. TaskEngine'
  BY DEF TaskEngine, TypeOK, HeldRun, Gens, Terminal, Live
<1>4. FreshRuns'
  BY DEF FreshRuns
<1>5. StopHandlers'
  BY DEF StopHandlers, TypeOK, HeldRun, Gens, Terminal, Live
<1>6. FinalAnswers'
  BY DEF FinalAnswers
<1> QED BY <1>1, <1>2, <1>3, <1>4, <1>5, <1>6

\* A terminal run answers from the state alone.
LEMMA StopTerminalInv ==
  ASSUME IInv, NEW s \in Stoppers, NEW r \in Runs, StopTerminal(s, r)
  PROVE  IInv'
<1> USE BoundsAssumption, NoRunAssumption DEF IInv, StopTerminal, serverVars, taskVars,
      engineVars
<1>1. TypeOK'
  BY DEF TypeOK
<1>2. HeldRun'
  BY DEF HeldRun
<1>3. TaskEngine'
  BY DEF TaskEngine, TypeOK, Gens, Terminal, Live
<1>4. FreshRuns'
  BY DEF FreshRuns
<1>5. StopHandlers'
  BY DEF StopHandlers
<1>6. FinalAnswers'
  BY DEF FinalAnswers, TypeOK, Gens, Terminal, Live
<1> QED BY <1>1, <1>2, <1>3, <1>4, <1>5, <1>6

\* Stop before the start leaves the run terminal with an engine that is not published.
LEMMA StopBeforeStartInv ==
  ASSUME IInv, NEW s \in Stoppers, NEW r \in Runs, StopBeforeStart(s, r)
  PROVE  IInv'
<1> USE BoundsAssumption, NoRunAssumption DEF IInv, StopBeforeStart, Expire, engineVars
<1>1. TypeOK'
  BY DEF TypeOK, States, Gens, EnginePhases, TaskPCs
<1>2. HeldRun'
  BY DEF HeldRun, TypeOK, Gens
<1>3. TaskEngine'
  BY DEF TaskEngine, TypeOK, Gens, Terminal, Live
<1>4. FreshRuns'
  BY DEF FreshRuns
<1>5. StopHandlers'
  BY DEF StopHandlers
<1>6. FinalAnswers'
  BY DEF FinalAnswers
<1> QED BY <1>1, <1>2, <1>3, <1>4, <1>5, <1>6

\* The handler remembers a run that is running and its generation.
LEMMA StopRunningInv ==
  ASSUME IInv, NEW s \in Stoppers, NEW r \in Runs, StopRunning(s, r)
  PROVE  IInv'
<1> USE BoundsAssumption, NoRunAssumption DEF IInv, StopRunning, Expire, engineVars
<1>1. TypeOK'
  BY DEF TypeOK, States, Gens, EnginePhases, TaskPCs
<1>2. HeldRun'
  BY DEF HeldRun, TypeOK, Gens
<1>3. TaskEngine'
  BY DEF TaskEngine, TypeOK, Gens, Terminal, Live
<1>4. FreshRuns'
  BY DEF FreshRuns
<1>5. StopHandlers'
  BY DEF StopHandlers, TypeOK, HeldRun, TaskEngine, FreshRuns, FinalAnswers, Gens, Terminal, Live
<1>6. FinalAnswers'
  BY DEF FinalAnswers
<1> QED BY <1>1, <1>2, <1>3, <1>4, <1>5, <1>6

\* Cancelling an engine only moves it from running to stopping.
LEMMA StopEngineInv ==
  ASSUME IInv, NEW s \in Stoppers, StopEngine(s)
  PROVE  IInv'
<1> USE BoundsAssumption, NoRunAssumption DEF IInv, StopEngine, CancelEngine, Live,
      serverVars, taskVars
<1>1. TypeOK'
  <2>1. \A pc \in {"wait", "lock"} :
          [stop[s] EXCEPT !.pc = pc]
            \in [pc : {"idle", "engine", "wait", "lock"},
                run : Runs \cup {NoRun}, gen : 0 .. MaxGenerations]
    BY DEF TypeOK
  <2>2. engine' \in [Gens -> EnginePhases]
    BY DEF TypeOK, EnginePhases
  <2> QED BY <2>1, <2>2 DEF TypeOK
<1>2. HeldRun'
  BY DEF HeldRun
<1>3. TaskEngine'
  BY DEF TaskEngine
<1>4. FreshRuns'
  BY DEF FreshRuns
<1>5. StopHandlers'
  BY DEF StopHandlers, TypeOK, Gens
<1>6. FinalAnswers'
  BY DEF FinalAnswers
<1> QED BY <1>1, <1>2, <1>3, <1>4, <1>5, <1>6

\* The handler passes once the engine is done.
LEMMA StopWaitsInv ==
  ASSUME IInv, NEW s \in Stoppers, StopWaits(s)
  PROVE  IInv'
<1> USE BoundsAssumption, NoRunAssumption DEF IInv, StopWaits, serverVars, taskVars,
      engineVars
<1>1. TypeOK'
  <2>1. [stop[s] EXCEPT !.pc = "lock"]
          \in [pc : {"idle", "engine", "wait", "lock"},
              run : Runs \cup {NoRun}, gen : 0 .. MaxGenerations]
    BY DEF TypeOK
  <2> QED BY <2>1 DEF TypeOK
<1>2. HeldRun'
  BY DEF HeldRun
<1>3. TaskEngine'
  BY DEF TaskEngine, TypeOK, Gens, Terminal, Live
<1>4. FreshRuns'
  BY DEF FreshRuns
<1>5. StopHandlers'
  BY DEF StopHandlers
<1>6. FinalAnswers'
  BY DEF FinalAnswers
<1> QED BY <1>1, <1>2, <1>3, <1>4, <1>5, <1>6

\* The second critical section answers for the run the handler remembers.
LEMMA StopReplyInv ==
  ASSUME IInv, NEW s \in Stoppers, StopReply(s)
  PROVE  IInv'
<1> USE BoundsAssumption, NoRunAssumption DEF IInv, StopReply, taskVars, engineVars,
      StopIdle
<1>1. TypeOK'
  BY DEF TypeOK, StopHandlers, Gens, Terminal, Live, EnginePhases, TaskPCs, States
<1>2. HeldRun'
  BY DEF HeldRun, TypeOK, TaskEngine, FreshRuns, StopHandlers, FinalAnswers, Gens, Terminal, Live
<1>3. TaskEngine'
  BY DEF TaskEngine, TypeOK, HeldRun, FreshRuns, StopHandlers, FinalAnswers, Gens, Terminal, Live
<1>4. FreshRuns'
  BY DEF FreshRuns, TypeOK, StopHandlers, Gens, Terminal, Live
<1>5. StopHandlers'
  BY DEF StopHandlers
<1>6. FinalAnswers'
  BY DEF FinalAnswers, TypeOK, Gens, Terminal, Live
<1> QED BY <1>1, <1>2, <1>3, <1>4, <1>5, <1>6

\* A terminal status is copied only when the engine has settled.
LEMMA SnapshotStatusInv ==
  ASSUME IInv, NEW p \in Pollers, SnapshotStatus(p)
  PROVE  IInv'
<1> USE BoundsAssumption, NoRunAssumption DEF IInv, SnapshotStatus, serverVars,
      taskVars, engineVars
<1>1. TypeOK'
  BY DEF TypeOK
<1>2. HeldRun'
  BY DEF HeldRun
<1>3. TaskEngine'
  BY DEF TaskEngine, TypeOK, Gens, Terminal, Live
<1>4. FreshRuns'
  BY DEF FreshRuns
<1>5. StopHandlers'
  BY DEF StopHandlers
<1>6. FinalAnswers'
  BY DEF FinalAnswers, TypeOK, HeldRun, Gens, Terminal, Live
<1> QED BY <1>1, <1>2, <1>3, <1>4, <1>5, <1>6

\* The counters are read after the status: a done engine no longer moves them.
LEMMA SnapshotCountersInv ==
  ASSUME IInv, NEW p \in Pollers, SnapshotCounters(p)
  PROVE  IInv'
<1> USE BoundsAssumption, NoRunAssumption DEF IInv, SnapshotCounters, serverVars,
      taskVars, engineVars, PollIdle
<1>1. TypeOK'
  <2>1. poll[p].gen \in Gens /\ work[poll[p].gen] \in 0 .. MaxWork
    BY DEF FinalAnswers, TypeOK
  <2>2. finals' \subseteq [gen : Gens, work : 0 .. MaxWork]
    BY <2>1 DEF TypeOK
  <2>3. poll' \in [Pollers -> [pc : {"idle", "counters"}, gen : 0 .. MaxGenerations,
                              state : States, started : BOOLEAN]]
    BY DEF TypeOK, States
  <2> QED BY <2>2, <2>3 DEF TypeOK
<1>2. HeldRun'
  BY DEF HeldRun
<1>3. TaskEngine'
  BY DEF TaskEngine, TypeOK, Gens, Terminal, Live
<1>4. FreshRuns'
  BY DEF FreshRuns
<1>5. StopHandlers'
  BY DEF StopHandlers
<1>6. FinalAnswers'
  BY DEF FinalAnswers
<1> QED BY <1>1, <1>2, <1>3, <1>4, <1>5, <1>6

\* A cancelled goroutine leaves before it starts its engine.
LEMMA UnscheduledInv ==
  ASSUME IInv, NEW g \in Gens, Unscheduled(g)
  PROVE  IInv'
<1> USE BoundsAssumption, NoRunAssumption DEF IInv, Unscheduled, TaskStep, serverVars,
      engineVars, requestVars
<1>1. TypeOK'
  BY DEF TypeOK, States, Gens, EnginePhases, TaskPCs
<1>2. HeldRun'
  BY DEF HeldRun
<1>3. TaskEngine'
  BY DEF TaskEngine, TypeOK, Gens, Terminal, Live
<1>4. FreshRuns'
  BY DEF FreshRuns
<1>5. StopHandlers'
  BY DEF StopHandlers
<1>6. FinalAnswers'
  BY DEF FinalAnswers
<1> QED BY <1>1, <1>2, <1>3, <1>4, <1>5, <1>6

\* The timer moves the goroutine only.
LEMMA TimerFiresInv ==
  ASSUME IInv, NEW g \in Gens, TimerFires(g)
  PROVE  IInv'
<1> USE BoundsAssumption, NoRunAssumption DEF IInv, TimerFires, TaskStep, serverVars,
      engineVars, requestVars
<1>1. TypeOK'
  BY DEF TypeOK, States, Gens, EnginePhases, TaskPCs
<1>2. HeldRun'
  BY DEF HeldRun
<1>3. TaskEngine'
  BY DEF TaskEngine, TypeOK, Gens, Terminal, Live
<1>4. FreshRuns'
  BY DEF FreshRuns
<1>5. StopHandlers'
  BY DEF StopHandlers
<1>6. FinalAnswers'
  BY DEF FinalAnswers
<1> QED BY <1>1, <1>2, <1>3, <1>4, <1>5, <1>6

\* The engine is started once, by the goroutine of its generation.
LEMMA StartEngineInv ==
  ASSUME IInv, NEW g \in Gens, StartEngine(g)
  PROVE  IInv'
<1> USE BoundsAssumption, NoRunAssumption DEF IInv, StartEngine, TaskStep, serverVars,
      requestVars
<1>1. TypeOK'
  BY DEF TypeOK, States, Gens, EnginePhases, TaskPCs
<1>2. HeldRun'
  BY DEF HeldRun, TypeOK, TaskEngine, Gens, Terminal, Live
<1>3. TaskEngine'
  BY DEF TaskEngine, TypeOK, Gens, Terminal, Live
<1>4. FreshRuns'
  BY DEF FreshRuns
<1>5. StopHandlers'
  BY DEF StopHandlers
<1>6. FinalAnswers'
  BY DEF FinalAnswers, TypeOK, TaskEngine, Gens, Terminal, Live
<1> QED BY <1>1, <1>2, <1>3, <1>4, <1>5, <1>6

\* A run is published only after the recheck found it still wanted.
LEMMA PublishInv ==
  ASSUME IInv, NEW g \in Gens, Publish(g)
  PROVE  IInv'
<1> USE BoundsAssumption, NoRunAssumption DEF IInv, Publish, TaskStep, Wanted,
      engineVars, requestVars
<1>1. TypeOK'
  BY DEF TypeOK, States, Gens, EnginePhases, TaskPCs
<1>2. HeldRun'
  BY DEF HeldRun, TypeOK, Gens
<1>3. TaskEngine'
  BY DEF TaskEngine, TypeOK, Gens, Terminal, Live
<1>4. FreshRuns'
  BY DEF FreshRuns
<1>5. StopHandlers'
  BY DEF StopHandlers
<1>6. FinalAnswers'
  BY DEF FinalAnswers
<1> QED BY <1>1, <1>2, <1>3, <1>4, <1>5, <1>6

\* A goroutine that lost its run keeps its engine until it has stopped it.
LEMMA DisownInv ==
  ASSUME IInv, NEW g \in Gens, Disown(g)
  PROVE  IInv'
<1> USE BoundsAssumption, NoRunAssumption DEF IInv, Disown, TaskStep, Wanted,
      serverVars, engineVars, requestVars
<1>1. TypeOK'
  BY DEF TypeOK, States, Gens, EnginePhases, TaskPCs
<1>2. HeldRun'
  BY DEF HeldRun
<1>3. TaskEngine'
  BY DEF TaskEngine, TypeOK, Gens, Terminal, Live
<1>4. FreshRuns'
  BY DEF FreshRuns
<1>5. StopHandlers'
  BY DEF StopHandlers
<1>6. FinalAnswers'
  BY DEF FinalAnswers
<1> QED BY <1>1, <1>2, <1>3, <1>4, <1>5, <1>6

\* Abandoning cancels the engine the goroutine started.
LEMMA AbandonEngineInv ==
  ASSUME IInv, NEW g \in Gens, AbandonEngine(g)
  PROVE  IInv'
<1> USE BoundsAssumption, NoRunAssumption DEF IInv, AbandonEngine, CancelEngine, Live,
      TaskStep, serverVars, requestVars
<1>1. TypeOK'
  BY DEF TypeOK, States, Gens, EnginePhases, TaskPCs
<1>2. HeldRun'
  BY DEF HeldRun
<1>3. TaskEngine'
  BY DEF TaskEngine
<1>4. FreshRuns'
  BY DEF FreshRuns
<1>5. StopHandlers'
  BY DEF StopHandlers
<1>6. FinalAnswers'
  BY DEF FinalAnswers
<1> QED BY <1>1, <1>2, <1>3, <1>4, <1>5, <1>6

\* The goroutine returns once the abandoned engine is done.
LEMMA AbandonWaitsInv ==
  ASSUME IInv, NEW g \in Gens, AbandonWaits(g)
  PROVE  IInv'
<1> USE BoundsAssumption, NoRunAssumption DEF IInv, AbandonWaits, TaskStep, serverVars,
      engineVars, requestVars
<1>1. TypeOK'
  BY DEF TypeOK, States, Gens, EnginePhases, TaskPCs
<1>2. HeldRun'
  BY DEF HeldRun
<1>3. TaskEngine'
  BY DEF TaskEngine, TypeOK, Gens, Terminal, Live
<1>4. FreshRuns'
  BY DEF FreshRuns
<1>5. StopHandlers'
  BY DEF StopHandlers
<1>6. FinalAnswers'
  BY DEF FinalAnswers
<1> QED BY <1>1, <1>2, <1>3, <1>4, <1>5, <1>6

\* A done engine is recorded for its own run only.
LEMMA CompleteInv ==
  ASSUME IInv, NEW g \in Gens, Complete(g)
  PROVE  IInv'
<1> USE BoundsAssumption, NoRunAssumption DEF IInv, Complete, TaskStep, engineVars,
      requestVars
<1>1. TypeOK'
  BY DEF TypeOK, States, Gens, EnginePhases, TaskPCs
<1>2. HeldRun'
  BY DEF HeldRun
<1>3. TaskEngine'
  BY DEF TaskEngine, TypeOK, Gens, Terminal, Live
<1>4. FreshRuns'
  BY DEF FreshRuns
<1>5. StopHandlers'
  BY DEF StopHandlers
<1>6. FinalAnswers'
  BY DEF FinalAnswers
<1> QED BY <1>1, <1>2, <1>3, <1>4, <1>5, <1>6

\* Only a live engine counts, and none of those has been reported terminal.
LEMMA EngineWorksInv ==
  ASSUME IInv, NEW g \in Gens, EngineWorks(g)
  PROVE  IInv'
<1> USE BoundsAssumption, NoRunAssumption DEF IInv, EngineWorks, Live, serverVars,
      taskVars, requestVars
<1>1. TypeOK'
  <2>1. work[g] + 1 \in 0 .. MaxWork
    BY DEF TypeOK
  <2>2. work' \in [Gens -> 0 .. MaxWork]
    BY <2>1 DEF TypeOK
  <2> QED BY <2>2 DEF TypeOK
<1>2. HeldRun'
  BY DEF HeldRun
<1>3. TaskEngine'
  BY DEF TaskEngine
<1>4. FreshRuns'
  BY DEF FreshRuns
<1>5. StopHandlers'
  BY DEF StopHandlers
<1>6. FinalAnswers'
  <2>1. \A f \in finals : f.gen # g
    BY DEF FinalAnswers
  <2>2. \A f \in finals : f.gen \in Gens /\ work'[f.gen] = work[f.gen]
    BY <2>1 DEF TypeOK
  <2> QED BY <2>2 DEF FinalAnswers
<1> QED BY <1>1, <1>2, <1>3, <1>4, <1>5, <1>6

\* An engine that expires drains like a cancelled one.
LEMMA EngineExpiresInv ==
  ASSUME IInv, NEW g \in Gens, EngineExpires(g)
  PROVE  IInv'
<1> USE BoundsAssumption, NoRunAssumption DEF IInv, EngineExpires, serverVars,
      taskVars, requestVars
<1>1. TypeOK'
  BY DEF TypeOK, States, Gens, EnginePhases, TaskPCs
<1>2. HeldRun'
  BY DEF HeldRun
<1>3. TaskEngine'
  BY DEF TaskEngine, TypeOK, Gens, Terminal, Live
<1>4. FreshRuns'
  BY DEF FreshRuns
<1>5. StopHandlers'
  BY DEF StopHandlers
<1>6. FinalAnswers'
  BY DEF FinalAnswers
<1> QED BY <1>1, <1>2, <1>3, <1>4, <1>5, <1>6

\* A drained engine is done for good.
LEMMA EngineDrainsInv ==
  ASSUME IInv, NEW g \in Gens, EngineDrains(g)
  PROVE  IInv'
<1> USE BoundsAssumption, NoRunAssumption DEF IInv, EngineDrains, serverVars, taskVars,
      requestVars
<1>1. TypeOK'
  BY DEF TypeOK, States, Gens, EnginePhases, TaskPCs
<1>2. HeldRun'
  BY DEF HeldRun
<1>3. TaskEngine'
  BY DEF TaskEngine, TypeOK, Gens, Terminal, Live
<1>4. FreshRuns'
  BY DEF FreshRuns
<1>5. StopHandlers'
  BY DEF StopHandlers
<1>6. FinalAnswers'
  BY DEF FinalAnswers
<1> QED BY <1>1, <1>2, <1>3, <1>4, <1>5, <1>6

\* Every action preserves the invariant.
LEMMA NextInv == IInv /\ [Next]_vars => IInv'
<1> SUFFICES ASSUME IInv, [Next]_vars PROVE IInv'
  OBVIOUS
<1>1. ASSUME NEW r \in Runs, Prepare(r) \/ Start(r) PROVE IInv'
  BY <1>1, PrepareInv, StartInv
<1>2. ASSUME NEW s \in Stoppers, NEW r \in Runs,
             StopTerminal(s, r) \/ StopBeforeStart(s, r) \/ StopRunning(s, r)
      PROVE  IInv'
  BY <1>2, StopTerminalInv, StopBeforeStartInv, StopRunningInv
<1>3. ASSUME NEW s \in Stoppers, HandleStop(s) PROVE IInv'
  BY <1>3, StopEngineInv, StopWaitsInv, StopReplyInv DEF HandleStop
<1>4. ASSUME NEW p \in Pollers, SnapshotStatus(p) \/ SnapshotCounters(p) PROVE IInv'
  BY <1>4, SnapshotStatusInv, SnapshotCountersInv
<1>5. ASSUME NEW g \in Gens, RunTask(g) PROVE IInv'
  BY <1>5, UnscheduledInv, TimerFiresInv, StartEngineInv, PublishInv, DisownInv,
     AbandonEngineInv, AbandonWaitsInv, CompleteInv DEF RunTask
<1>6. ASSUME NEW g \in Gens, EngineWorks(g) \/ EngineExpires(g) \/ EngineDrains(g)
      PROVE  IInv'
  BY <1>6, EngineWorksInv, EngineExpiresInv, EngineDrainsInv
<1>7. CASE UNCHANGED vars
  BY <1>7 DEF vars, serverVars, taskVars, engineVars, requestVars, IInv, TypeOK, HeldRun,
     TaskEngine, FreshRuns, StopHandlers, FinalAnswers, Live
<1> QED BY <1>1, <1>2, <1>3, <1>4, <1>5, <1>6, <1>7 DEF Next

\* The inductive invariant of the worker server, worker.go 99-329.
THEOREM InductiveInvariant == Spec => []IInv
  BY InitInv, NextInv, PTL DEF Spec

\* Every variable keeps its type, whatever requests and timers interleave.
THEOREM TypeCorrect == Spec => []TypeOK
<1>1. IInv => TypeOK
  BY DEF IInv
<1> QED BY <1>1, InductiveInvariant, PTL

\* What TaskEngine says of a live engine is the property.
LEMMA InvNoOrphanEngine == IInv => NoOrphanEngine
  BY DEF IInv, TypeOK, TaskEngine, NoOrphanEngine, Unwinding, Live, TaskPCs

\* Load is generated only by the run that status reports as running, or by an
\* engine whose goroutine has yet to publish or stop it (worker.go 216-230).
THEOREM NoOrphan == Spec => []NoOrphanEngine
  BY InvNoOrphanEngine, InductiveInvariant, PTL

\* An answered Stop is final: its run stays terminal, and no engine of it is
\* left to itself (worker.go 266-317).
THEOREM StopFinal == Spec => []StopIsFinal
<1>1. IInv => StopIsFinal
  <2> SUFFICES ASSUME IInv PROVE StopIsFinal
    OBVIOUS
  <2>1. runID \in acked => state \in Terminal
    BY DEF IInv, FinalAnswers, Terminal
  <2>2. ASSUME NEW g \in Gens, taskRun[g] \in acked, Live(g), ~Unwinding(g) PROVE FALSE
    <3>1. state = "running" /\ generation = g
      BY <2>2, InvNoOrphanEngine DEF NoOrphanEngine
    <3>2. taskRun[g] = runID
      BY <3>1 DEF IInv, HeldRun
    <3> QED BY <2>1, <2>2, <3>1, <3>2 DEF Terminal
  <2> QED BY <2>1, <2>2 DEF StopIsFinal
<1> QED BY <1>1, InductiveInvariant, PTL

\* A snapshot that reports a started run as terminal carries the final
\* counters of its engine (worker.go 241-264).
THEOREM FinalSnapshot == Spec => []FinalSnapshotIsFinal
<1>1. IInv => FinalSnapshotIsFinal
  BY DEF IInv, FinalAnswers, FinalSnapshotIsFinal
<1> QED BY <1>1, InductiveInvariant, PTL

-----------------------------------------------------------------------------
(* The worker implements RunLifecycle.                                     *)

\* The initial state of the worker is the initial state of the lifecycle.
LEMMA LifecycleInit == Init => Lifecycle!Init
  BY DEF Init, Lifecycle!Init

\* Every step of the worker is a step of the lifecycle or changes nothing of it.
LEMMA LifecycleStep == IInv /\ [Next]_vars => [Lifecycle!Next]_(Lifecycle!lifecycleVars)
<1> SUFFICES ASSUME IInv, [Next]_vars
             PROVE  Lifecycle!Next \/ UNCHANGED <<runID, state, issued>>
  BY DEF Lifecycle!lifecycleVars
<1> USE DEF Lifecycle!Next, Lifecycle!Advance
<1>1. ASSUME NEW r \in Runs, Prepare(r) PROVE Lifecycle!Next
  BY <1>1 DEF Prepare, Lifecycle!Adopt
<1>2. ASSUME NEW r \in Runs, Start(r) PROVE Lifecycle!Next
  BY <1>2 DEF Start, requestVars
<1>3. ASSUME NEW s \in Stoppers, NEW r \in Runs, StopBeforeStart(s, r) PROVE Lifecycle!Next
  BY <1>3 DEF StopBeforeStart, IInv, TypeOK, HeldRun, States, Terminal
<1>4. ASSUME NEW s \in Stoppers, StopReply(s)
      PROVE  Lifecycle!Next \/ UNCHANGED <<runID, state, issued>>
  <2>1. runID = stop[s].run /\ state \notin Terminal => state \in {"prepared", "scheduled", "running"}
    BY <1>4 DEF StopReply, IInv, TypeOK, HeldRun, StopHandlers, States, Terminal
  <2> QED BY <1>4, <2>1 DEF StopReply
<1>5. ASSUME NEW g \in Gens, Publish(g) PROVE Lifecycle!Next
  BY <1>5 DEF Publish, Wanted, requestVars
<1>6. ASSUME NEW g \in Gens, Complete(g)
      PROVE  Lifecycle!Next \/ UNCHANGED <<runID, state, issued>>
  BY <1>6 DEF Complete, requestVars
<1>7. ASSUME NEW s \in Stoppers, NEW r \in Runs, StopTerminal(s, r) \/ StopRunning(s, r)
      PROVE  UNCHANGED <<runID, state, issued>>
  BY <1>7 DEF StopTerminal, StopRunning, serverVars
<1>8. ASSUME NEW s \in Stoppers, StopEngine(s) \/ StopWaits(s)
      PROVE  UNCHANGED <<runID, state, issued>>
  BY <1>8 DEF StopEngine, StopWaits, serverVars
<1>9. ASSUME NEW p \in Pollers, SnapshotStatus(p) \/ SnapshotCounters(p)
      PROVE  UNCHANGED <<runID, state, issued>>
  BY <1>9 DEF SnapshotStatus, SnapshotCounters, serverVars
<1>10. ASSUME NEW g \in Gens,
              \/ Unscheduled(g) \/ TimerFires(g) \/ StartEngine(g) \/ Disown(g)
              \/ AbandonEngine(g) \/ AbandonWaits(g)
              \/ EngineWorks(g) \/ EngineExpires(g) \/ EngineDrains(g)
       PROVE  UNCHANGED <<runID, state, issued>>
  BY <1>10 DEF Unscheduled, TimerFires, StartEngine, Disown, AbandonEngine, AbandonWaits,
     EngineWorks, EngineExpires, EngineDrains, serverVars, requestVars
<1>11. CASE UNCHANGED vars
  BY <1>11 DEF vars, serverVars, requestVars
<1> QED BY <1>1, <1>2, <1>3, <1>4, <1>5, <1>6, <1>7, <1>8, <1>9, <1>10, <1>11
        DEF Next, RunTask, HandleStop

\* What status reports about runs is exactly a run lifecycle: a run is adopted
\* once, moves forward only, and is never displaced while scheduled or running.
THEOREM ImplementsLifecycle == Spec => LifecycleSpec
<1>1. Spec => Lifecycle!Spec
  BY LifecycleInit, LifecycleStep, InductiveInvariant, PTL DEF Spec, Lifecycle!Spec
<1> QED BY <1>1 DEF LifecycleSpec
=============================================================================
