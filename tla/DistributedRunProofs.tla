------------------------ MODULE DistributedRunProofs ------------------------
(***************************************************************************)
(* What holds of a distributed run for every set of workers, every choice  *)
(* of counters and every bound: the invariant IInv of DistributedRun, and  *)
(* from it that a failed Start is undone, that Stop reports what it has    *)
(* stopped, and that a complete result is exact.                           *)
(*                                                                         *)
(* The invariant has one part per thing the three of them rest on. Each    *)
(* action has a lemma that shows it keeps the parts; the frame lemmas      *)
(* below serve the parts an action leaves alone.                           *)
(***************************************************************************)
EXTENDS DistributedRun, FiniteSetTheorems, WellFoundedInduction, TLAPS

-----------------------------------------------------------------------------
(* Frames.                                                                 *)

\* The late requests are as they were.
LEMMA LateRests ==
  ASSUME LateOK, UNCHANGED callVars
  PROVE  LateOK'
BY DEF LateOK, Callable, callVars

\* No worker changed its state, and no request was answered.
LEMMA StatesRest ==
  ASSUME CallsOK, UndoneOK, StoppedOK, UNCHANGED callVars,
         \A w \in Workers : worker'[w].state = worker[w].state
  PROVE  CallsOK' /\ UndoneOK' /\ StoppedOK'
BY DEF CallsOK, Joined, UndoneOK, StoppedOK, callVars

\* The worker processes are as they were.
LEMMA ProcessRests ==
  ASSUME ProcessOK, UNCHANGED processVars
  PROVE  ProcessOK'
BY DEF ProcessOK, Drained, processVars

\* No snapshot was taken, answered or applied, and no call was made.
LEMMA LockRests ==
  ASSUME LockOK, UNCHANGED <<phase, call, lock, ask>>
  PROVE  LockOK'
BY DEF LockOK, Callable, Answering

\* Neither the workers nor what is known of them changed: no request was answered.
LEMMA AnswersRest ==
  ASSUME AnswerOK, UNCHANGED <<processVars, phase, reply, ask, health>>,
         \A w \in Workers : call'[w] = "ok" => call[w] = "ok"
  PROVE  AnswerOK'
BY DEF AnswerOK, Callable, Answering, processVars

\* A worker with one field changed is a worker.
LEMMA WorkerUpdates ==
  ASSUME NEW s \in WorkerState
  PROVE  /\ \A v \in {"none", "timer", "fired", "wait"} : [s EXCEPT !.task = v] \in WorkerState
         /\ \A v \in {"off", "live", "draining"} : [s EXCEPT !.engine = v] \in WorkerState
         /\ \A v \in {"idle", "prepared", "scheduled", "running", "stopped"} :
              [s EXCEPT !.state = v] \in WorkerState
BY DEF WorkerState

\* A handler turns a worker into a worker and answers.
LEMMA OutcomeType ==
  ASSUME NEW s \in WorkerState, NEW request
  PROVE  /\ Outcome(request, s).worker \in WorkerState
         /\ Outcome(request, s).answer \in {"waiting", "ok", "error"}
<1>1. CASE request = "probe" BY <1>1 DEF Outcome, Accepted
<1>2. CASE request = "prepare" BY <1>2 DEF Outcome, Prepared, Accepted, Refused, WorkerState
<1>3. CASE request = "start" BY <1>3 DEF Outcome, Started, Accepted, Refused, WorkerState
<1>4. CASE request \notin {"probe", "prepare", "start"}
  <2>1. Outcome(request, s) = Stopped(s) BY <1>4 DEF Outcome
  <2>2. Stopped(s).worker \in {s, [s EXCEPT !.engine = "draining"], [s EXCEPT !.state = "stopped"],
                               [s EXCEPT !.engine = s.engine]}
    BY DEF Stopped, Accepted, Refused, WorkerState
  <2>3. Stopped(s).answer \in {"waiting", "ok", "error"}
    BY DEF Stopped, Accepted, Refused, WorkerState
  <2>4. s.engine \in {"off", "live", "draining"} BY DEF WorkerState
  <2> QED BY <2>1, <2>2, <2>3, <2>4, WorkerUpdates
<1> QED BY <1>1, <1>2, <1>3, <1>4

LEMMA InitIInv == Init => IInv
<1> SUFFICES ASSUME Init PROVE IInv OBVIOUS
<1> USE DEF Init, All
<1>1. TypeOK
  BY BoundsAssumption DEF TypeOK, Blank, Nothing, NoAsk, Zero, WorkerState, AskState, HealthState
<1>2. ProcessOK /\ CallsOK /\ UndoneOK /\ StoppedOK BY DEF ProcessOK, Drained, CallsOK, UndoneOK, StoppedOK, Blank
<1>3. LateOK /\ LockOK /\ AnswerOK BY DEF LateOK, LockOK, AnswerOK, Answering, Callable, NoAsk
<1> QED BY <1>1, <1>2, <1>3 DEF IInv

-----------------------------------------------------------------------------
(* The worker process.                                                     *)

LEMMA TimerFiresKeeps == ASSUME IInv, NEW w \in Workers, TimerFires(w) PROVE IInv'
<1> USE DEF IInv
<1>1. /\ UNCHANGED <<counts, writing, records, callVars, runVars, faults>>
      /\ worker[w].task = "timer"
      /\ worker' = [worker EXCEPT ![w] = [state |-> worker[w].state, started |-> worker[w].started,
                                          task |-> "fired", engine |-> "live"]]
  BY DEF TimerFires, Becomes, CountFrame, ProcessFrame
<1>2. TypeOK' BY <1>1 DEF TypeOK, WorkerState, callVars, runVars
<1>3. ProcessOK' BY <1>1 DEF TypeOK, WorkerState, ProcessOK, Drained
<1>4. LateOK' /\ LockOK' BY <1>1, LateRests, LockRests DEF callVars, runVars
<1>5. CallsOK' /\ UndoneOK' /\ StoppedOK' BY <1>1, StatesRest DEF TypeOK, WorkerState
<1>6. AnswerOK'
  BY <1>1 DEF TypeOK, WorkerState, ProcessOK, AnswerOK, Callable, Answering, callVars, runVars
<1> QED BY <1>2, <1>3, <1>4, <1>5, <1>6

LEMMA ScheduleCancelledKeeps ==
  ASSUME IInv, NEW w \in Workers, ScheduleCancelled(w) PROVE IInv'
<1> USE DEF IInv
<1>1. /\ UNCHANGED <<counts, writing, records, callVars, runVars, faults>>
      /\ worker[w].task = "timer"
      /\ worker' = [worker EXCEPT ![w] = [worker[w] EXCEPT !.task = "none"]]
  BY DEF ScheduleCancelled, Becomes, CountFrame, ProcessFrame
<1>2. TypeOK' BY <1>1, WorkerUpdates DEF TypeOK, callVars, runVars
<1>3. ProcessOK' BY <1>1 DEF TypeOK, WorkerState, ProcessOK, Drained
<1>4. LateOK' /\ LockOK' BY <1>1, LateRests, LockRests DEF callVars, runVars
<1>5. CallsOK' /\ UndoneOK' /\ StoppedOK' BY <1>1, StatesRest DEF TypeOK, WorkerState
<1>6. AnswerOK' BY <1>1 DEF TypeOK, WorkerState, AnswerOK, Callable, Answering, callVars, runVars
<1> QED BY <1>2, <1>3, <1>4, <1>5, <1>6

LEMMA PublishKeeps == ASSUME IInv, NEW w \in Workers, Publish(w) PROVE IInv'
<1> USE DEF IInv
<1>1. /\ UNCHANGED <<counts, writing, records, callVars, runVars, faults>>
      /\ worker[w].task = "fired"
      /\ worker' = [worker EXCEPT ![w] =
           IF worker[w].state = "scheduled"
           THEN [state |-> "running", started |-> TRUE, task |-> "wait", engine |-> worker[w].engine]
           ELSE [state |-> worker[w].state, started |-> worker[w].started,
                 task |-> "none", engine |-> "draining"]]
  BY DEF Publish, Becomes, CountFrame, ProcessFrame
<1>2. TypeOK' BY <1>1 DEF TypeOK, WorkerState, callVars, runVars
<1>3. ProcessOK' BY <1>1 DEF TypeOK, WorkerState, ProcessOK, Drained
<1>4. LateOK' /\ LockOK' BY <1>1, LateRests, LockRests DEF callVars, runVars
<1>5. CallsOK' /\ UndoneOK' /\ StoppedOK'
  BY <1>1 DEF TypeOK, WorkerState, CallsOK, Joined, UndoneOK, StoppedOK, callVars
<1>6. AnswerOK'
  BY <1>1 DEF TypeOK, WorkerState, ProcessOK, AnswerOK, Callable, Answering, callVars, runVars
<1> QED BY <1>2, <1>3, <1>4, <1>5, <1>6

LEMMA EngineEndsKeeps == ASSUME IInv, NEW w \in Workers, EngineEnds(w) PROVE IInv'
<1> USE DEF IInv
<1>1. /\ UNCHANGED <<counts, writing, records, callVars, runVars, faults>>
      /\ Drained(w)
      /\ worker' = [worker EXCEPT ![w] = [worker[w] EXCEPT !.engine = "off"]]
  BY DEF EngineEnds, Becomes, CountFrame, ProcessFrame
<1>2. TypeOK' BY <1>1, WorkerUpdates DEF TypeOK, callVars, runVars
<1>3. ProcessOK' BY <1>1 DEF TypeOK, WorkerState, ProcessOK, Drained
<1>4. LateOK' /\ LockOK' BY <1>1, LateRests, LockRests DEF callVars, runVars
<1>5. CallsOK' /\ UndoneOK' /\ StoppedOK' BY <1>1, StatesRest DEF TypeOK, WorkerState
<1>6. AnswerOK' BY <1>1 DEF TypeOK, WorkerState, AnswerOK, Callable, Answering, callVars, runVars
<1> QED BY <1>2, <1>3, <1>4, <1>5, <1>6

LEMMA RunCompletesKeeps == ASSUME IInv, NEW w \in Workers, RunCompletes(w) PROVE IInv'
<1> USE DEF IInv
<1>1. /\ UNCHANGED <<counts, writing, records, callVars, runVars, faults>>
      /\ worker[w].task = "wait" /\ worker[w].engine = "off"
      /\ worker' = [worker EXCEPT ![w] =
           [state |-> IF worker[w].state = "running" THEN "stopped" ELSE worker[w].state,
            started |-> worker[w].started, task |-> "none", engine |-> "off"]]
  BY DEF RunCompletes, Becomes, CountFrame, ProcessFrame
<1>2. TypeOK' BY <1>1 DEF TypeOK, WorkerState, callVars, runVars
<1>3. ProcessOK' BY <1>1 DEF TypeOK, WorkerState, ProcessOK, Drained
<1>4. LateOK' /\ LockOK' BY <1>1, LateRests, LockRests DEF callVars, runVars
<1>5. CallsOK' /\ UndoneOK' /\ StoppedOK'
  BY <1>1 DEF TypeOK, WorkerState, CallsOK, Joined, UndoneOK, StoppedOK, callVars
<1>6. AnswerOK'
  BY <1>1 DEF TypeOK, WorkerState, ProcessOK, AnswerOK, Callable, Answering, callVars, runVars
<1> QED BY <1>2, <1>3, <1>4, <1>5, <1>6

\* Adding to a counter, whichever it is, leaves numbers of them.
LEMMA CountsType ==
  ASSUME counts \in [Workers -> [Cells -> Nat]], NEW w \in Workers, NEW c,
         counts' = [counts EXCEPT ![w][c] = @ + 1]
  PROVE  counts' \in [Workers -> [Cells -> Nat]]
<1>1. \A n \in Nat : n + 1 \in Nat OBVIOUS
<1>2. CASE c \in Cells BY <1>1, <1>2
<1>3. CASE c \notin Cells
  <2>1. [counts[w] EXCEPT ![c] = @ + 1] \in [Cells -> Nat] BY <1>3
  <2> QED BY <2>1
<1> QED BY <1>2, <1>3

\* What BeginRecord and AddToCell have in common.
LEMMA WritingKeeps ==
  ASSUME IInv, NEW w \in Workers, worker[w].engine # "off",
         UNCHANGED <<worker, callVars, runVars, faults>>,
         NEW c, counts' = [counts EXCEPT ![w][c] = @ + 1],
         NEW k, NEW rest, writing' = [writing EXCEPT ![w][k] = rest],
         records' \in [Workers -> Nat]
  PROVE  IInv'
<1> USE DEF IInv
<1>1. writing' = [x \in Workers |-> [j \in 1 .. MaxRecords |-> writing'[x][j]]]
  <2> DEFINE Rows(f) == [j \in 1 .. MaxRecords |-> f[j]]
  <2>1. writing = [x \in Workers |-> Rows(writing[x])] BY DEF TypeOK
  <2>2. writing[w] = Rows(writing[w]) BY <2>1
  <2>3. [writing[w] EXCEPT ![k] = rest] = Rows([writing[w] EXCEPT ![k] = rest]) BY <2>2
  <2> HIDE DEF Rows
  <2>4. \A x \in Workers : writing'[x] = Rows(writing'[x]) BY <2>1, <2>3
  <2>5. writing' = [x \in Workers |-> writing'[x]] BY <2>1
  <2>6. writing' = [x \in Workers |-> Rows(writing'[x])] BY <2>4, <2>5
  <2> QED BY <2>6 DEF Rows
<1>2. TypeOK'
  <2>1. counts' \in [Workers -> [Cells -> Nat]] BY CountsType DEF TypeOK
  <2> QED BY <1>1, <2>1 DEF TypeOK, callVars, runVars
<1>3. ProcessOK' BY DEF TypeOK, ProcessOK, Drained
<1>4. LateOK' /\ LockOK' BY LateRests, LockRests DEF callVars, runVars
<1>5. CallsOK' /\ UndoneOK' /\ StoppedOK' BY StatesRest
<1>6. AnswerOK' BY DEF TypeOK, AnswerOK, Callable, Answering, callVars, runVars
<1> QED BY <1>2, <1>3, <1>4, <1>5, <1>6

LEMMA BeginRecordKeeps == ASSUME IInv, NEW w \in Workers, BeginRecord(w) PROVE IInv'
<1>1. PICK r \in Records :
        /\ counts' = [counts EXCEPT ![w][Head(r)] = @ + 1]
        /\ writing' = [writing EXCEPT ![w][records[w] + 1] = Tail(r)]
  BY DEF BeginRecord
<1>2. /\ worker[w].engine # "off" /\ records' \in [Workers -> Nat]
      /\ UNCHANGED <<worker, callVars, runVars, faults>>
  BY DEF BeginRecord, ProcessFrame, IInv, TypeOK
<1> QED BY <1>1, <1>2, WritingKeeps

LEMMA AddToCellKeeps == ASSUME IInv, NEW w \in Workers, AddToCell(w) PROVE IInv'
<1>1. PICK k \in 1 .. MaxRecords :
        /\ writing[w][k] # <<>>
        /\ counts' = [counts EXCEPT ![w][Head(writing[w][k])] = @ + 1]
        /\ writing' = [writing EXCEPT ![w][k] = Tail(writing[w][k])]
  BY DEF AddToCell
<1>2. /\ records' \in [Workers -> Nat]
      /\ UNCHANGED <<worker, callVars, runVars, faults>>
  BY DEF AddToCell, ProcessFrame, IInv, TypeOK
<1>3. worker[w].engine # "off" BY <1>1 DEF IInv, ProcessOK, Drained, Nothing
<1> QED BY <1>1, <1>2, <1>3, WritingKeeps

\* A process that comes back has no run: what it told before is all that is left.
LEMMA RestartKeeps == ASSUME IInv, NEW w \in Workers, Restart(w) PROVE IInv'
<1> USE DEF IInv
<1>1. /\ UNCHANGED <<counts, records, phase, late, reply, lock, polls, health, last>>
      /\ worker' = [worker EXCEPT ![w] = Blank] /\ writing' = [writing EXCEPT ![w] = Nothing]
      /\ call' = [call EXCEPT ![w] = IF call[w] = "waiting" THEN "error" ELSE call[w]]
      /\ ask' = [ask EXCEPT ![w] = IF ask[w].pc = "reading" THEN [NoAsk EXCEPT !.pc = "error"]
                                   ELSE ask[w]]
      /\ faults' \in Nat
  BY DEF Restart, Becomes, Fault, TypeOK
<1>2. Blank \in WorkerState BY DEF Blank, WorkerState
<1>3. [NoAsk EXCEPT !.pc = "error"] \in AskState BY DEF NoAsk, AskState, Zero
<1>4. TypeOK'
  <2>1. writing' = [x \in Workers |-> [k \in 1 .. MaxRecords |-> writing'[x][k]]]
    BY <1>1 DEF TypeOK, Nothing
  <2> QED BY <1>1, <1>2, <1>3, <2>1 DEF TypeOK
<1>5. ProcessOK' BY <1>1 DEF TypeOK, WorkerState, ProcessOK, Drained, Blank
<1>6. LateOK' BY <1>1 DEF TypeOK, LateOK, Callable
<1>7. CallsOK' /\ UndoneOK' /\ StoppedOK'
  BY <1>1 DEF TypeOK, WorkerState, CallsOK, Joined, UndoneOK, StoppedOK, Blank
<1>8. LockOK' BY <1>1 DEF TypeOK, AskState, LockOK, Answering, Callable, NoAsk
<1>9. AnswerOK'
  BY <1>1 DEF TypeOK, AskState, WorkerState, AnswerOK, Answering, Callable, Blank, NoAsk
<1> QED BY <1>4, <1>5, <1>6, <1>7, <1>8, <1>9

-----------------------------------------------------------------------------
(* The requests.                                                           *)

\* What a handler makes of a worker that is sound is sound.
LEMMA OutcomeSound ==
  ASSUME IInv, NEW w \in Workers, NEW request,
         worker' = [worker EXCEPT ![w] = Outcome(request, worker[w]).worker],
         UNCHANGED <<counts, writing, records>>
  PROVE  ProcessOK'
BY DEF IInv, TypeOK, WorkerState, ProcessOK, Drained, Outcome, Prepared, Started, Stopped, Accepted, Refused

LEMMA ServeKeeps == ASSUME IInv, NEW w \in Workers, Serve(w) PROVE IInv'
<1> USE DEF IInv
<1> DEFINE o == Outcome(Request, worker[w])
<1>1. /\ UNCHANGED <<counts, writing, records, phase, late, runVars>>
      /\ call[w] = "sent" /\ worker' = [worker EXCEPT ![w] = o.worker]
      /\ call' = [call EXCEPT ![w] = o.answer] \/ call' = [call EXCEPT ![w] = "error"]
      /\ reply' = [reply EXCEPT ![w] = o.worker.started]
      /\ faults' \in Nat
  BY DEF Serve, Becomes, CallTo, CountFrame, Fault, TypeOK
<1>2. o.worker \in WorkerState /\ o.answer \in {"waiting", "ok", "error"}
  BY OutcomeType DEF TypeOK
<1>3. TypeOK'
  <2>1. worker' \in [Workers -> WorkerState] BY <1>1, <1>2 DEF TypeOK
  <2>2. call' \in [Workers -> {"sent", "waiting", "ok", "error"}] BY <1>1, <1>2 DEF TypeOK
  <2>3. reply' \in [Workers -> BOOLEAN] BY <1>1, <1>2 DEF TypeOK, WorkerState
  <2> QED BY <1>1, <2>1, <2>2, <2>3 DEF TypeOK, runVars
<1>4. ProcessOK' BY <1>1, OutcomeSound
<1>5. LateOK' BY <1>1 DEF TypeOK, LateOK, Callable
<1>6. phase \notin {"failed", "run", "stopped", "ended"} BY <1>1 DEF CallsOK, Joined
<1>7. CallsOK'
  <2>1. o.answer = "waiting" => o.worker.state # "idle"
    BY DEF TypeOK, WorkerState, Outcome, Prepared, Started, Stopped, Accepted, Refused
  <2> HIDE DEF o
  <2>2. call'[w] = "waiting" => worker'[w].state # "idle" BY <1>1, <2>1 DEF TypeOK
  <2> QED BY <1>1, <1>6, <2>2 DEF TypeOK, CallsOK
<1>8. UndoneOK' /\ StoppedOK'
  BY <1>1, <1>6 DEF TypeOK, WorkerState, UndoneOK, StoppedOK, Outcome, Request,
       Prepared, Started, Stopped, Accepted, Refused
<1>9. LockOK' BY <1>1, <1>6 DEF TypeOK, LockOK, Answering, Callable, runVars
<1>10. AnswerOK'
  BY <1>1, <1>6 DEF TypeOK, WorkerState, ProcessOK, LockOK, AnswerOK, Answering, Callable, runVars,
       Outcome, Request, Prepared, Started, Stopped, Accepted, Refused
<1> QED BY <1>3, <1>4, <1>5, <1>7, <1>8, <1>9, <1>10

LEMMA RefuseStartKeeps == ASSUME IInv, NEW w \in Workers, RefuseStart(w) PROVE IInv'
<1> USE DEF IInv
<1>1. /\ UNCHANGED <<processVars, phase, late, reply, runVars>>
      /\ phase = "start" /\ call' = [call EXCEPT ![w] = "error"]
      /\ faults' \in Nat
  BY DEF RefuseStart, Request, CallTo, Fault, TypeOK
<1>2. TypeOK' BY <1>1 DEF TypeOK, processVars, runVars
<1>3. ProcessOK' /\ AnswerOK' BY <1>1, ProcessRests, AnswersRest DEF TypeOK, runVars
<1>4. LateOK' BY <1>1 DEF TypeOK, LateOK, Callable
<1>5. CallsOK' /\ UndoneOK' /\ StoppedOK'
  BY <1>1 DEF TypeOK, CallsOK, UndoneOK, StoppedOK, processVars
<1>6. LockOK' BY <1>1 DEF TypeOK, LockOK, Answering, Callable, runVars
<1> QED BY <1>2, <1>3, <1>4, <1>5, <1>6

LEMMA ServeStoppedKeeps == ASSUME IInv, NEW w \in Workers, ServeStopped(w) PROVE IInv'
<1> USE DEF IInv
<1>1. /\ UNCHANGED <<counts, writing, records, phase, late, runVars, faults>>
      /\ call[w] = "waiting" /\ worker[w].engine = "off"
      /\ worker' = [worker EXCEPT ![w] = [worker[w] EXCEPT !.state = "stopped"]]
      /\ call' = [call EXCEPT ![w] = "ok"]
      /\ reply' = [reply EXCEPT ![w] = worker[w].started]
  BY DEF ServeStopped, Becomes, CallTo, CountFrame
<1>2. worker[w].state # "idle" /\ phase \notin {"failed", "run", "stopped", "ended"}
  BY <1>1 DEF CallsOK, Joined
<1>3. TypeOK'
  <2>1. reply' \in [Workers -> BOOLEAN] BY <1>1 DEF TypeOK, WorkerState
  <2> QED BY <1>1, <2>1, WorkerUpdates DEF TypeOK, runVars
<1>4. ProcessOK' BY <1>1, <1>2 DEF TypeOK, WorkerState, ProcessOK, Drained
<1>5. LateOK' BY <1>1 DEF TypeOK, LateOK, Callable
<1>6. CallsOK' /\ UndoneOK' /\ StoppedOK'
  BY <1>1, <1>2 DEF TypeOK, WorkerState, CallsOK, UndoneOK, StoppedOK
<1>7. LockOK' BY <1>1, <1>2 DEF TypeOK, LockOK, Answering, Callable, runVars
<1>8. AnswerOK'
  BY <1>1, <1>2 DEF TypeOK, WorkerState, LockOK, AnswerOK, Answering, Callable, runVars
<1> QED BY <1>3, <1>4, <1>5, <1>6, <1>7, <1>8

LEMMA GiveUpKeeps == ASSUME IInv, NEW w \in Workers, GiveUp(w) PROVE IInv'
<1> USE DEF IInv
<1>1. /\ UNCHANGED <<processVars, phase, reply, runVars>>
      /\ call[w] \in {"sent", "waiting"} /\ call' = [call EXCEPT ![w] = "error"]
      /\ late' = [late EXCEPT ![w] = IF call[w] = "sent" /\ phase # "probe"
                                     THEN late[w] \cup {Request} ELSE late[w]]
      /\ faults' \in Nat
  BY DEF GiveUp, CallTo, Fault, TypeOK
<1>2. phase \in {"probe", "prepare", "start", "undo", "stop"}
  BY <1>1 DEF TypeOK, CallsOK, Joined
<1>3. Request = (IF phase = "undo" THEN "stop" ELSE phase) BY DEF Request
<1>4. TypeOK'
  <2>1. late' \in [Workers -> SUBSET {"prepare", "start", "stop"}]
    BY <1>1, <1>2, <1>3 DEF TypeOK
  <2> QED BY <1>1, <2>1 DEF TypeOK, processVars, runVars
<1>5. ProcessOK' /\ AnswerOK' BY <1>1, ProcessRests, AnswersRest DEF TypeOK, runVars
<1>6. LateOK'
  <2>1. /\ call'[w] = "error"
        /\ \A x \in Workers \ {w} : call'[x] = call[x] /\ late'[x] = late[x]
    BY <1>1 DEF TypeOK
  <2>2. late'[w] = IF call[w] = "sent" /\ phase # "probe" THEN late[w] \cup {Request} ELSE late[w]
    BY <1>1 DEF TypeOK
  <2> QED BY <1>1, <1>2, <1>3, <2>1, <2>2 DEF LateOK, Callable
<1>7. CallsOK' /\ UndoneOK' /\ StoppedOK'
  BY <1>1, <1>2 DEF TypeOK, CallsOK, UndoneOK, StoppedOK, processVars
<1>8. LockOK' BY <1>1 DEF TypeOK, LockOK, Answering, Callable, runVars
<1> QED BY <1>4, <1>5, <1>6, <1>7, <1>8

LEMMA LateArrivalKeeps ==
  ASSUME IInv, NEW w \in Workers, NEW request \in {"prepare", "start", "stop"},
         LateArrival(w, request)
  PROVE  IInv'
<1> USE DEF IInv
<1>1. /\ UNCHANGED <<counts, writing, records, phase, call, reply, runVars, faults>>
      /\ request \in late[w] /\ late' = [late EXCEPT ![w] = late[w] \ {request}]
      /\ worker' = [worker EXCEPT ![w] = Outcome(request, worker[w]).worker]
  BY DEF LateArrival, Becomes, CountFrame
<1>2. TypeOK' BY <1>1, OutcomeType DEF TypeOK, runVars
<1>3. ProcessOK' BY <1>1, OutcomeSound
<1>4. LateOK' BY <1>1 DEF TypeOK, LateOK, Callable
<1>5. CallsOK' /\ UndoneOK' /\ StoppedOK'
  BY <1>1 DEF TypeOK, WorkerState, LateOK, CallsOK, Joined, UndoneOK, StoppedOK, Callable,
       Outcome, Prepared, Started, Stopped, Accepted, Refused
<1>6. LockOK' BY <1>1, LockRests DEF runVars
<1>7. AnswerOK'
  BY <1>1 DEF TypeOK, WorkerState, ProcessOK, LateOK, LockOK, AnswerOK, Answering, Callable,
       runVars, Outcome, Prepared, Started, Stopped, Accepted, Refused
<1> QED BY <1>2, <1>3, <1>4, <1>5, <1>6, <1>7

-----------------------------------------------------------------------------
(* The caller: the rounds of Start, and Stop.                              *)

LEMMA AfterProbeKeeps == ASSUME IInv, AfterProbe PROVE IInv'
<1> USE DEF IInv
<1>1. /\ UNCHANGED <<processVars, late, reply, runVars, faults>> /\ phase = "probe" /\ Joined
      /\ \/ Succeeded /\ phase' = "prepare" /\ call' = [w \in Workers |-> "sent"]
         \/ phase' = "failed" /\ call' = call
  BY DEF AfterProbe, SendAll, All
<1>2. TypeOK' BY <1>1 DEF TypeOK, processVars, runVars
<1>3. ProcessOK' BY <1>1, ProcessRests
<1>4. LateOK' BY <1>1 DEF LateOK, Callable
<1>5. CallsOK' /\ UndoneOK' /\ StoppedOK'
  BY <1>1 DEF TypeOK, CallsOK, Joined, UndoneOK, StoppedOK, processVars
<1>6. LockOK' BY <1>1 DEF LockOK, Answering, Callable, runVars
<1>7. AnswerOK' BY <1>1 DEF LockOK, AnswerOK, Answering, Callable, processVars, runVars
<1> QED BY <1>2, <1>3, <1>4, <1>5, <1>6, <1>7

LEMMA AfterPrepareKeeps == ASSUME IInv, AfterPrepare PROVE IInv'
<1> USE DEF IInv
<1>1. /\ UNCHANGED <<processVars, late, reply, runVars, faults>> /\ phase = "prepare"
      /\ (Succeeded /\ phase' = "start") \/ phase' = "undo"
      /\ call' = [w \in Workers |-> "sent"]
  BY DEF AfterPrepare, SendAll, All
<1>2. TypeOK' BY <1>1 DEF TypeOK, processVars, runVars
<1>3. ProcessOK' BY <1>1, ProcessRests
<1>4. LateOK' BY <1>1 DEF LateOK, Callable, Succeeded
<1>5. CallsOK' /\ UndoneOK' /\ StoppedOK'
  BY <1>1 DEF CallsOK, UndoneOK, StoppedOK, processVars
<1>6. LockOK' BY <1>1 DEF LockOK, Answering, Callable, runVars
<1>7. AnswerOK' BY <1>1 DEF LockOK, AnswerOK, Answering, Callable, processVars, runVars
<1> QED BY <1>2, <1>3, <1>4, <1>5, <1>6, <1>7

\* Every Start was answered when the run begins, so none can arrive later.
LEMMA AfterStartKeeps == ASSUME IInv, AfterStart PROVE IInv'
<1> USE DEF IInv
<1>1. /\ UNCHANGED <<processVars, late, reply, runVars, faults>> /\ phase = "start"
      /\ \/ Succeeded /\ phase' = "run" /\ call' = call
         \/ phase' = "undo" /\ call' = [w \in Workers |-> "sent"]
  BY DEF AfterStart, SendAll, All
<1>2. TypeOK' BY <1>1 DEF TypeOK, processVars, runVars
<1>3. ProcessOK' BY <1>1, ProcessRests
<1>4. LateOK' BY <1>1 DEF LateOK, Callable, Succeeded
<1>5. CallsOK' /\ UndoneOK' /\ StoppedOK'
  BY <1>1 DEF CallsOK, Joined, Succeeded, UndoneOK, StoppedOK, processVars
<1>6. LockOK' BY <1>1 DEF LockOK, Answering, Callable, runVars
<1>7. AnswerOK' BY <1>1 DEF LockOK, AnswerOK, Answering, Callable, processVars, runVars
<1> QED BY <1>2, <1>3, <1>4, <1>5, <1>6, <1>7

LEMMA AfterUndoKeeps == ASSUME IInv, AfterUndo PROVE IInv'
<1> USE DEF IInv
<1>1. /\ UNCHANGED <<processVars, call, late, reply, runVars, faults>> /\ phase = "undo"
      /\ Joined /\ phase' = "failed"
  BY DEF AfterUndo
<1>2. TypeOK' BY <1>1 DEF TypeOK, processVars, runVars
<1>3. ProcessOK' BY <1>1, ProcessRests
<1>4. LateOK' BY <1>1 DEF LateOK, Callable
<1>5. CallsOK' /\ UndoneOK' /\ StoppedOK'
  BY <1>1 DEF CallsOK, Joined, UndoneOK, StoppedOK, processVars
<1>6. LockOK' BY <1>1 DEF LockOK, Answering, Callable, runVars
<1>7. AnswerOK' BY <1>1 DEF LockOK, AnswerOK, Answering, Callable, processVars, runVars
<1> QED BY <1>2, <1>3, <1>4, <1>5, <1>6, <1>7

LEMMA CallStopKeeps == ASSUME IInv, CallStop PROVE IInv'
<1> USE DEF IInv
<1>1. /\ UNCHANGED <<processVars, late, reply, runVars, faults>> /\ phase = "run" /\ phase' = "stop"
      /\ call' = [w \in Workers |-> "sent"]
  BY DEF CallStop, SendAll, All
<1>2. TypeOK' BY <1>1 DEF TypeOK, processVars, runVars
<1>3. ProcessOK' BY <1>1, ProcessRests
<1>4. LateOK' BY <1>1 DEF LateOK, Callable
<1>5. CallsOK' /\ UndoneOK' /\ StoppedOK' BY <1>1 DEF CallsOK, UndoneOK, StoppedOK
<1>6. LockOK' BY <1>1 DEF LockOK, Answering, Callable, runVars
<1>7. AnswerOK' BY <1>1 DEF AnswerOK, Answering, Callable, processVars, runVars
<1> QED BY <1>2, <1>3, <1>4, <1>5, <1>6, <1>7

\* What the Stops returned is true of the workers, so a Snapshot under way does
\* not contradict it.
LEMMA ApplyStopKeeps == ASSUME IInv, ApplyStop PROVE IInv'
<1> USE DEF IInv
<1>1. /\ UNCHANGED <<processVars, call, late, reply, lock, polls, ask, last, faults>>
      /\ phase = "stop" /\ Joined /\ phase' = "stopped"
      /\ health' = [w \in Workers |->
           IF call[w] = "error" THEN Unanswered(health[w], FALSE)
           ELSE [reachable |-> TRUE, stale |-> health[w].stale, state |-> "stopped",
                 started |-> health[w].started \/ reply[w]]]
  BY DEF ApplyStop
<1>2. TypeOK'
  <2>1. health' \in [Workers -> HealthState]
    BY <1>1 DEF TypeOK, WorkerState, HealthState, Unanswered
  <2> QED BY <1>1, <2>1 DEF TypeOK, processVars
<1>3. ProcessOK' BY <1>1, ProcessRests
<1>4. LateOK' BY <1>1 DEF LateOK, Callable
<1>5. CallsOK' /\ UndoneOK' /\ StoppedOK'
  BY <1>1 DEF CallsOK, Joined, UndoneOK, StoppedOK, processVars
<1>6. LockOK' BY <1>1 DEF LockOK, Answering, Callable
<1>7. AnswerOK'
  <2>1. UNCHANGED <<worker, counts, ask>> BY <1>1 DEF processVars
  <2>2. \A w \in Workers : call[w] \in {"ok", "error"} BY <1>1 DEF Joined
  <2>3. \A w \in Workers : health'[w].started =>
          health[w].started \/ (call[w] = "ok" /\ reply[w])
    BY <1>1, <2>2 DEF TypeOK, Unanswered
  <2>4. ASSUME NEW w \in Workers, health'[w].started
        PROVE  /\ worker[w].started \/ worker[w].state = "idle"
               /\ Answering(w) /\ ask[w].state = "stopped" => ask[w].started
    BY <1>1, <2>3, <2>4 DEF AnswerOK
  <2>5. phase' = "stopped" BY <1>1
  <2> QED BY <2>1, <2>4, <2>5 DEF AnswerOK, Answering, Callable
<1> QED BY <1>2, <1>3, <1>4, <1>5, <1>6, <1>7

-----------------------------------------------------------------------------
(* The snapshots.                                                          *)

\* Asks are data of one type; a refused or lost one is all but empty.
LEMMA AskType == \A pc \in {"none", "sent", "error"} : [NoAsk EXCEPT !.pc = pc] \in AskState
BY DEF NoAsk, AskState, Zero

LEMMA TakeSnapshotKeeps ==
  ASSUME IInv, NEW c \in {"poll", "stop"}, TakeSnapshot(c) PROVE IInv'
<1> USE DEF IInv
<1>1. /\ UNCHANGED <<processVars, callVars, health, last, faults>>
      /\ polls' \in Nat /\ Callable
      /\ c = "stop" => phase = "stopped"
      /\ lock' = c /\ ask' = [w \in Workers |-> [NoAsk EXCEPT !.pc = "sent"]]
  BY DEF TakeSnapshot, MayTake, Callable, All, TypeOK
<1>2. TypeOK' BY <1>1, AskType DEF TypeOK, processVars, callVars
<1>3. ProcessOK' /\ LateOK' BY <1>1, ProcessRests, LateRests
<1>4. CallsOK' /\ UndoneOK' /\ StoppedOK' BY <1>1, StatesRest DEF processVars
<1>5. LockOK' BY <1>1 DEF LockOK, Answering, Callable, NoAsk, callVars
<1>6. AnswerOK' BY <1>1 DEF AnswerOK, Answering, Callable, NoAsk, processVars, callVars
<1> QED BY <1>2, <1>3, <1>4, <1>5, <1>6

\* The answer begins as a copy of the worker: of one that has stopped, and so has
\* an engine that adds to no counter any more.
LEMMA ServeSnapshotKeeps == ASSUME IInv, NEW w \in Workers, ServeSnapshot(w) PROVE IInv'
<1> USE DEF IInv
<1>1. /\ UNCHANGED <<processVars, callVars, lock, polls, health, last, faults>>
      /\ ask[w].pc = "sent"
      /\ ask' = [ask EXCEPT ![w] =
           IF worker[w].state = "idle" THEN [NoAsk EXCEPT !.pc = "error"]
           ELSE [pc |-> "reading", state |-> worker[w].state, started |-> worker[w].started,
                 left |-> Cells, seen |-> Zero]]
  BY DEF ServeSnapshot
<1>2. TypeOK'
  <2>1. ask' \in [Workers -> AskState]
    BY <1>1, AskType DEF TypeOK, WorkerState, AskState, Zero
  <2> QED BY <1>1, <2>1 DEF TypeOK, processVars, callVars
<1>3. ProcessOK' /\ LateOK' BY <1>1, ProcessRests, LateRests
<1>4. CallsOK' /\ UndoneOK' /\ StoppedOK' BY <1>1, StatesRest DEF processVars
<1>5. LockOK'
  BY <1>1 DEF TypeOK, AskState, LockOK, StoppedOK, Answering, Callable, NoAsk, callVars
<1>6. AnswerOK'
  BY <1>1 DEF TypeOK, AskState, WorkerState, ProcessOK, AnswerOK, Answering, Callable,
       NoAsk, processVars, callVars
<1> QED BY <1>2, <1>3, <1>4, <1>5, <1>6

LEMMA ReadCellKeeps == ASSUME IInv, NEW w \in Workers, ReadCell(w) PROVE IInv'
<1> USE DEF IInv
<1>1. /\ UNCHANGED <<processVars, callVars, lock, polls, health, last, faults>>
      /\ ask[w].pc = "reading"
  BY DEF ReadCell
<1>2. PICK c \in ask[w].left :
        ask' = [ask EXCEPT ![w] =
          [pc |-> IF ask[w].left = {c} THEN "ok" ELSE "reading",
           state |-> ask[w].state, started |-> ask[w].started, left |-> ask[w].left \ {c},
           seen |-> [ask[w].seen EXCEPT ![c] = counts[w][c]]]]
  BY DEF ReadCell
<1>3. TypeOK'
  <2>1. ask' \in [Workers -> AskState] BY <1>1, <1>2 DEF TypeOK, AskState
  <2> QED BY <1>1, <2>1 DEF TypeOK, processVars, callVars
<1>4. ProcessOK' /\ LateOK' BY <1>1, ProcessRests, LateRests
<1>5. CallsOK' /\ UndoneOK' /\ StoppedOK' BY <1>1, StatesRest DEF processVars
<1>6. LockOK' BY <1>1, <1>2 DEF TypeOK, AskState, LockOK, Answering, Callable, callVars
<1>7. AnswerOK'
  BY <1>1, <1>2 DEF TypeOK, AskState, AnswerOK, Answering, Callable, processVars, callVars
<1> QED BY <1>3, <1>4, <1>5, <1>6, <1>7

LEMMA AskFailsKeeps == ASSUME IInv, NEW w \in Workers, AskFails(w) PROVE IInv'
<1> USE DEF IInv
<1>1. /\ UNCHANGED <<processVars, callVars, lock, polls, health, last>> /\ faults' \in Nat
      /\ ask[w].pc \in {"sent", "reading"}
      /\ ask' = [ask EXCEPT ![w] = [NoAsk EXCEPT !.pc = "error"]]
  BY DEF AskFails, Fault, TypeOK
<1>2. TypeOK' BY <1>1, AskType DEF TypeOK, processVars, callVars
<1>3. ProcessOK' /\ LateOK' BY <1>1, ProcessRests, LateRests
<1>4. CallsOK' /\ UndoneOK' /\ StoppedOK' BY <1>1, StatesRest DEF processVars
<1>5. LockOK' BY <1>1 DEF TypeOK, LockOK, Answering, Callable, NoAsk, callVars
<1>6. AnswerOK' BY <1>1 DEF TypeOK, AnswerOK, Answering, Callable, NoAsk, processVars, callVars
<1> QED BY <1>2, <1>3, <1>4, <1>5, <1>6

LEMMA ApplySnapshotKeeps == ASSUME IInv, ApplySnapshot PROVE IInv'
<1> USE DEF IInv
<1>1. /\ UNCHANGED <<processVars, call, late, reply, polls, faults>>
      /\ lock # "free" /\ \A w \in Workers : ask[w].pc \in {"ok", "error"}
      /\ health' = [w \in Workers |-> Judged(w)]
      /\ last' = [w \in Workers |-> IF Usable(w) THEN ask[w].seen ELSE last[w]]
      /\ lock' = "free" /\ ask' = [w \in Workers |-> NoAsk]
      /\ phase' = IF lock = "stop" THEN "ended" ELSE phase
  BY DEF ApplySnapshot, Answered, All
<1>2. phase' = phase \/ (phase = "stopped" /\ phase' = "ended")
  BY <1>1 DEF LockOK
<1>3. TypeOK'
  <2>1. NoAsk \in AskState BY DEF NoAsk, AskState, Zero
  <2>2. \A w \in Workers : Judged(w) \in HealthState
    BY DEF TypeOK, Judged, Unanswered, HealthState, AskState
  <2>3. last' \in [Workers -> [Cells -> Nat] \cup {<<>>}] BY <1>1 DEF TypeOK, AskState
  <2> QED BY <1>1, <2>1, <2>2, <2>3 DEF TypeOK, processVars
<1>4. ProcessOK' BY <1>1, ProcessRests
<1>5. LateOK' BY <1>1, <1>2 DEF LateOK, Callable
<1>6. CallsOK' /\ UndoneOK' /\ StoppedOK'
  BY <1>1, <1>2 DEF CallsOK, Joined, UndoneOK, StoppedOK, processVars
<1>7. LockOK' BY <1>1 DEF LockOK, Answering, Callable, NoAsk
<1>8. AnswerOK'
  <2>1. Callable /\ Callable' BY <1>1, <1>2 DEF LockOK, Callable
  <2>2. \A w \in Workers : health'[w].started =>
          health[w].started \/ (Answering(w) /\ ask[w].started)
    BY <1>1 DEF Judged, Unanswered, Answering
  <2> QED BY <1>1, <2>1, <2>2 DEF AnswerOK, Answering, NoAsk, processVars
<1> QED BY <1>3, <1>4, <1>5, <1>6, <1>7, <1>8

-----------------------------------------------------------------------------
(* Induction over sizes. The provers cannot instantiate the library's        *)
(* induction theorems, whose parameter is an operator, so an induction here *)
(* is a set of numbers that has 0 and with each number the next.             *)

LEMMA LeastNumber ==
  ASSUME NEW A \in SUBSET Nat, A # {}
  PROVE  \E n \in A : \A m \in A : n <= m
<1>1. IsWellFoundedOn(OpToRel(<, Nat), Nat) BY NatLessThanWellFounded
<1>2. PICK x \in A : \A y \in A : <<y, x>> \notin OpToRel(<, Nat) BY <1>1, WFMin
<1>3. ASSUME NEW y \in A, y < x PROVE FALSE
  <2>1. <<y, x>> \in OpToRel(<, Nat) BY <1>3 DEF OpToRel
  <2> QED BY <2>1, <1>2
<1> QED BY <1>3

LEMMA Climb ==
  ASSUME NEW A \in SUBSET Nat, 0 \in A, \A n \in A : n + 1 \in A
  PROVE  A = Nat
<1> SUFFICES ASSUME NEW k \in Nat \ A PROVE FALSE OBVIOUS
<1> DEFINE Rest == Nat \ A
<1>1. Rest \in SUBSET Nat /\ Rest # {} OBVIOUS
<1> HIDE DEF Rest
<1>2. PICK n \in Rest : \A m \in Rest : n <= m BY <1>1, LeastNumber
<1>3. n \in Nat /\ n \notin A BY DEF Rest
<1>4. n - 1 \in Nat /\ n - 1 \notin Rest BY <1>2, <1>3
<1>5. n - 1 \in A BY <1>4 DEF Rest
<1> QED BY <1>3, <1>5


\* A set of subsets of S that has {}, and each subset it has all but one element
\* of, whichever, has all of them.
LEMMA SubsetInduction ==
  ASSUME NEW S, IsFiniteSet(S), NEW G, {} \in G,
         \A s \in SUBSET S : s # {} /\ (\A y \in s : s \ {y} \in G) => s \in G
  PROVE  \A s \in SUBSET S : s \in G
<1> DEFINE Sizes == {n \in Nat : \A s \in SUBSET S : Cardinality(s) = n => s \in G}
<1>1. \A s \in SUBSET S : IsFiniteSet(s) /\ Cardinality(s) \in Nat
  BY FS_Subset, FS_CardinalityType
<1>2. 0 \in Sizes BY <1>1, FS_EmptySet
<1>3. ASSUME NEW n \in Sizes PROVE n + 1 \in Sizes
  <2> SUFFICES ASSUME NEW s \in SUBSET S, Cardinality(s) = n + 1 PROVE s \in G
    OBVIOUS
  <2>1. n \in Nat /\ \A t \in SUBSET S : Cardinality(t) = n => t \in G OBVIOUS
  <2> HIDE DEF Sizes
  <2>2. s # {} BY <1>1, <2>1, FS_EmptySet
  <2>3. ASSUME NEW y \in s PROVE s \ {y} \in G
    <3>1. Cardinality(s \ {y}) = Cardinality(s) - 1 BY <1>1, FS_RemoveElement
    <3> QED BY <2>1, <3>1
  <2> QED BY <2>2, <2>3
<1>4. Sizes = Nat
  <2>1. Sizes \in SUBSET Nat OBVIOUS
  <2> HIDE DEF Sizes
  <2> QED BY <1>2, <1>3, <2>1, Climb
<1> QED BY <1>1, <1>4

-----------------------------------------------------------------------------
(* The sum of a function's values, and the recursion that computes it.     *)

First(s) == CHOOSE x \in s : TRUE
SumsOn(D, h, f) ==
  h = [s \in D |-> IF s = {} THEN 0 ELSE f[First(s)] + h[s \ {First(s)}]]
Sum(f, S) == (CHOOSE h : SumsOn(SUBSET S, h, f))[S]

LEMMA FirstIsIn == ASSUME NEW s, s # {} PROVE First(s) \in s
BY DEF First

\* There is a function that satisfies the recursion.
LEMMA SumsExist ==
  ASSUME NEW f, NEW S, IsFiniteSet(S)
  PROVE  \E h : SumsOn(SUBSET S, h, f)
<1> DEFINE Small(n) == {s \in SUBSET S : Cardinality(s) <= n}
           Sizes == {n \in Nat : \E h : SumsOn(Small(n), h, f)}
<1>1. \A s \in SUBSET S : IsFiniteSet(s) /\ Cardinality(s) \in Nat
  BY FS_Subset, FS_CardinalityType
<1>2. 0 \in Sizes
  <2>1. \A s \in Small(0) : s = {} BY <1>1, FS_EmptySet
  <2> DEFINE h == [s \in Small(0) |-> 0]
  <2>2. SumsOn(Small(0), h, f) BY <2>1 DEF SumsOn
  <2> QED BY <2>2
<1>3. ASSUME NEW n \in Sizes PROVE n + 1 \in Sizes
  <2>1. PICK h : SumsOn(Small(n), h, f) OBVIOUS
  <2>2. n \in Nat /\ n + 1 \in Nat OBVIOUS
  <2> DEFINE g == [s \in Small(n + 1) |->
                     IF s = {} THEN 0 ELSE f[First(s)] + h[s \ {First(s)}]]
  <2>3. ASSUME NEW s \in Small(n + 1), s # {}
        PROVE  s \ {First(s)} \in Small(n) /\ s \ {First(s)} \in Small(n + 1)
    <3>1. Cardinality(s \ {First(s)}) = Cardinality(s) - 1
      BY <1>1, <2>3, FirstIsIn, FS_RemoveElement
    <3> QED BY <1>1, <3>1
  <2>4. ASSUME NEW s \in Small(n) PROVE s \in Small(n + 1) /\ g[s] = h[s]
    <3>1. s \in Small(n + 1) BY <1>1, <2>2
    <3>2. h[s] = IF s = {} THEN 0 ELSE f[First(s)] + h[s \ {First(s)}]
      BY <2>1 DEF SumsOn
    <3> QED BY <3>1, <3>2
  <2>5. \A s \in Small(n + 1) : s # {} => g[s \ {First(s)}] = h[s \ {First(s)}]
    BY <2>3, <2>4
  <2>6. SumsOn(Small(n + 1), g, f) BY <2>5 DEF SumsOn
  <2> HIDE DEF g, Small
  <2> QED BY <2>2, <2>6
<1>4. Sizes = Nat
  <2>1. Sizes \in SUBSET Nat OBVIOUS
  <2> HIDE DEF Sizes
  <2> QED BY <1>2, <1>3, <2>1, Climb
<1>5. Cardinality(S) \in Sizes BY <1>1, <1>4
<1>6. Small(Cardinality(S)) = SUBSET S BY <1>1, FS_Subset
<1> QED BY <1>5, <1>6

\* A sum over S is the value at S of a function of the subsets of S.
LEMMA SumIsComputed ==
  ASSUME NEW f, NEW S, IsFiniteSet(S)
  PROVE  \E h : /\ SumsOn(SUBSET S, h, f)
                /\ Sum(f, S) = h[S]
<1> DEFINE h == CHOOSE h : SumsOn(SUBSET S, h, f)
<1>1. SumsOn(SUBSET S, h, f) BY SumsExist
<1>2. Sum(f, S) = h[S] BY DEF Sum
<1> QED BY <1>1, <1>2

\* Sums of numbers are numbers.
LEMMA SumsType ==
  ASSUME NEW f, NEW S, IsFiniteSet(S), \A x \in S : f[x] \in Nat,
         NEW h, SumsOn(SUBSET S, h, f)
  PROVE  \A s \in SUBSET S : h[s] \in Nat
<1> DEFINE G == {s \in SUBSET S : h[s] \in Nat}
<1>1. h[{}] = 0 /\ \A s \in SUBSET S : s # {} => h[s] = f[First(s)] + h[s \ {First(s)}]
  BY DEF SumsOn
<1>2. {} \in G BY <1>1
<1>3. ASSUME NEW s \in SUBSET S, s # {}, \A y \in s : s \ {y} \in G PROVE s \in G
  <2>1. First(s) \in s BY <1>3, FirstIsIn
  <2>2. f[First(s)] \in Nat /\ h[s \ {First(s)}] \in Nat BY <1>3, <2>1
  <2>3. h[s] = f[First(s)] + h[s \ {First(s)}] BY <1>1, <1>3
  <2>4. \A a, b \in Nat : a + b \in Nat OBVIOUS
  <2>5. h[s] \in Nat BY ONLY <2>2, <2>3, <2>4
  <2> QED BY <2>5
<1>4. \A s \in SUBSET S : s \in G
  <2> HIDE DEF G
  <2> QED BY <1>2, <1>3, SubsetInduction
<1> QED BY <1>4

\* It does not matter which element is taken out first.
AnyFirst(h, f, S) == \A s \in SUBSET S : \A y \in s : h[s] = f[y] + h[s \ {y}]

LEMMA TakeOut ==
  ASSUME NEW f, NEW S, IsFiniteSet(S), \A x \in S : f[x] \in Nat,
         NEW h, SumsOn(SUBSET S, h, f)
  PROVE  AnyFirst(h, f, S)
<1> DEFINE G == {s \in SUBSET S : \A y \in s : h[s] = f[y] + h[s \ {y}]}
<1>1. \A s \in SUBSET S : s # {} => h[s] = f[First(s)] + h[s \ {First(s)}]
  BY DEF SumsOn
<1>2. \A s \in SUBSET S : h[s] \in Nat BY SumsType
<1>3. {} \in G OBVIOUS
<1>4. ASSUME NEW s \in SUBSET S, s # {}, \A y \in s : s \ {y} \in G PROVE s \in G
  <2> DEFINE x == First(s)
  <2>1. x \in s /\ h[s] = f[x] + h[s \ {x}] BY <1>1, <1>4, FirstIsIn
  <2> HIDE DEF x
  <2>2. ASSUME NEW y \in s, y # x PROVE h[s] = f[y] + h[s \ {y}]
    <3> DEFINE t == (s \ {x}) \ {y}
    <3>1. t = (s \ {y}) \ {x} OBVIOUS
    <3>2. h[s \ {x}] = f[y] + h[t] BY <1>4, <2>1, <2>2
    <3>3. h[s \ {y}] = f[x] + h[t] BY <1>4, <2>1, <2>2, <3>1
    <3>4. h[t] \in Nat /\ f[x] \in Nat /\ f[y] \in Nat BY <1>2, <2>1
    <3> HIDE DEF t
    <3>5. h[s] = f[x] + (f[y] + h[t]) BY <2>1, <3>2
    <3>6. \A a, b, c \in Nat : a + (b + c) = b + (a + c) OBVIOUS
    <3> QED BY ONLY <3>3, <3>4, <3>5, <3>6
  <2> QED BY <2>1, <2>2
<1>5. \A s \in SUBSET S : s \in G
  <2> HIDE DEF G
  <2> QED BY <1>3, <1>4, SubsetInduction
<1> QED BY <1>5 DEF AnyFirst

\* A sum grows with the set and with the numbers.
LEMMA SumIsMonotone ==
  ASSUME NEW f, NEW A, NEW g, NEW B, IsFiniteSet(B), A \subseteq B,
         \A x \in A : f[x] \in Nat /\ f[x] <= g[x], \A x \in B : g[x] \in Nat
  PROVE  Sum(f, A) <= Sum(g, B)
<1>1. IsFiniteSet(A) BY FS_Subset
<1>2. PICK h : SumsOn(SUBSET A, h, f) /\ Sum(f, A) = h[A]
  BY <1>1, SumIsComputed
<1>3. PICK k : SumsOn(SUBSET B, k, g) /\ Sum(g, B) = k[B]
  BY SumIsComputed
<1> DEFINE G == {s \in SUBSET B : h[s \cap A] <= k[s]}
<1>4. /\ \A s \in SUBSET A : h[s] \in Nat
      /\ \A s \in SUBSET A : \A y \in s : h[s] = f[y] + h[s \ {y}]
  <2>1. \A x \in A : f[x] \in Nat OBVIOUS
  <2>2. \A s \in SUBSET A : h[s] \in Nat BY ONLY <1>1, <1>2, <2>1, SumsType
  <2>3. AnyFirst(h, f, A) BY ONLY <1>1, <1>2, <2>1, TakeOut
  <2> QED BY <2>2, <2>3 DEF AnyFirst
<1>5. /\ \A s \in SUBSET B : k[s] \in Nat
      /\ \A s \in SUBSET B : \A y \in s : k[s] = g[y] + k[s \ {y}]
  <2>1. IsFiniteSet(B) /\ \A x \in B : g[x] \in Nat OBVIOUS
  <2>2. \A s \in SUBSET B : k[s] \in Nat BY ONLY <1>3, <2>1, SumsType
  <2>3. AnyFirst(k, g, B) BY ONLY <1>3, <2>1, TakeOut
  <2> QED BY <2>2, <2>3 DEF AnyFirst
<1>6. {} \in G BY <1>2, <1>3 DEF SumsOn
<1>7. ASSUME NEW s \in SUBSET B, s # {}, \A y \in s : s \ {y} \in G PROVE s \in G
  <2>1. PICK y \in s : TRUE BY <1>7
  <2> DEFINE t == s \ {y}
  <2>2. h[t \cap A] <= k[t] BY <1>7, <2>1
  <2>3. k[s] = g[y] + k[t] /\ k[t] \in Nat /\ g[y] \in Nat BY <1>5, <2>1
  <2>4. CASE y \in A
    <3>1. (s \cap A) \ {y} = t \cap A OBVIOUS
    <3>2. h[s \cap A] = f[y] + h[t \cap A] BY <1>4, <2>4, <3>1
    <3>3. h[t \cap A] \in Nat /\ f[y] \in Nat /\ f[y] <= g[y] BY <1>4, <2>4
    <3>4. \A a, b, c, d \in Nat : a <= b /\ c <= d => a + c <= b + d OBVIOUS
    <3>5. h[s \cap A] <= k[s] BY ONLY <2>2, <2>3, <3>2, <3>3, <3>4
    <3> QED BY <3>5
  <2>5. CASE y \notin A
    <3>1. s \cap A = t \cap A BY <2>5
    <3>2. h[t \cap A] \in Nat BY <1>4
    <3>3. \A a, b, c \in Nat : a <= b => a <= c + b OBVIOUS
    <3>4. h[s \cap A] <= k[s] BY ONLY <2>2, <2>3, <3>1, <3>2, <3>3
    <3> QED BY <3>4
  <2> QED BY <2>4, <2>5
<1>8. \A s \in SUBSET B : s \in G
  <2> HIDE DEF G
  <2> QED BY <1>6, <1>7, SubsetInduction
<1>9. B \cap A = A /\ h[B \cap A] <= k[B] BY <1>8
<1> QED BY <1>2, <1>3, <1>9

-----------------------------------------------------------------------------
(* The invariant and what follows from it.                                 *)

LEMMA StepIInv == IInv /\ [Next]_vars => IInv'
<1> SUFFICES ASSUME IInv, [Next]_vars PROVE IInv' OBVIOUS
<1>1. CASE UNCHANGED vars
  <2>1. UNCHANGED processVars /\ UNCHANGED callVars /\ UNCHANGED runVars /\ UNCHANGED faults
    BY <1>1 DEF vars
  <2>2. TypeOK' BY <2>1 DEF IInv, TypeOK, processVars, callVars, runVars
  <2>3. ProcessOK' /\ LateOK' BY <2>1, ProcessRests, LateRests DEF IInv
  <2>4. CallsOK' /\ UndoneOK' /\ StoppedOK' BY <2>1, StatesRest DEF IInv, processVars
  <2>5. LockOK' /\ AnswerOK' BY <2>1, LockRests, AnswersRest DEF IInv, callVars, runVars
  <2> QED BY <2>2, <2>3, <2>4, <2>5 DEF IInv
<1>2. CASE \E w \in Workers : ProcessStep(w) \/ BeginRecord(w) \/ Restart(w)
  BY <1>2, TimerFiresKeeps, ScheduleCancelledKeeps, PublishKeeps, EngineEndsKeeps,
     RunCompletesKeeps, AddToCellKeeps, BeginRecordKeeps, RestartKeeps
     DEF ProcessStep
<1>3. CASE \E w \in Workers : CallStep(w)
  BY <1>3, ServeKeeps, RefuseStartKeeps, ServeStoppedKeeps, GiveUpKeeps DEF CallStep
<1>4. CASE \E w \in Workers : \E request \in {"prepare", "start", "stop"} : LateArrival(w, request)
  BY <1>4, LateArrivalKeeps
<1>5. CASE \E w \in Workers : AskStep(w)
  BY <1>5, ServeSnapshotKeeps, ReadCellKeeps, AskFailsKeeps DEF AskStep
<1>6. CASE CallerStep
  BY <1>6, AfterProbeKeeps, AfterPrepareKeeps, AfterStartKeeps, AfterUndoKeeps, ApplyStopKeeps
     DEF CallerStep
<1>7. CASE ApplySnapshot BY <1>7, ApplySnapshotKeeps
<1>8. CASE CallStop BY <1>8, CallStopKeeps
<1>9. CASE TakeSnapshot("poll") \/ TakeSnapshot("stop") BY <1>9, TakeSnapshotKeeps
<1> QED BY <1>1, <1>2, <1>3, <1>4, <1>5, <1>6, <1>7, <1>8, <1>9 DEF Next

\* Every reachable state of a distributed run satisfies the invariant: what each
\* worker, each request under way or given up, and each answer can be.
THEOREM DistributedInvariant == Spec => []IInv
<1>1. Init => IInv BY InitIInv
<1>2. IInv /\ [Next]_vars => IInv' BY StepIInv
<1> QED BY <1>1, <1>2, PTL DEF Spec

\* stopPrepared: after a failed Start no worker that took the Stop is scheduled
\* or runs, whichever requests were lost, refused or still arrive.
THEOREM FailedStartsAreUndone == Spec => []FailedStartIsUndone
<1>1. IInv => FailedStartIsUndone BY DEF IInv, UndoneOK, FailedStartIsUndone
<1> QED BY <1>1, DistributedInvariant, PTL

\* What the health says of a worker whose answer leaves the result complete.
LEMMA CompleteAnswers ==
  ASSUME IInv, ApplySnapshot, ~Partial', NEW w \in Workers
  PROVE  /\ ask[w].pc = "ok" /\ Usable(w)
         /\ health'[w].state = ask[w].state
         /\ health'[w].started = (health[w].started \/ ask[w].started)
<1>1. /\ ask[w].pc \in {"ok", "error"} /\ health'[w] = Judged(w)
  BY DEF ApplySnapshot, Answered
<1>2. health'[w].reachable /\ ~health'[w].stale BY DEF Partial
<1> QED BY <1>1, <1>2 DEF Judged, Unanswered

\* Run.Stop: its last Snapshot finds every worker that took the Stop stopped.
THEOREM StopsAreReported == Spec => StopIsReported
<1>1. IInv /\ [Next]_vars =>
        [phase = "stopped" /\ phase' = "ended" /\ Succeeded /\ ~Partial' => AllTerminal']_vars
  <2> SUFFICES ASSUME IInv, [Next]_vars, phase = "stopped", phase' = "ended", Succeeded, ~Partial'
               PROVE  AllTerminal'
    OBVIOUS
  <2>1. ApplySnapshot /\ lock = "stop"
    BY DEF Next, vars, callVars, runVars, ProcessStep, CallStep, AskStep, CallerStep, TimerFires,
       ScheduleCancelled, Publish, EngineEnds, RunCompletes, AddToCell, BeginRecord, Restart,
       ProcessFrame, Serve, RefuseStart, ServeStopped, GiveUp, LateArrival, ServeSnapshot,
       ReadCell, AskFails, AfterProbe, AfterPrepare, AfterStart, AfterUndo, ApplyStop,
       CallStop, TakeSnapshot, ApplySnapshot
  <2>2. \A w \in Workers : health'[w].state = "stopped"
    BY <2>1, CompleteAnswers DEF IInv, LockOK, Answering, Succeeded
  <2> QED BY <2>2 DEF AllTerminal, Terminal
<1> QED BY <1>1, DistributedInvariant, PTL DEF Spec, StopIsReported

\* aggregateSnapshots: a result that is neither partial nor waiting for a worker
\* counts every record of every worker, and no engine is left to add another.
THEOREM CompleteResultsAreExact == Spec => CompleteResultIsExact
<1>1. ASSUME IInv, ApplySnapshot, ~Partial', AllTerminal',
             \A w \in Workers : health'[w].started
      PROVE  /\ \A w \in Workers : worker[w].engine = "off"
             /\ Totals' = Aggregate(counts, Workers)
  <2>1. \A w \in Workers : /\ Answering(w) /\ ask[w].left = {} /\ ask[w].state = "stopped"
                           /\ ask[w].started /\ Usable(w)
    BY <1>1, CompleteAnswers DEF IInv, LockOK, AnswerOK, Answering, AllTerminal, Terminal
  <2>2. \A w \in Workers : /\ worker[w].engine = "off"
                           /\ \A c \in Cells : ask[w].seen[c] = counts[w][c]
    BY <1>1, <2>1 DEF IInv, AnswerOK
  <2>3. \A w \in Workers : ask[w].seen = counts[w]
    BY <1>1, <2>2 DEF IInv, TypeOK, AskState
  <2>4. last' = [w \in Workers |-> counts[w]] BY <1>1, <2>1, <2>3 DEF ApplySnapshot
  <2>5. last' = counts BY <1>1, <2>4 DEF IInv, TypeOK
  <2>6. \A w \in Workers : counts[w] # <<>> BY <1>1, CellsAssumption DEF IInv, TypeOK
  <2>7. {w \in Workers : HasSnapshot(w)}' = Workers BY <2>5, <2>6 DEF HasSnapshot
  <2>8. Totals' = Aggregate(counts, Workers) BY <2>5, <2>7 DEF Totals
  <2> QED BY <2>2, <2>8
<1>2. IInv /\ [Next]_vars =>
        [Returns /\ ~Partial' /\ AllTerminal' /\ (\A w \in Workers : health'[w].started) =>
           /\ \A w \in Workers : worker[w].engine = "off"
           /\ Totals' = Aggregate(counts, Workers)]_vars
  <2> SUFFICES ASSUME IInv, [Next]_vars, Returns, ~Partial', AllTerminal',
                      \A w \in Workers : health'[w].started
               PROVE  /\ \A w \in Workers : worker[w].engine = "off"
                      /\ Totals' = Aggregate(counts, Workers)
    OBVIOUS
  <2>1. ApplySnapshot
    BY DEF Returns, Next, vars, callVars, runVars, ProcessStep, CallStep, AskStep, CallerStep,
       TimerFires, ScheduleCancelled, Publish, EngineEnds, RunCompletes, AddToCell, BeginRecord,
       Restart, ProcessFrame, Serve, RefuseStart, ServeStopped, GiveUp, LateArrival,
       ServeSnapshot, ReadCell, AskFails, AfterProbe, AfterPrepare, AfterStart, AfterUndo,
       ApplyStop, CallStop, TakeSnapshot
  <2> QED BY <1>1, <2>1
<1> QED BY <1>2, DistributedInvariant, PTL DEF Spec, CompleteResultIsExact

\* The aggregate of a counter is the sum of what the workers told of it.
LEMMA AggregateIsSum ==
  ASSUME NEW responses, NEW W, NEW c \in Cells
  PROVE  Aggregate(responses, W)[c] = Sum([w \in W |-> responses[w][c]], W)
<1>1. Aggregate(responses, W)[c] = MapThenSumSet(LAMBDA w : responses[w][c], W)
  BY DEF Aggregate
<1>2. MapThenSumSet(LAMBDA w : responses[w][c], W) = Sum([w \in W |-> responses[w][c]], W)
  BY DEF MapThenSumSet, MapThenFoldSet, Sum, SumsOn, First
<1> QED BY <1>1, <1>2

\* applySnapshot: an unusable answer keeps the last usable one, and a usable one
\* has no counter that moved backwards, so neither has the result.
THEOREM TotalsOnlyGrow == Spec => TotalsNeverDecrease
<1>1. IInv /\ [Next]_vars => [\A c \in Cells : Totals[c] <= Totals'[c]]_last
  <2> SUFFICES ASSUME IInv, [Next]_vars, ~UNCHANGED last, NEW c \in Cells
               PROVE  Totals[c] <= Totals'[c]
    OBVIOUS
  <2>1. ApplySnapshot
    BY DEF Next, vars, callVars, runVars, ProcessStep, CallStep, AskStep, CallerStep, TimerFires,
       ScheduleCancelled, Publish, EngineEnds, RunCompletes, AddToCell, BeginRecord, Restart,
       ProcessFrame, Serve, RefuseStart, ServeStopped, GiveUp, LateArrival, ServeSnapshot,
       ReadCell, AskFails, AfterProbe, AfterPrepare, AfterStart, AfterUndo, ApplyStop,
       CallStop, TakeSnapshot
  <2> DEFINE W == {w \in Workers : HasSnapshot(w)}
             V == {w \in Workers : HasSnapshot(w)}'
             f == [w \in W |-> last[w][c]]
             g == [w \in V |-> last'[w][c]]
  <2>2. \A w \in Workers : last'[w] = IF Usable(w) THEN ask[w].seen ELSE last[w]
    BY <2>1 DEF ApplySnapshot
  <2>3. \A w \in Workers : ask[w].seen # <<>> BY CellsAssumption DEF IInv, TypeOK, AskState
  <2>4. W \subseteq V /\ V \subseteq Workers BY <2>2, <2>3 DEF HasSnapshot
  <2>5. /\ \A w \in W : last[w] \in [Cells -> Nat]
        /\ \A w \in V : last'[w] \in [Cells -> Nat]
    BY StepIInv DEF IInv, TypeOK, HasSnapshot
  <2>6. /\ \A w \in V : g[w] \in Nat
        /\ \A w \in W : f[w] \in Nat /\ f[w] <= g[w]
    <3>1. \A w \in W : last[w][c] <= last'[w][c]
      BY <2>2, <2>4, <2>5 DEF HasSnapshot, Usable, Monotonic
    <3> HIDE DEF W, V
    <3> QED BY <2>4, <2>5, <3>1
  <2>7. IsFiniteSet(V) BY <2>4, WorkersAssumption, FS_Subset
  <2>8. Totals[c] = Sum(f, W)
    <3>1. Totals = Aggregate(last, W) BY DEF Totals
    <3> QED BY <3>1, AggregateIsSum
  <2>9. Totals'[c] = Sum(g, V)
    <3>1. Totals' = Aggregate(last', V) BY DEF Totals
    <3> QED BY <3>1, AggregateIsSum
  <2> HIDE DEF f, g, W, V
  <2>10. Sum(f, W) <= Sum(g, V) BY <2>4, <2>5, <2>6, <2>7, SumIsMonotone
  <2> QED BY <2>8, <2>9, <2>10
<1> QED BY <1>1, DistributedInvariant, PTL DEF Spec, TotalsNeverDecrease
=============================================================================
