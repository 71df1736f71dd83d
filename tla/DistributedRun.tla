--------------------------- MODULE DistributedRun ---------------------------
(***************************************************************************)
(* One distributed run: Coordinator.Start, Run.Snapshot and Run.Stop       *)
(* (src/internal/distributed/coordinator.go, aggregate.go, client.go) over *)
(* several workers. A worker is reduced to what WorkerServer shows of it:  *)
(* its state, the runScheduled goroutine, the engine and its counters.     *)
(*                                                                         *)
(* Requests go out in parallel and are awaited together. Each may fail     *)
(* before it reached the worker, after it took effect, or be given up by   *)
(* the client while the network still holds it. A worker may restart,      *)
(* which makes it forget its run.                                          *)
(*                                                                         *)
(* Time is abstracted: a scheduled start may fire at any later moment, and *)
(* a worker may find the start time outside its window. The run            *)
(* identifier is fresh, so no request of another run reaches these workers *)
(* with it.                                                                *)
(***************************************************************************)
EXTENDS Statistics

CONSTANTS Workers,       \* the workers that got a shard
          MaxRecords,    \* bound on what one engine records
          Faults,        \* subset of {"lost", "restart", "refused"}
          MaxFaults,     \* bound on how many of them happen
          MaxPolls       \* bound on the Snapshots taken besides Stop's

ASSUME WorkersAssumption == Workers # {} /\ IsFiniteSet(Workers)
ASSUME BoundsAssumption == MaxRecords \in Nat /\ MaxFaults \in Nat /\ MaxPolls \in Nat
ASSUME FaultsAssumption == Faults \subseteq {"lost", "restart", "refused"}

VARIABLES worker,    \* each worker: state, startedAt set, runScheduled, engine
          counts,    \* its counters; those of a lost process stay as history
          writing,   \* the records it began: what each still has to add to
          records,   \* how many it began
          phase,     \* the goroutine in Start, later in Run.Stop
          call,      \* its request to each worker
          late,      \* requests given up that may still arrive
          reply,     \* whether its answer gives the time of a start
          lock,      \* holder of Run.snapshotMu
          polls,     \* Snapshots begun besides Stop's
          ask,       \* the snapshot request to each worker
          health, last,
          faults     \* faults that happened

processVars == <<worker, counts, writing, records>>
callVars == <<phase, call, late, reply>>
runVars == <<lock, polls, ask, health, last>>
vars == <<processVars, callVars, runVars, faults>>

Blank == [state |-> "idle", started |-> FALSE, task |-> "none", engine |-> "off"]
NoAsk == [pc |-> "none", state |-> "idle", started |-> FALSE, left |-> {}, seen |-> Zero]
Terminal == {"stopped"}
Nothing == [k \in 1 .. MaxRecords |-> <<>>]

All(value) == [w \in Workers |-> value]

Init ==
  /\ worker = All(Blank) /\ counts = All(Zero)
  /\ writing = All(Nothing) /\ records = All(0)
  /\ phase = "probe" /\ call = All("sent")
  /\ late = All({}) /\ reply = All(FALSE)
  /\ lock = "free" /\ polls = 0 /\ ask = All(NoAsk)
  /\ health = All([reachable |-> TRUE, stale |-> FALSE, state |-> "scheduled",
                   started |-> FALSE])
  /\ last = All(<<>>)      \* hasSnapshot is false
  /\ faults = 0

Fault(kind) == kind \in Faults /\ faults < MaxFaults /\ faults' = faults + 1

-----------------------------------------------------------------------------
(* The worker process.                                                     *)

Becomes(w, next) == worker' = [worker EXCEPT ![w] = next]
ProcessFrame == UNCHANGED <<callVars, runVars, faults>>
CountFrame == UNCHANGED <<counts, writing, records>>
Drained(w) == writing[w] = Nothing

\* The select of runScheduled: its timer, or the context Stop has cancelled.
TimerFires(w) ==
  /\ worker[w].task = "timer"
  /\ Becomes(w, [state |-> worker[w].state, started |-> worker[w].started,
                 task |-> "fired", engine |-> "live"])
  /\ CountFrame /\ ProcessFrame

ScheduleCancelled(w) ==
  /\ worker[w].task = "timer" /\ worker[w].state # "scheduled"
  /\ Becomes(w, [worker[w] EXCEPT !.task = "none"])
  /\ CountFrame /\ ProcessFrame

\* The started engine is published, or stopped when the run is over already.
Publish(w) ==
  /\ worker[w].task = "fired"
  /\ Becomes(w, IF worker[w].state = "scheduled"
                THEN [state |-> "running", started |-> TRUE,
                      task |-> "wait", engine |-> worker[w].engine]
                ELSE [state |-> worker[w].state, started |-> worker[w].started,
                      task |-> "none", engine |-> "draining"])
  /\ CountFrame /\ ProcessFrame

\* The profile ends, or the cancelled goroutines have returned.
EngineEnds(w) ==
  /\ worker[w].engine = "draining" \/ (worker[w].engine = "live" /\ worker[w].task = "wait")
  /\ Drained(w)
  /\ Becomes(w, [worker[w] EXCEPT !.engine = "off"])
  /\ CountFrame /\ ProcessFrame

RunCompletes(w) ==
  /\ worker[w].task = "wait" /\ worker[w].engine = "off"
  /\ Becomes(w, [state |-> IF worker[w].state = "running" THEN "stopped" ELSE worker[w].state,
                 started |-> worker[w].started, task |-> "none", engine |-> "off"])
  /\ CountFrame /\ ProcessFrame

\* An iteration of the engine records a request or a failed check, which one in
\* flight does of a cancelled engine too: it adds to the first of its counters ...
BeginRecord(w) ==
  /\ worker[w].engine # "off" /\ records[w] < MaxRecords
  /\ \E r \in Records :
       /\ counts' = [counts EXCEPT ![w][Head(r)] = @ + 1]
       /\ writing' = [writing EXCEPT ![w][records[w] + 1] = Tail(r)]
  /\ records' = [records EXCEPT ![w] = @ + 1]
  /\ UNCHANGED worker /\ ProcessFrame

\* ... and then to the others, one at a time and beside the other iterations.
AddToCell(w) ==
  /\ \E k \in 1 .. MaxRecords :
       /\ writing[w][k] # <<>>
       /\ counts' = [counts EXCEPT ![w][Head(writing[w][k])] = @ + 1]
       /\ writing' = [writing EXCEPT ![w][k] = Tail(@)]
  /\ UNCHANGED <<worker, records>> /\ ProcessFrame

\* The process dies and comes back without its run.
Restart(w) ==
  /\ Fault("restart") /\ worker[w].state # "idle"
  /\ Becomes(w, Blank)
  /\ writing' = [writing EXCEPT ![w] = Nothing]
  /\ call' = [call EXCEPT ![w] = IF @ = "waiting" THEN "error" ELSE @]
  /\ ask' = [ask EXCEPT ![w] = IF @.pc = "reading" THEN [NoAsk EXCEPT !.pc = "error"] ELSE @]
  /\ UNCHANGED <<counts, records, phase, late, reply, lock, polls, health, last>>

-----------------------------------------------------------------------------
(* The worker's handlers, as operators of a worker: the worker after the   *)
(* request and the answer. WorkerServer has them with their locks.         *)

Refused(s) == [worker |-> s, answer |-> "error"]
Accepted(s) == [worker |-> s, answer |-> "ok"]

Prepared(s) ==
  IF s.state \in {"scheduled", "running"} THEN Refused(s)
  ELSE Accepted([state |-> "prepared", started |-> FALSE, task |-> s.task, engine |-> s.engine])

Started(s) ==
  IF s.state # "prepared" THEN Refused(s)
  ELSE Accepted([state |-> "scheduled", started |-> s.started,
                 task |-> "timer", engine |-> s.engine])

\* Stop answers a running worker's request only once the engine is done.
Stopped(s) ==
  CASE s.state = "idle" -> Refused(s)
    [] s.state = "stopped" -> Accepted(s)
    [] s.state = "running" ->
         [worker |-> [s EXCEPT !.engine = IF @ = "live" THEN "draining" ELSE @],
          answer |-> "waiting"]
    [] OTHER -> Accepted([s EXCEPT !.state = "stopped"])

Outcome(request, s) ==
  CASE request = "probe" -> Accepted(s)
    [] request = "prepare" -> Prepared(s)
    [] request = "start" -> Started(s)
    [] OTHER -> Stopped(s)

-----------------------------------------------------------------------------
(* parallelWorkers: one request to each worker, all of them awaited.       *)

Request == IF phase = "undo" THEN "stop" ELSE phase

CallTo(w, value) == call' = [call EXCEPT ![w] = value]

\* The request arrives; its answer may be lost.
Serve(w) ==
  LET o == Outcome(Request, worker[w]) IN
  /\ call[w] = "sent"
  /\ Becomes(w, o.worker)
  /\ \/ CallTo(w, o.answer) /\ UNCHANGED faults
     \/ CallTo(w, "error") /\ Fault("lost")
  /\ reply' = [reply EXCEPT ![w] = o.worker.started]
  /\ CountFrame /\ UNCHANGED <<phase, late, runVars>>

\* The start time is due already, or too far away.
RefuseStart(w) ==
  /\ Request = "start" /\ call[w] = "sent"
  /\ CallTo(w, "error") /\ Fault("refused")
  /\ UNCHANGED <<processVars, phase, late, reply, runVars>>

\* The end of handleStop: the engine is done.
ServeStopped(w) ==
  /\ call[w] = "waiting" /\ worker[w].engine = "off"
  /\ Becomes(w, [worker[w] EXCEPT !.state = "stopped"])
  /\ CallTo(w, "ok") /\ reply' = [reply EXCEPT ![w] = worker[w].started]
  /\ CountFrame /\ UNCHANGED <<phase, late, runVars, faults>>

\* A timeout, a cancelled context or a broken connection: the client gives up,
\* and the request may or may not arrive later.
GiveUp(w) ==
  /\ call[w] \in {"sent", "waiting"} /\ Fault("lost")
  /\ CallTo(w, "error")
  /\ late' = [late EXCEPT ![w] = IF call[w] = "sent" /\ phase # "probe" THEN @ \cup {Request} ELSE @]
  /\ UNCHANGED <<processVars, phase, reply, runVars>>

LateArrival(w, request) ==
  /\ request \in late[w]
  /\ Becomes(w, Outcome(request, worker[w]).worker)
  /\ late' = [late EXCEPT ![w] = @ \ {request}]
  /\ CountFrame /\ UNCHANGED <<phase, call, reply, runVars, faults>>

Joined == \A w \in Workers : call[w] \in {"ok", "error"}
Succeeded == \A w \in Workers : call[w] = "ok"
SendAll(next) == phase' = next /\ call' = All("sent")

AfterProbe ==
  /\ phase = "probe" /\ Joined
  /\ IF Succeeded THEN SendAll("prepare") ELSE phase' = "failed" /\ UNCHANGED call
  /\ UNCHANGED <<processVars, late, reply, runVars, faults>>

AfterPrepare ==
  /\ phase = "prepare" /\ Joined
  /\ IF Succeeded THEN SendAll("start") ELSE SendAll("undo")
  /\ UNCHANGED <<processVars, late, reply, runVars, faults>>

\* Mutant of AfterStart: the workers that were scheduled are left to themselves.
AfterStartLeaves ==
  /\ phase = "start" /\ Joined
  /\ phase' = IF Succeeded THEN "run" ELSE "failed"
  /\ UNCHANGED <<processVars, call, late, reply, runVars, faults>>

\* Start returns the run, with every worker believed scheduled, or gives up.
AfterStart ==
  /\ phase = "start" /\ Joined
  /\ IF Succeeded THEN phase' = "run" /\ UNCHANGED call ELSE SendAll("undo")
  /\ UNCHANGED <<processVars, late, reply, runVars, faults>>

\* stopPrepared ignores its errors.
AfterUndo ==
  /\ phase = "undo" /\ Joined
  /\ phase' = "failed"
  /\ UNCHANGED <<processVars, call, late, reply, runVars, faults>>

-----------------------------------------------------------------------------
(* Run.Stop and Run.Snapshot.                                              *)

CallStop ==
  /\ phase = "run"
  /\ SendAll("stop")
  /\ UNCHANGED <<processVars, late, reply, runVars, faults>>

\* The health of a worker that gave no usable answer: what it last said is kept.
Unanswered(h, reached) ==
  [reachable |-> reached, stale |-> TRUE, state |-> h.state, started |-> h.started]

\* Under run.mu, but without snapshotMu: the statuses the Stops returned.
ApplyStop ==
  /\ phase = "stop" /\ Joined
  /\ health' = [w \in Workers |->
       IF call[w] = "error" THEN Unanswered(health[w], FALSE)
       ELSE [reachable |-> TRUE, stale |-> health[w].stale, state |-> "stopped",
             started |-> health[w].started \/ reply[w]]]
  /\ phase' = "stopped"
  /\ UNCHANGED <<processVars, call, late, reply, lock, polls, ask, last, faults>>

Callable == phase \in {"run", "stop", "stopped", "ended"}
MayTake(c) ==
  IF c = "stop" THEN phase = "stopped" /\ UNCHANGED polls
  ELSE Callable /\ polls < MaxPolls /\ polls' = polls + 1

\* Mutant of TakeSnapshot: Stop snapshots without waiting for the lock, and a
\* Snapshot in progress carries on with its own answers.
TakeSnapshotShared(c) ==
  /\ MayTake(c)
  /\ lock \in {"free", "poll"}
  /\ lock' = c
  /\ ask' = [w \in Workers |-> IF ask[w].pc = "none" THEN [NoAsk EXCEPT !.pc = "sent"] ELSE ask[w]]
  /\ UNCHANGED <<processVars, callVars, health, last, faults>>

\* Snapshot takes the lock and asks every worker: a caller that polls the run,
\* or Stop once it has applied its statuses.
TakeSnapshot(c) ==
  /\ MayTake(c)
  /\ lock = "free"
  /\ lock' = c
  /\ ask' = All([NoAsk EXCEPT !.pc = "sent"])
  /\ UNCHANGED <<processVars, callVars, health, last, faults>>

\* handleSnapshot copies the status under the worker's lock ...
ServeSnapshot(w) ==
  /\ ask[w].pc = "sent"
  /\ ask' = [ask EXCEPT ![w] =
       IF worker[w].state = "idle" THEN [NoAsk EXCEPT !.pc = "error"]
       ELSE [pc |-> "reading", state |-> worker[w].state, started |-> worker[w].started,
             left |-> Cells, seen |-> Zero]]
  /\ UNCHANGED <<processVars, callVars, lock, polls, health, last, faults>>

\* ... and then loads the counters one by one.
ReadCell(w) ==
  /\ ask[w].pc = "reading"
  /\ \E c \in ask[w].left :
       /\ LoadedNext(c, ask[w].left)
       /\ ask' = [ask EXCEPT ![w] =
            [pc |-> IF ask[w].left = {c} THEN "ok" ELSE "reading",
             state |-> ask[w].state, started |-> ask[w].started,
             left |-> ask[w].left \ {c},
             seen |-> [ask[w].seen EXCEPT ![c] = counts[w][c]]]]
  /\ UNCHANGED <<processVars, callVars, lock, polls, health, last, faults>>

AskFails(w) ==
  /\ ask[w].pc \in {"sent", "reading"} /\ Fault("lost")
  /\ ask' = [ask EXCEPT ![w] = [NoAsk EXCEPT !.pc = "error"]]
  /\ UNCHANGED <<processVars, callVars, lock, polls, health, last>>

HasSnapshot(w) == last[w] # <<>>

Usable(w) ==
  /\ ask[w].pc = "ok"
  /\ Consistent(ask[w].seen)
  /\ HasSnapshot(w) => Monotonic(last[w], ask[w].seen)

\* Mutant of Judged: a worker that did not answer keeps the health it had.
JudgedFresh(w) ==
  IF ask[w].pc = "error" THEN health[w]
  ELSE [reachable |-> TRUE, stale |-> ~Usable(w), state |-> ask[w].state,
        started |-> health[w].started \/ ask[w].started]

\* The health of a worker after its answer: unreachable, stale, or as it says.
Judged(w) ==
  CASE ask[w].pc = "error" -> Unanswered(health[w], FALSE)
    [] ask[w].pc = "ok" /\ ~Usable(w) -> Unanswered(health[w], TRUE)
    [] OTHER -> [reachable |-> TRUE, stale |-> FALSE, state |-> ask[w].state,
                 started |-> health[w].started \/ ask[w].started]

Answered == lock # "free" /\ \A w \in Workers : ask[w].pc \in {"ok", "error"}

\* Mutant of ApplySnapshot: an unusable answer forgets the last usable one.
ApplySnapshotForgets ==
  /\ Answered
  /\ health' = [w \in Workers |-> Judged(w)]
  /\ last' = [w \in Workers |-> IF Usable(w) THEN ask[w].seen ELSE <<>>]
  /\ lock' = "free" /\ ask' = All(NoAsk)
  /\ phase' = IF lock = "stop" THEN "ended" ELSE phase
  /\ UNCHANGED <<processVars, call, late, reply, polls, faults>>

\* Under both locks: every answer is applied and the result is built from what
\* is then known.
ApplySnapshot ==
  /\ Answered
  /\ health' = [w \in Workers |-> Judged(w)]
  /\ last' = [w \in Workers |-> IF Usable(w) THEN ask[w].seen ELSE last[w]]
  /\ lock' = "free" /\ ask' = All(NoAsk)
  /\ phase' = IF lock = "stop" THEN "ended" ELSE phase
  /\ UNCHANGED <<processVars, call, late, reply, polls, faults>>

\* resultLocked. WorkerFailed is unreachable, as WorkerServer shows.
Totals == Aggregate(last, {w \in Workers : HasSnapshot(w)})
Partial == \E w \in Workers : ~health[w].reachable \/ health[w].stale
AllTerminal == \A w \in Workers : health[w].state \in Terminal

-----------------------------------------------------------------------------
ProcessStep(w) ==
  \/ TimerFires(w) \/ ScheduleCancelled(w) \/ Publish(w) \/ EngineEnds(w) \/ RunCompletes(w)
  \/ AddToCell(w)

CallStep(w) == Serve(w) \/ RefuseStart(w) \/ ServeStopped(w) \/ GiveUp(w)
AskStep(w) == ServeSnapshot(w) \/ ReadCell(w) \/ AskFails(w)

CallerStep == AfterProbe \/ AfterPrepare \/ AfterStart \/ AfterUndo \/ ApplyStop

Next ==
  \/ \E w \in Workers :
       \/ ProcessStep(w) \/ CallStep(w) \/ AskStep(w) \/ BeginRecord(w) \/ Restart(w)
       \/ \E request \in {"prepare", "start", "stop"} : LateArrival(w, request)
  \/ CallerStep \/ ApplySnapshot
  \/ CallStop \/ TakeSnapshot("poll") \/ TakeSnapshot("stop")

Spec == Init /\ [][Next]_vars

-----------------------------------------------------------------------------
(* Properties.                                                             *)

WorkerState ==
  [state : {"idle", "prepared", "scheduled", "running", "stopped"}, started : BOOLEAN,
   task : {"none", "timer", "fired", "wait"}, engine : {"off", "live", "draining"}]
AskState ==
  [pc : {"none", "sent", "reading", "ok", "error"},
   state : {"idle", "prepared", "scheduled", "running", "stopped"}, started : BOOLEAN,
   left : SUBSET Cells, seen : [Cells -> Nat]]
HealthState ==
  [reachable : BOOLEAN, stale : BOOLEAN,
   state : {"idle", "prepared", "scheduled", "running", "stopped"}, started : BOOLEAN]

\* The type invariant. Of what a record still has to add to, only that it is kept
\* for each worker and record.
TypeOK ==
  /\ worker \in [Workers -> WorkerState]
  /\ counts \in [Workers -> [Cells -> Nat]]
  /\ writing = [w \in Workers |-> [k \in 1 .. MaxRecords |-> writing[w][k]]]
  /\ records \in [Workers -> Nat]
  /\ phase \in {"probe", "prepare", "start", "undo", "failed", "run", "stop", "stopped", "ended"}
  /\ call \in [Workers -> {"sent", "waiting", "ok", "error"}]
  /\ late \in [Workers -> SUBSET {"prepare", "start", "stop"}]
  /\ reply \in [Workers -> BOOLEAN]
  /\ lock \in {"free", "poll", "stop"} /\ polls \in Nat /\ faults \in Nat
  /\ ask \in [Workers -> AskState]
  /\ health \in [Workers -> HealthState]
  /\ last \in [Workers -> [Cells -> Nat] \cup {<<>>}]

\* A worker without a run has nothing of one. A worker whose start was published
\* has no other goroutine that could start an engine, and once it has stopped its
\* engine is done. An engine that is done writes nothing.
ProcessOK ==
  \A w \in Workers :
    /\ worker[w].state = "idle" => worker[w].task = "none" /\ worker[w].engine = "off"
    /\ worker[w].started =>
         worker[w].state \in {"running", "stopped"} /\ worker[w].task \in {"wait", "none"}
    /\ worker[w].started /\ worker[w].state = "stopped" => worker[w].engine = "off"
    /\ worker[w].engine = "off" => Drained(w)

\* Which requests may still arrive late: those of the phase that was given up,
\* and none but Stops once Start has returned the run.
LateOK ==
  \A w \in Workers :
    /\ phase = "probe" => late[w] = {}
    /\ phase \in {"prepare", "start"} =>
         late[w] \subseteq {phase} /\ (phase \in late[w] => call[w] = "error")
    /\ phase \in {"undo", "failed"} => ~({"prepare", "start"} \subseteq late[w])
    /\ Callable => late[w] \subseteq {"stop"}

\* Nothing is awaited between the rounds of requests, and a worker that is still
\* busy with a Stop has a run.
CallsOK ==
  /\ phase \in {"failed", "run", "stopped", "ended"} => Joined
  /\ \A w \in Workers : call[w] = "waiting" => worker[w].state # "idle"

\* A worker starts out without a run. One that took the Stop of a failed Start is
\* not loaded, and no Start that is still on its way can change that.
UndoneOK ==
  \A w \in Workers :
    /\ phase = "probe" => worker[w].state = "idle"
    /\ phase \in {"undo", "failed"} /\ call[w] = "ok" =>
         /\ worker[w].state \notin {"scheduled", "running"}
         /\ "start" \in late[w] => worker[w].state # "prepared"

\* A worker that answered the Stop of the run stays stopped, unless it forgets.
StoppedOK ==
  phase \in {"stop", "stopped", "ended"} =>
    \A w \in Workers : call[w] = "ok" => worker[w].state \in {"stopped", "idle"}

Answering(w) == ask[w].pc \in {"reading", "ok"}

\* Snapshots are taken of a run that was started, and by Stop when its Stops are in.
LockOK ==
  /\ lock # "free" => Callable
  /\ lock = "stop" => phase = "stopped"
  /\ \A w \in Workers :
       /\ ask[w].pc # "none" => lock # "free"
       /\ ask[w].pc = "ok" => ask[w].left = {}
       /\ lock = "stop" /\ call[w] = "ok" /\ Answering(w) => ask[w].state = "stopped"

\* What a worker that is known as started can be, by its health or by its answer
\* to Stop, and what a snapshot that says "stopped" tells of the worker and of the
\* counters loaded so far.
AnswerOK ==
  \A w \in Workers :
    /\ health[w].started => Callable /\ (worker[w].started \/ worker[w].state = "idle")
    /\ phase = "stop" /\ call[w] = "ok" /\ reply[w] =>
         /\ worker[w].started \/ worker[w].state = "idle"
         /\ Answering(w) /\ ask[w].state = "stopped" => ask[w].started
    /\ Answering(w) /\ ask[w].started => worker[w].started \/ worker[w].state = "idle"
    /\ Answering(w) /\ ask[w].state = "stopped" =>
         /\ worker[w].state \in {"idle", "stopped"}
         /\ worker[w].state = "stopped" => (worker[w].started <=> ask[w].started)
         /\ health[w].started => ask[w].started
         /\ ask[w].started =>
              /\ worker[w].engine = "off"
              /\ \A c \in Cells \ ask[w].left : ask[w].seen[c] = counts[w][c]

\* The inductive invariant of the proofs.
IInv ==
  TypeOK /\ ProcessOK /\ LateOK /\ CallsOK /\ UndoneOK /\ StoppedOK /\ LockOK /\ AnswerOK

\* A failed Start leaves no load behind, except on a worker whose Stop failed:
\* a worker is scheduled or runs only if it could not be told to stop, and a
\* Start that arrives after the Stop is refused.
FailedStartIsUndone ==
  phase = "failed" =>
    \A w \in Workers : call[w] = "ok" => worker[w].state \notin {"scheduled", "running"}

\* The aggregate never loses what it has once reported, whatever is lost,
\* refused, torn or restarted.
TotalsNeverDecrease ==
  [][\A c \in Cells : Totals[c] <= Totals'[c]]_last

Returns == lock # "free" /\ lock' = "free"

\* A result that is neither partial nor waiting for a worker is the whole
\* truth: nothing runs any more and it counts every record of every worker,
\* those of processes that died since included. A worker that was stopped
\* before it published its start is left out: its engine may still be ending.
CompleteResultIsExact ==
  [][Returns /\ ~Partial' /\ AllTerminal' /\ (\A w \in Workers : health'[w].started) =>
       /\ \A w \in Workers : worker[w].engine = "off"
       /\ Totals' = Aggregate(counts, Workers)]_vars

\* When no Stop failed and its last look at the workers was complete, the
\* result of Stop says that every worker has stopped, although an older
\* Snapshot may overwrite the statuses Stop applied.
StopIsReported ==
  [][phase = "stopped" /\ phase' = "ended" /\ Succeeded /\ ~Partial' => AllTerminal']_vars
=============================================================================
