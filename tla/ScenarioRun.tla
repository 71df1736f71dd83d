---------------------------- MODULE ScenarioRun ----------------------------
(***************************************************************************)
(* A request from its preflight to the iterations of one of its virtual    *)
(* users (bridge/preflight.go, engine/config.go, engine.go,                *)
(* execution_runtime.go), and its shards (distributed/shard.go).           *)
(*                                                                         *)
(* A request is a bridge.LoadConfig with its runtime bindings: the fields  *)
(* of LoadConfig and [url, method, headers, uses, steps, plan, bindings].  *)
(* The compiled program is kept in a variable, as the engine keeps it, and *)
(* a linear scenario is a plan without branches: both loops run the same   *)
(* steps. Values of variables are left out: a name has one or not.         *)
(***************************************************************************)
EXTENDS ExecutionPlan, LoadConfig, Functions

CONSTANTS Requests,      \* the requests submitted
          MaxIterations, \* bound: iterations run by the virtual user
          MaxShards      \* bound: workers a run is sharded over

\* bridge.StartRequest.
RequestRecord ==
  [users : Int, conns : Int, timeout : Int, duration : Int, ramp : Int, sample : Int,
   rate : Int, profile : ProfileRecord, url : STRING, method : STRING,
   headers : Seq(HeaderRecord), uses : SUBSET STRING, steps : Seq(StepRecord),
   plan : PlanRecord, bindings : SUBSET STRING]

ASSUME RequestsAssumption == Requests \subseteq RequestRecord
ASSUME BoundsAssumption == MaxIterations \in Nat /\ MaxShards \in Nat

VARIABLES request,    \* the submitted request, or what preflight made of it
          phase,      \* "submitted", "rejected", "accepted" or "canceled"
          program,    \* the compiled scenario
          pc,         \* the step about to run, None between iterations
          transitions, loops, \* loop counters of the iteration
          route,      \* the routes taken in the iteration, by branch
          frames,     \* activeRoutes and branchFrames: <<branch, route>> pairs
          values,     \* the names that have a value, by where it is kept
          results,    \* assertionResults: the assertions that passed
          rounds,     \* iterations begun
          ended,      \* how the last iteration ended, None while it runs
          fresh,      \* assertions evaluated in the iteration (history)
          missed      \* names some capture did not get in the iteration (history)

iteration == <<pc, transitions, ended>>
history == <<fresh, missed>>
vars == <<request, phase, program, iteration, loops, route, frames, values, results,
          rounds, history>>

-----------------------------------------------------------------------------
(* Preflight, the engine's configuration and the wire.                     *)

Method(c) == Default(c.method, "GET")

\* normalizeLoadConfigWithRuntime: the configuration returned.
NormalConfig(c) ==
  [NormalLoad(c) EXCEPT !.method = Method(c), !.steps = NormalSteps(@, Method(c))]

StepsToRun(c) == IF c.steps = <<>> /\ c.plan = NoPlan THEN <<OwnRequest(c)>> ELSE c.steps

\* compileConfig.
EngineAccepts(c) ==
  LET compiled == CompiledSteps(StepsToRun(c)) IN
  /\ Given(c.url) /\ \A name \in c.bindings : BindingAccepted(name)
  /\ ValidLoad(c)
  /\ StepsAccepted(StepsToRun(c), c.bindings)
  /\ HasRequest(compiled)
  /\ IF c.plan = NoPlan THEN LinearAccepted(compiled, c.bindings)
     ELSE PlanAccepted(c.plan, compiled, c.bindings)

Hosts(c) ==
  {s.url : s \in {t \in {StepsToRun(c)[i] : i \in DOMAIN StepsToRun(c)} : Kind(t) = "request"}}

\* preflightStartRequest.
PreflightAccepts(c) ==
  /\ Given(c.url) /\ c.method # Malformed
  /\ \A h \in DOMAIN c.headers : Given(c.headers[h].name)
  /\ LoadAccepted(c)
  /\ NormalStepsAccepted(c.steps, Method(c))
  /\ EngineAccepts(NormalConfig(c))
  /\ EstimateAccepted(NormalConfig(c), Cardinality(Hosts(c)))

\* The plan sent to a worker has no bindings; the prepare request has them.
NewPlanConfig(c) == [c EXCEPT !.bindings = {}]
EngineConfig(plan, bindings) == [plan EXCEPT !.bindings = bindings]

-----------------------------------------------------------------------------
(* The compiled program: one graph for plans and for steps in order.       *)

InOrder(compiled) ==
  ById([i \in DOMAIN compiled |->
    [id |-> compiled[i].id, kind |-> "step",
     next |-> IF i = Len(compiled) THEN None ELSE compiled[i + 1].id]])

Program(c) ==
  LET compiled == CompiledSteps(StepsToRun(c))
      plan == IF c.plan = NoPlan THEN InOrder(compiled) ELSE ById(c.plan.steps)
      asserts == {i \in DOMAIN compiled : compiled[i].kind = "assert"}
  IN [plan |-> plan,
      step |-> ById(compiled),
      entry |-> IF c.plan = NoPlan THEN compiled[1].id ELSE c.plan.entry,
      max |-> IF c.plan = NoPlan THEN Len(compiled) ELSE MaxTransitions(plan),
      \* the request each assertion is evaluated with
      request |-> [n \in {compiled[i].id : i \in asserts} |->
        IF c.plan # NoPlan THEN plan[n].request
        ELSE LET i == CHOOSE j \in asserts : compiled[j].id = n
             IN compiled[RequestBefore(compiled, i)].id]]

NoProgram == [plan |-> <<>>, step |-> <<>>, entry |-> None, max |-> 0, request |-> <<>>]

Keys(plan) == UNION {{<<b, i>> : i \in DOMAIN plan[b].routes} : b \in OfKind(plan, "branch")}
Attached(n) == {a \in DOMAIN program.request : program.request[a] = n}

-----------------------------------------------------------------------------
(* workerVariables.                                                        *)

NoValues(plan) ==
  [iteration |-> {}, run |-> {},
   branchIteration |-> [k \in Keys(plan) |-> {}], branchRun |-> [k \in Keys(plan) |-> {}]]

Top == frames[Len(frames)]

\* value: runtime bindings, the frames from the innermost out, then the rest.
Available ==
  request.bindings \cup values.iteration \cup values.run
    \cup UNION {values.branchIteration[frames[i]] \cup values.branchRun[frames[i]] :
                  i \in DOMAIN frames}

\* runValueExists looks into the innermost frame only.
RunValues == IF frames = <<>> THEN values.run ELSE values.branchRun[Top]

\* set and invalidate, on the innermost frame.
Keep(lost, kept, keptForRun) ==
  IF frames = <<>>
  THEN [values EXCEPT !.iteration = (@ \ lost) \cup kept, !.run = @ \cup keptForRun]
  ELSE [values EXCEPT !.branchIteration[Top] = (@ \ lost) \cup kept,
                      !.branchRun[Top] = @ \cup keptForRun]

Captures(n) == LET c == program.step[n].captures IN {c[k] : k \in DOMAIN c}
Names(captures) == {c.name : c \in captures}
Scoped(captures, scope) == Names({c \in captures : c.scope = scope})

\* captureStatusMatches, on the statuses below.
Statuses == {"200", "404"}
Matches(status, policy) ==
  policy \in {"any", status} \cup (IF status = "200" THEN {"success", "2xx"} ELSE {"4xx"})

-----------------------------------------------------------------------------
(* Steps.                                                                  *)

\* One transition done: the next step, the end, or the bound on transitions.
Advance(next) ==
  LET cut == next # None /\ transitions + 1 >= program.max IN
  /\ transitions' = transitions + 1
  /\ pc' = IF cut THEN None ELSE next
  /\ ended' = CASE cut -> "cut" [] next = None -> "done" [] OTHER -> None

End(how) == pc' = None /\ ended' = how /\ UNCHANGED transitions

Running(kind) == pc # None /\ program.plan[pc].kind = kind
RunningStep(kind) == Running("step") /\ program.step[pc].kind = kind
Following == program.plan[pc].next

Init ==
  /\ request \in Requests /\ phase = "submitted" /\ program = NoProgram
  /\ pc = None /\ transitions = 0 /\ ended = None
  /\ loops = <<>> /\ route = <<>> /\ frames = <<>>
  /\ values = NoValues(<<>>) /\ results = {} /\ rounds = 0
  /\ fresh = {} /\ missed = {}

Preflight ==
  /\ phase = "submitted"
  /\ IF PreflightAccepts(request)
     THEN /\ phase' = "accepted"
          /\ request' = NormalConfig(request)
          /\ program' = Program(request')
          /\ values' = NoValues(program'.plan)
     ELSE phase' = "rejected" /\ UNCHANGED <<request, program, values>>
  /\ UNCHANGED <<iteration, loops, route, frames, results, rounds, history>>

\* runIteration.
BeginIteration ==
  /\ phase = "accepted" /\ pc = None /\ rounds < MaxIterations
  /\ rounds' = rounds + 1
  /\ pc' = program.entry /\ transitions' = 0 /\ ended' = None
  /\ loops' = [l \in OfKind(program.plan, "loop") |-> 0]
  /\ route' = <<>> /\ frames' = <<>>
  /\ values' = [values EXCEPT !.iteration = {}]
  /\ fresh' = {} /\ missed' = {}
  /\ UNCHANGED <<request, phase, program, results>>

\* acquireRequest fails on a variable that has no value, or DoTimeout fails.
FailRequest ==
  /\ RunningStep("request")
  /\ values' = Keep(Scoped(Captures(pc), "iteration"), {}, {})
  /\ missed' = missed \cup Names(Captures(pc))
  /\ results' = results \ Attached(pc) /\ fresh' = fresh \cup Attached(pc)
  /\ Advance(Following)
  /\ UNCHANGED <<request, phase, program, loops, route, frames, rounds>>

\* A response: captures are kept together or not at all, then assertions are
\* evaluated. "found" is whether the body has every path asked for.
Respond ==
  /\ RunningStep("request") /\ program.step[pc].uses \subseteq Available
  /\ \E status \in Statuses, found \in BOOLEAN, passed \in SUBSET Attached(pc) :
       LET wanted == {c \in Captures(pc) : c.scope = "iteration" \/ c.name \notin RunValues}
           eligible == {c \in wanted : Matches(status, c.onStatus)}
           kept == IF found THEN eligible ELSE {}
       IN /\ values' = Keep(Scoped(wanted \ kept, "iteration"), Scoped(kept, "iteration"),
                            Scoped(kept, "run"))
          /\ missed' = missed \cup Names(wanted \ kept)
          /\ results' = (results \ Attached(pc)) \cup passed
  /\ fresh' = fresh \cup Attached(pc)
  /\ Advance(Following)
  /\ UNCHANGED <<request, phase, program, loops, route, frames, rounds>>

\* runStep on a delay that elapses.
Delay ==
  /\ RunningStep("delay")
  /\ Advance(Following)
  /\ UNCHANGED <<request, phase, program, loops, route, frames, values, results, rounds,
                 history>>

\* The context ends during a delay or while the rate limiter holds a request.
Cancel ==
  /\ RunningStep("delay") \/ RunningStep("request")
  /\ End("canceled") /\ phase' = "canceled"
  /\ UNCHANGED <<request, program, loops, route, frames, values, results, rounds, history>>

\* runStep on an assertion: a failed one is counted, and may end the iteration.
CheckAssertion ==
  /\ RunningStep("assert")
  /\ IF pc \notin results /\ program.step[pc].mode = "stop" THEN End("stopped")
     ELSE Advance(Following)
  /\ UNCHANGED <<request, phase, program, loops, route, frames, values, results, rounds,
                 history>>

\* selectExecutionRoute: the iteration decides, so a branch that is met again
\* takes the same route. pushBranch clears the values of the iteration.
Branch ==
  /\ Running("branch")
  /\ \E i \in DOMAIN program.plan[pc].routes :
       /\ pc \in DOMAIN route => i = route[pc]
       /\ route' = (pc :> i) @@ route
       /\ frames' = Append(frames, <<pc, i>>)
       /\ values' = [values EXCEPT !.branchIteration[<<pc, i>>] = {}]
       /\ Advance(program.plan[pc].routes[i].target)
  /\ UNCHANGED <<request, phase, program, loops, results, rounds, history>>

\* A join that is not the innermost branch's ends the iteration.
Join ==
  /\ Running("join")
  /\ IF frames = <<>> \/ (frames # <<>> /\ program.plan[Top[1]].join # pc)
     THEN End("lost") /\ UNCHANGED frames
     ELSE Advance(Following) /\ frames' = SubSeq(frames, 1, Len(frames) - 1)
  /\ UNCHANGED <<request, phase, program, loops, route, values, results, rounds, history>>

Loop ==
  /\ Running("loop")
  /\ IF loops[pc] < program.plan[pc].max
     THEN loops' = [loops EXCEPT ![pc] = @ + 1] /\ Advance(program.plan[pc].body)
     ELSE loops' = [loops EXCEPT ![pc] = 0] /\ Advance(program.plan[pc].exit)
  /\ UNCHANGED <<request, phase, program, route, frames, values, results, rounds, history>>

Next ==
  \/ Preflight \/ BeginIteration
  \/ FailRequest \/ Respond \/ Delay \/ Cancel \/ CheckAssertion
  \/ Branch \/ Join \/ Loop

Spec == Init /\ [][Next]_vars

-----------------------------------------------------------------------------
(* Properties.                                                             *)

\* Some join can be met without its branch, on the way to it or again after
\* it: through the body of a loop, which validateStructuredBranches leaves
\* out. compileExecutionPlan accepts such plans, and an iteration may end
\* silently at that join.
JoinsUnopened(plan, entry) ==
  LET edges == Edges(plan, TRUE) IN
  \E branch \in OfKind(plan, "branch") :
    LET join == plan[branch].join IN
    \E start \in {entry} \cup edges[join] : join \in From(edges, start, branch)

\* The steps run inside a route, those of the bodies of its loops included.
Inside(plan, key) ==
  From(Edges(plan, TRUE), plan[key[1]].routes[key[2]].target, plan[key[1]].join)

\* A virtual user has open the routes that its step lies in and, at a join,
\* the one that joins there: variables and branch metrics are kept for the
\* right route, and no join ends an iteration for want of its branch
\* (execution_runtime.go).
RoutesNest ==
  JoinsUnopened(program.plan, program.entry) \/
    /\ ended # "lost"
    /\ pc # None =>
         {frames[i] : i \in DOMAIN frames} =
           {key \in Keys(program.plan) :
             \/ pc \in Inside(program.plan, key)
             \/ pc = program.plan[key[1]].join /\ frames # <<>> /\ key = Top}

\* The bound compileExecutionPlan computes never cuts an iteration short
\* (maxTransitions in execution_runtime.go).
BoundIsEnough == ended # "cut"

\* An assertion is counted by a result of this iteration: its request ran
\* before it on the path taken, whatever the results kept from the iteration
\* before (attachPlannedAssertions, setFailedAssertionResults).
AssertionsAreFresh == RunningStep("assert") => pc \in fresh

\* What EngineAccepts has seen to in the program it compiled: targets are steps,
\* and the request of an assertion is on every path to it.
ProgramSound(p) ==
  LET edges == Edges(p.plan, TRUE) IN
  /\ IsFiniteSet(DOMAIN p.plan) /\ p.entry \in DOMAIN p.plan
  /\ \A n \in DOMAIN p.plan :
       /\ edges[n] \subseteq DOMAIN p.plan
       /\ p.plan[n].kind = "step" /\ p.step[n].kind = "assert" => n \in DOMAIN p.request
  /\ \A a \in DOMAIN p.request :
       LET r == p.request[a] IN
       /\ a \in DOMAIN p.plan /\ r # a /\ r \in Dominators(edges, p.entry)[a]
       /\ p.plan[r].kind = "step" /\ p.step[r].kind = "request"

\* The assertions of the requests that dominate the step about to run have been
\* evaluated in this iteration.
FreshOK ==
  pc # None =>
    /\ phase = "accepted" /\ pc \in DOMAIN program.plan
    /\ \A a \in DOMAIN program.request :
         program.request[a] \in Dominators(Edges(program.plan, TRUE), program.entry)[pc] \ {pc}
           => a \in fresh

\* The steps that can still be met outside of loop bodies, and the steps of
\* bodies with the round they are met in.
Ahead(plan, n) == IF n \in DOMAIN plan THEN From(Edges(plan, FALSE), n, None) ELSE {}

Rounds(plan, loop) ==
  ({loop} \X (1 .. plan[loop].max)) \X (LoopBody(plan, loop) \cup {loop})

AllRounds(plan, steps) == UNION {Rounds(plan, l) : l \in steps \cap OfKind(plan, "loop")}

\* What is left of a loop at step n of its round k.
RoundsLeft(plan, loop, k, n) ==
  {r \in Rounds(plan, loop) :
     \/ r[1][2] > k
     \/ r[1][2] = k /\ r[2] \in From(Edges(plan, FALSE), n, loop) \cup {loop}}

\* What EngineAccepts has seen to for the bound: without the edges into bodies
\* there is no cycle, loops do not nest, and everything is counted.
ProgramBounded(p) ==
  LET found == OfKind(p.plan, "loop") IN
  /\ p.max \in Nat /\ Acyclic(Edges(p.plan, FALSE)) /\ None \notin found
  /\ \A l \in found :
       /\ p.plan[l].max \in Nat \ {0} /\ p.plan[l].body \in DOMAIN p.plan
       /\ LoopBody(p.plan, l) \cap found = {}
  /\ Cardinality(DOMAIN p.plan) + Cardinality(AllRounds(p.plan, found)) <= p.max

\* What has been done and what is left make no more than the bound, outside of
\* loop bodies and in one.
BoundOK ==
  /\ ended # "cut"
  /\ pc # None =>
       LET plan == program.plan IN
       /\ transitions \in Nat /\ loops \in [OfKind(plan, "loop") -> Nat]
       /\ \/ /\ \A l \in DOMAIN loops : loops[l] = 0
             /\ transitions + Cardinality(Ahead(plan, pc))
                  + Cardinality(AllRounds(plan, Ahead(plan, pc))) <= program.max
          \/ \E l \in DOMAIN loops :
               LET after == Ahead(plan, plan[l].exit)
                   left == RoundsLeft(plan, l, loops[l], pc) \cup AllRounds(plan, after)
               IN /\ \A m \in DOMAIN loops \ {l} : loops[m] = 0
                  /\ loops[l] \in 1 .. plan[l].max
                  /\ pc \in LoopBody(plan, l) \cup {l}
                  /\ transitions + Cardinality(after) + Cardinality(left) <= program.max

IInv ==
  /\ phase \in {"submitted", "rejected", "accepted", "canceled"}
  /\ phase = "submitted" => request \in RequestRecord
  /\ phase = "accepted" => ProgramSound(program) /\ ProgramBounded(program)
  /\ FreshOK
  /\ BoundOK

\* What EngineAccepts has seen to for routes and variables: loops and branches
\* have regions of their own, and a variable is captured on every path to it.
ProgramNested(p, bindings) ==
  LET branches == OfKind(p.plan, "branch")
      dominators == Dominators(Edges(p.plan, TRUE), p.entry)
  IN /\ LoopsBounded(p.plan) /\ BranchesStructured(p.plan)
     /\ branches # {} => None \notin DOMAIN p.plan
     /\ \A b \in branches :
          /\ BranchResolves(p.plan, p.plan[b])
          /\ DOMAIN p.plan[b].routes = 1 .. Len(p.plan[b].routes)
     /\ DOMAIN p.step = OfKind(p.plan, "step")
     /\ \A n \in DOMAIN p.step :
          /\ \A k \in DOMAIN p.step[n].captures :
               /\ p.step[n].kind = "request"
               /\ p.step[n].captures[k].scope \in {"iteration", "run"}
          /\ p.step[n].kind = "request" => TemplatesDefined(p.step, n, bindings, dominators)

\* The routes that are open lie in one another, with the step in all of them or
\* at the join of the innermost; and a branch that is not open has not been
\* met since the iteration began or since its join.
FramesOK ==
  LET plan == program.plan
      edges == Edges(plan, TRUE)
  IN /\ phase = "submitted" => ended = None
     /\ JoinsUnopened(plan, program.entry) \/ ended # "lost"
     /\ pc # None =>
          /\ frames \in Seq(Keys(plan))
          /\ \A i \in DOMAIN frames :
               pc \in Inside(plan, frames[i]) \cup {plan[frames[i][1]].join}
          /\ \A i, j \in DOMAIN frames : i < j => frames[j][1] \in Inside(plan, frames[i])
          /\ \A b \in OfKind(plan, "branch") :
               \/ pc = b \/ \E i \in DOMAIN frames : frames[i][1] = b
               \/ \E start \in {program.entry} \cup edges[plan[b].join] :
                    pc \in From(edges, start, b)

\* The names that have a value outside of the frames and in the first k.
KnownIn(k) ==
  values.iteration \cup values.run
    \cup UNION {values.branchIteration[frames[i]] \cup values.branchRun[frames[i]] : i \in 1 .. k}

\* What the requests that dominate the step about to run have captured is
\* known, and what those that dominate an open branch have captured is known
\* outside of it, whatever was not missed.
ValuesOK ==
  /\ phase = "accepted" =>
       LET keys == Keys(program.plan) IN
       values = [iteration |-> values.iteration, run |-> values.run,
                 branchIteration |-> [k \in keys |-> values.branchIteration[k]],
                 branchRun |-> [k \in keys |-> values.branchRun[k]]]
  /\ pc # None =>
       LET dominators == Dominators(Edges(program.plan, TRUE), program.entry) IN
       \A n \in DOMAIN program.step :
         /\ n \in dominators[pc] \ {pc} =>
              Captured(program.step[n]) \subseteq missed \cup KnownIn(Len(frames))
         /\ \A k \in DOMAIN frames :
              n \in dominators[frames[k][1]] =>
                Captured(program.step[n]) \subseteq missed \cup KnownIn(k - 1)

RoutesInv ==
  /\ phase = "accepted" => ProgramNested(program, request.bindings)
  /\ FramesOK
  /\ ValuesOK

\* A request finds a value for each of its variables, unless a capture of the
\* variable failed earlier in the iteration (validatePlannedTemplates, the
\* frames of workerVariables).
TemplatesResolve ==
  RunningStep("request") => program.step[pc].uses \subseteq Available \cup missed

Total(shards, Part(_)) == FoldFunction(+, 0, [i \in DOMAIN shards |-> Part(shards[i])])

\* What preflight shows is what runs, and an accepted request can be shared by
\* any number of workers: every shard is accepted after its way over the wire,
\* and the shards add up to the users, connections and rate of the request
\* (ShardConfigs, splitInteger, normalizeLoadConfig).
ShardsAgree ==
  phase = "accepted" /\ rounds = 0 =>
    /\ request.users = MaxWorkers(request) /\ request.duration = Duration(request)
    /\ HasProfile(request) => request.profile.graceful = GracefulStop(request)
    /\ \A n \in 1 .. MaxShards :
         LET shards == Shards(request, n) IN
         /\ Len(shards) \in 1 .. n
         /\ \A i \in DOMAIN shards :
              /\ EngineAccepts(EngineConfig(NewPlanConfig(shards[i]), request.bindings))
              /\ Duration(shards[i]) = Duration(request)
              /\ GracefulStop(shards[i]) = GracefulStop(request)
         /\ Total(shards, MaxWorkers) = MaxWorkers(request)
         /\ Total(shards, LAMBDA s : s.conns) = request.conns
         /\ Total(shards, LAMBDA s : s.rate) = request.rate
=============================================================================
