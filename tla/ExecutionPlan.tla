--------------------------- MODULE ExecutionPlan ---------------------------
(***************************************************************************)
(* The execution plan of a scenario: branches, joins and bounded loops     *)
(* over its steps, and the graph checks that compile it (engine/           *)
(* execution_plan.go).                                                     *)
(*                                                                         *)
(* A plan is [schema, entry, steps], each step [id, kind, next, request,   *)
(* routes, join, body, exit, max] and each route [id, target, weight].     *)
(* None is an absent target. The analyses work on the function "plan" from *)
(* ids to steps; edges are functions from ids to sets of ids, for the      *)
(* adjacency lists of the code, and bit sets are sets.                     *)
(***************************************************************************)
EXTENDS Scenario, FiniteSetsExt

MaxPlanSteps == 1024
MaxRoutes == 32
MaxRouteWeight == 1000000
MaxLoopIterations == 1000
MaxTransitionsPerIteration == 100000

\* bridge.ExecutionPlan and its parts, as they are submitted.
RouteRecord == [id : STRING, target : STRING, weight : Int]
PlanStepRecord ==
  [id : STRING, kind : STRING, next : STRING, request : STRING, routes : Seq(RouteRecord),
   join : STRING, body : STRING, exit : STRING, max : Int]
PlanRecord == [schema : Int, entry : STRING, steps : Seq(PlanStepRecord)]

\* A nil ExecutionPlan.
NoPlan == [schema |-> 0, entry |-> None, steps |-> <<>>]

Ids(steps) == {steps[i].id : i \in DOMAIN steps}
ById(steps) == [id \in Ids(steps) |-> CHOOSE s \in {steps[i] : i \in DOMAIN steps} : s.id = id]
OfKind(plan, kind) == {n \in DOMAIN plan : plan[n].kind = kind}
RouteTargets(branch) == {branch.routes[i].target : i \in DOMAIN branch.routes}

-----------------------------------------------------------------------------
(* Edges and reachability.                                                 *)

\* executionAdjacency: without the edges into loop bodies, or with them.
Successors(step, bodies) ==
  CASE step.kind = "branch" -> RouteTargets(step)
    [] step.kind = "loop" -> {step.exit} \cup (IF bodies THEN {step.body} ELSE {})
    [] OTHER -> {step.next}

Edges(plan, bodies) == [n \in DOMAIN plan |-> Successors(plan[n], bodies) \ {None}]

\* forwardUntil: what is reached from start without passing through stop.
FromNext(edges, stop, reached) == reached \cup ((UNION {edges[n] : n \in reached}) \ {stop})

From(edges, start, stop) ==
  LET reached[k \in 0 .. Cardinality(DOMAIN edges)] ==
        IF k = 0 THEN {start} \ {stop} ELSE FromNext(edges, stop, reached[k - 1])
  IN reached[Cardinality(DOMAIN edges)]

\* reverseReachable, target included.
Reaching(edges, target) == {n \in DOMAIN edges : target \in From(edges, n, None)}

\* executionCycleNode finds none.
Acyclic(edges) == \A n \in DOMAIN edges : \A m \in edges[n] : n \notin From(edges, m, None)

\* executionDominators: every set but the entry's starts full, and a step
\* loses what a predecessor has lost, round after round. In as many rounds as
\* there are steps every loss has gone along every path.
LostNext(edges, entry, lost) ==
  LET kept == {<<n, n>> : n \in DOMAIN edges} \cup {<<entry, d>> : d \in DOMAIN edges}
      passed == UNION {{<<n, pair[2]>> : n \in edges[pair[1]]} : pair \in lost}
  IN lost \cup (passed \ kept)

Dominators(edges, entry) ==
  LET nodes == DOMAIN edges
      lost[k \in 0 .. Cardinality(nodes)] ==
        IF k = 0 THEN {<<entry, d>> : d \in nodes \ {entry}}
        ELSE LostNext(edges, entry, lost[k - 1])
  IN [n \in nodes |-> {d \in nodes : <<n, d>> \notin lost[Cardinality(nodes)]}]

-----------------------------------------------------------------------------
(* The checks of compileExecutionPlan.                                     *)

\* resolveOptionalExecutionTarget; a required target is in DOMAIN plan.
Optional(plan, target) == target \in DOMAIN plan \cup {None}

BranchResolves(plan, branch) ==
  /\ Len(branch.routes) \in 2 .. MaxRoutes
  /\ branch.join \in DOMAIN plan /\ plan[branch.join].kind = "join"
  /\ \A i \in DOMAIN branch.routes :
       /\ Given(branch.routes[i].id)
       /\ branch.routes[i].weight \in 1 .. MaxRouteWeight
       /\ branch.routes[i].target \in DOMAIN plan
  /\ \A i, j \in DOMAIN branch.routes : branch.routes[i].id = branch.routes[j].id => i = j

\* Each step by its kind; the steps of the scenario are the steps of the plan.
StepsResolve(plan, compiled) ==
  /\ \A n \in DOMAIN plan :
       \/ plan[n].kind \in {"step", "join"} /\ Optional(plan, plan[n].next)
       \/ plan[n].kind = "branch" /\ BranchResolves(plan, plan[n])
       \/ /\ plan[n].kind = "loop"
          /\ plan[n].body \in DOMAIN plan /\ Optional(plan, plan[n].exit)
          /\ plan[n].max \in 1 .. MaxLoopIterations
  /\ OfKind(plan, "step") = Ids(compiled)

\* validateBoundedExecutionLoops: the only cycles are bodies that return to
\* their loop, hold no other loop and are not entered by its exit.
LoopBody(plan, loop) == From(Edges(plan, FALSE), plan[loop].body, loop)

LoopsBounded(plan) ==
  LET edges == Edges(plan, FALSE) IN
  /\ Acyclic(edges)
  /\ \A loop \in OfKind(plan, "loop") :
       LET body == LoopBody(plan, loop) IN
       /\ {plan[loop].body} \cup body \subseteq Reaching(edges, loop)
       /\ body \cap OfKind(plan, "loop") = {}
       /\ plan[loop].exit \notin body \cup {loop}

\* validateStructuredBranches: a branch has its own join, which every way out
\* of a route leads to; routes are disjoint and nested branches stay inside.
Region(plan, branch, i) ==
  From(Edges(plan, FALSE), plan[branch].routes[i].target, plan[branch].join)

\* Mutant of BranchStructured: routes may share steps.
BranchStructuredShared(plan, branch) ==
  LET joining == Reaching(Edges(plan, FALSE), plan[branch].join)
  IN \A i \in DOMAIN plan[branch].routes :
       LET region == Region(plan, branch, i) IN
       /\ {plan[branch].routes[i].target} \cup region \subseteq joining
       /\ \A n \in region \cap OfKind(plan, "branch") : plan[n].join \in region

BranchStructured(plan, branch) ==
  LET routes == DOMAIN plan[branch].routes
      joining == Reaching(Edges(plan, FALSE), plan[branch].join)
      region == [i \in routes |-> Region(plan, branch, i)]
  IN /\ \A i \in routes :
          /\ {plan[branch].routes[i].target} \cup region[i] \subseteq joining
          /\ \A n \in region[i] \cap OfKind(plan, "branch") : plan[n].join \in region[i]
     /\ \A i, j \in routes : i # j => region[i] \cap region[j] = {}

BranchesStructured(plan) ==
  LET branches == OfKind(plan, "branch") IN
  /\ \A b, d \in branches : plan[b].join = plan[d].join => b = d
  /\ \A b \in branches : BranchStructured(plan, b)
  /\ OfKind(plan, "join") \subseteq {plan[b].join : b \in branches}

\* Mutant of AssertionAttached: the request need not be on every path.
AssertionAttachedAnywhere(plan, step, n, dominators) ==
  LET request == plan[n].request IN
  /\ request \in DOMAIN step /\ step[request].kind = "request"
  /\ request # n

\* attachPlannedAssertions: the request runs on every path to its assertion.
AssertionAttached(plan, step, n, dominators) ==
  LET request == plan[n].request IN
  /\ request \in DOMAIN step /\ step[request].kind = "request"
  /\ request # n /\ request \in dominators[n]

\* Mutant of TemplatesDefined: a capture on some path is enough.
TemplatesDefinedSomewhere(step, n, bindings, dominators) ==
  \A name \in step[n].uses \ bindings :
    \E producer \in DOMAIN step \ {n} : name \in Captured(step[producer])

\* validatePlannedTemplates: a request that captures the name, on every path.
TemplatesDefined(step, n, bindings, dominators) ==
  \A name \in step[n].uses \ bindings :
    \E producer \in (dominators[n] \cap DOMAIN step) \ {n} : name \in Captured(step[producer])

\* Mutant of MaxTransitions: the loop itself is not counted for each round.
MaxTransitionsOfBodies(plan) ==
  Cardinality(DOMAIN plan)
    + MapThenSumSet(LAMBDA loop : plan[loop].max * Cardinality(LoopBody(plan, loop)),
                    OfKind(plan, "loop"))

\* Every step once, and the body and the loop once for each of its rounds.
MaxTransitions(plan) ==
  Cardinality(DOMAIN plan)
    + MapThenSumSet(LAMBDA loop : plan[loop].max * (Cardinality(LoopBody(plan, loop)) + 1),
                    OfKind(plan, "loop"))

\* The parts that need the graph, once every target resolves.
FlowAccepted(plan, entry, step, bindings) ==
  LET edges == Edges(plan, TRUE)
      dominators == Dominators(edges, entry)
  IN /\ From(edges, entry, None) = DOMAIN plan
     /\ LoopsBounded(plan)
     /\ BranchesStructured(plan)
     /\ \A n \in DOMAIN step :
          /\ step[n].kind = "assert" => AssertionAttached(plan, step, n, dominators)
          /\ step[n].kind = "request" => TemplatesDefined(step, n, bindings, dominators)
     /\ MaxTransitions(plan) <= MaxTransitionsPerIteration

\* compileExecutionPlan.
PlanAccepted(definition, compiled, bindings) ==
  LET plan == ById(definition.steps)
      step == ById(compiled)
  IN /\ definition.schema = 1
     /\ Len(definition.steps) \in 1 .. MaxPlanSteps
     /\ \A n \in DOMAIN plan : Given(n)
     /\ Cardinality(DOMAIN plan) = Len(definition.steps)
     /\ StepsResolve(plan, compiled)
     /\ definition.entry \in DOMAIN step /\ step[definition.entry].kind = "request"
     /\ FlowAccepted(plan, definition.entry, step, bindings)
=============================================================================
