--------------------------- MODULE MCScenarioRun ---------------------------
(* Families of requests for TLC: topologies, data flow, steps and loads. *)
EXTENDS ScenarioRun

Base ==
  [users |-> 1, conns |-> 4, timeout |-> 1000, duration |-> 2000, ramp |-> 0,
   sample |-> 0, rate |-> 0, profile |-> NoProfile, url |-> "h", method |-> None,
   headers |-> <<>>, uses |-> {}, steps |-> <<>>, plan |-> NoPlan, bindings |-> {}]

Request(id, uses, captures) ==
  [id |-> id, kind |-> None, url |-> "h", method |-> None, headers |-> <<>>,
   uses |-> uses, captures |-> captures, delay |-> 0, expected |-> None,
   assertion |-> NoAssertion]
Check(id, mode) ==
  [Request(id, {}, <<>>) EXCEPT !.kind = "assert", !.assertion.expected = "2xx",
                                !.assertion.mode = mode]
Capture(name, scope, onStatus) ==
  [name |-> name, path |-> "p", scope |-> scope, onStatus |-> onStatus]

Empty == [id |-> None, kind |-> "step", next |-> None, request |-> None, routes |-> <<>>,
          join |-> None, body |-> None, exit |-> None, max |-> 0]
Step(id, next) == [Empty EXCEPT !.id = id, !.next = next]
JoinStep(id, next) == [Step(id, next) EXCEPT !.kind = "join"]
LoopStep(id, body, exit) ==
  [Empty EXCEPT !.id = id, !.kind = "loop", !.body = body, !.exit = exit, !.max = 2]
BranchStep(id, first, second, join) ==
  [Empty EXCEPT !.id = id, !.kind = "branch", !.join = join,
     !.routes = <<[id |-> "r1", target |-> first, weight |-> 1],
                  [id |-> "r2", target |-> second, weight |-> 3]>>]
Plan(steps) == [schema |-> 1, entry |-> "R", steps |-> steps]

\* One branch, its join and one loop around two requests, wired in many ways.
Wired ==
  {[Base EXCEPT !.steps = <<Request("R", {}, <<>>), Request("S", {}, <<>>)>>,
                !.plan = Plan(<<Step("R", r), BranchStep("B", b1, b2, "J"), JoinStep("J", j),
                                LoopStep("L", body, exit), Step("S", s)>>)] :
    r \in {"B", "L"}, b1 \in {"S", "L", "J"}, b2 \in {"S", "L", "J"},
    j \in {None, "L", "S"}, body \in {"S", "R", "B", "L"}, exit \in {None, "J", "S"},
    s \in {None, "J", "L"}}

\* A branch inside a branch, or after it, or neither.
Nested ==
  {[Base EXCEPT !.steps = <<Request("R", {}, <<>>), Request("S", {}, <<>>),
                            [Request("T", {}, <<>>) EXCEPT !.kind = "delay"]>>,
                !.plan = Plan(<<Step("R", "B"), BranchStep("B", b1, b2, "J"),
                                BranchStep("D", d1, d2, "K"), JoinStep("J", j),
                                JoinStep("K", k), Step("S", s), Step("T", t)>>)] :
    b1 \in {"D", "S"}, b2 \in {"J", "S", "T"}, d1 \in {"S", "T", "K"}, d2 \in {"T", "K", "J"},
    j \in {None, "D"}, k \in {None, "J", "S"}, s \in {"J", "K"}, t \in {"J", "K"}}

\* Two branches and a loop: each inside, around or after the others.
Deep ==
  {[Base EXCEPT !.steps = <<Request("R", {}, <<>>), Request("S", {}, <<>>),
                            [Request("T", {}, <<>>) EXCEPT !.kind = "delay"]>>,
                !.plan = Plan(<<Step("R", r), BranchStep("B", b1, b2, "J"),
                                BranchStep("D", "T", "K", "K"), JoinStep("J", j),
                                JoinStep("K", k), LoopStep("L", body, exit), Step("S", s),
                                Step("T", "K")>>)] :
    r \in {"B", "L"}, b1 \in {"D", "L", "S"}, b2 \in {"J", "S"}, j \in {None, "L"},
    k \in {"J", "L", "S"}, body \in {"S", "D", "B"}, exit \in {None, "J", "K", "S"},
    s \in {"J", "L", "K"}}

CaptureChoices ==
  {<<>>, <<Capture("x", None, None)>>, <<Capture("x", "run", "any")>>}

\* Captures, variables and assertions around one branch, with or without a loop.
Flowing ==
  {[Base EXCEPT
     !.bindings = {"token"},
     !.steps = <<Request("R", {"token"}, rc), Request("S", su, sc), Request("C", cu, <<>>),
                 Check("A", mode)>>,
     !.plan = Plan(<<[Step("A", None) EXCEPT !.request = asks, !.next = top.A],
                     Step("R", "B"), BranchStep("B", "S", top.B, "J"), Step("S", top.S),
                     JoinStep("J", top.J), Step("C", top.C)>> \o top.more)] :
    rc \in CaptureChoices, sc \in CaptureChoices, su \in {{}, {"x"}}, cu \in {{}, {"x"}},
    asks \in {"R", "S", "C"}, mode \in {"stop", None},
    top \in {[A |-> None, B |-> "J", S |-> "J", J |-> "C", C |-> "A", more |-> <<>>],
             [A |-> "J", B |-> "C", S |-> "A", J |-> None, C |-> "J", more |-> <<>>],
             [A |-> "L", B |-> "J", S |-> "C", J |-> "L", C |-> "J",
              more |-> <<LoopStep("L", "A", None)>>]}}

StepChoices ==
  {Request(None, {}, <<>>), Request("a", {"x"}, <<>>),
   Request(None, {}, <<Capture("x", None, None), Capture("y", "run", "404")>>),
   Request("a", {}, <<Capture("x", "run", None)>>),
   [Request(None, {}, <<Capture("x", None, None)>>) EXCEPT !.kind = "delay", !.delay = 5],
   [Request(None, {}, <<>>) EXCEPT !.kind = "assertStatus", !.expected = "200"],
   Check(None, "countOnly")}

\* Steps in order, without a plan.
Linear ==
  {[Base EXCEPT !.uses = uses, !.steps = s] :
    uses \in {{}, {"x"}},
    s \in {<<>>} \cup {<<a>> : a \in StepChoices} \cup {<<a, b>> : a, b \in StepChoices}
            \cup {<<a, b, Check(None, "stop")>> : a, b \in StepChoices}}

Stage(duration, target) == [duration |-> duration, target |-> target]
Profiles ==
  {[mode |-> mode, start |-> start, stages |-> stages, pre |-> pre, max |-> max,
    graceful |-> graceful] :
    mode \in Modes, start \in {0, 2, 5}, pre \in {1, 2}, max \in {2, 7}, graceful \in {0, 300},
    stages \in {<<Stage(1000, 5)>>, <<Stage(1000, 2), Stage(500, 0)>>,
                <<Stage(3600000, 3), Stage(1, 3)>>}}

\* Loads: users, connections, rates and profiles at and around their limits.
Loaded ==
  {[Base EXCEPT !.profile = p, !.rate = rate, !.conns = conns] :
     p \in Profiles, rate \in {0, 3}, conns \in {0, 1, 3}}
  \cup {[Base EXCEPT !.users = users, !.rate = rate, !.ramp = ramp, !.duration = d, !.conns = k] :
     users \in {0, 1, 3, 8, 50000, 50001, 100001}, rate \in {0, 1, 5},
     ramp \in {0, 100}, d \in {0, 1, 3600001}, k \in {0, 2}}

MCRequests == Wired \cup Nested \cup Deep \cup Flowing \cup Linear \cup Loaded

\* The sets executionDominators computes are the dominators: a step dominates
\* another that cannot be reached without it. Over every graph of three steps.
ASSUME DominatorsAreDominators ==
  LET nodes == {"a", "b", "c"} IN
  \A edges \in [nodes -> SUBSET nodes] :
    From(edges, "a", None) = nodes =>
      \A n, d \in nodes :
        d \in Dominators(edges, "a")[n] <=> d = n \/ n \notin From(edges, "a", d)
=============================================================================
