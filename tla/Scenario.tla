------------------------------ MODULE Scenario ------------------------------
(***************************************************************************)
(* The steps of a scenario: what preflight makes of them (bridge/          *)
(* preflight.go) and what the engine accepts and compiles                  *)
(* (engine/config.go). ExecutionPlan has the control flow over them.       *)
(*                                                                         *)
(* A text is a model string by what the checks tell apart: None is empty   *)
(* once trimmed, Malformed is one that no check of its kind accepts (an    *)
(* unparsable URL, a broken template, an invalid token, path or name), and *)
(* any other string passes. A text with templates is the set of variables  *)
(* it uses. Sizes in bytes, display names and default ports are left out.  *)
(*                                                                         *)
(* A step is [id, kind, url, method, headers, uses, captures, delay,       *)
(* expected, assertion]: "uses" is of the URL and the body, a header is    *)
(* [name, uses], a capture [name, path, scope, onStatus] and an assertion  *)
(* [type, operator, header, path, expected, valueType, latency, mode].     *)
(***************************************************************************)
EXTENDS Integers, Sequences, FiniteSets, TLC

None == ""
Malformed == "<malformed>"
Given(text) == text \notin {None, Malformed}
Default(text, default) == IF text = None THEN default ELSE text

MaxScenarioSteps == 512
MaxDelay == 300000
MaxLatency == 3600000

\* bridge.ScenarioStep and its parts, as they are submitted.
HeaderRecord == [name : STRING, uses : SUBSET STRING]
CaptureRecord == [name : STRING, path : STRING, scope : STRING, onStatus : STRING]
AssertionRecord ==
  [type : STRING, operator : STRING, header : STRING, path : STRING, expected : STRING,
   valueType : STRING, latency : Int, mode : STRING]
StepRecord ==
  [id : STRING, kind : STRING, url : STRING, method : STRING, headers : Seq(HeaderRecord),
   uses : SUBSET STRING, captures : Seq(CaptureRecord), delay : Int, expected : STRING,
   assertion : AssertionRecord]

\* Names with the prefix kept for runtime bindings.
Reserved == {"SECRET_TOKEN"}

Kind(step) == Default(step.kind, "request")
IsAssertion(step) == Kind(step) \in {"assert", "assertStatus"}

-----------------------------------------------------------------------------
(* compileVariableCaptures and what it checks each part with.              *)

\* validateRuntimeVariableName and validateVariableName.
BindingAccepted(name) == Given(name)
NameAccepted(name) == Given(name) /\ name \notin Reserved

\* parseJSONPath and validCaptureStatus: a text of their syntax or not.
PathAccepted(path) == Given(path)
PolicyAccepted(onStatus) == Given(onStatus)

CompiledCapture(capture) ==
  [capture EXCEPT !.scope = Default(@, "iteration"), !.onStatus = Default(@, "success")]

CompiledCaptures(captures) ==
  LET written == SelectSeq(captures, LAMBDA c : c.name # None \/ c.path # None)
  IN [i \in DOMAIN written |-> CompiledCapture(written[i])]

CapturesAccepted(captures) ==
  LET compiled == CompiledCaptures(captures) IN
  /\ \A i \in DOMAIN compiled :
       /\ NameAccepted(compiled[i].name) /\ PathAccepted(compiled[i].path)
       /\ compiled[i].scope \in {"iteration", "run"}
       /\ PolicyAccepted(compiled[i].onStatus)
  /\ \A i, j \in DOMAIN compiled : compiled[i].name = compiled[j].name => i = j

-----------------------------------------------------------------------------
(* compileAssertion, compileRequestStep and compileHeaders.                *)

DefaultOperator(type) ==
  CASE type = "header" -> "exists" [] type = "json" -> "equals" [] OTHER -> None

CompiledAssertion(step) ==
  LET a == IF Kind(step) = "assert" THEN step.assertion
           ELSE [step.assertion EXCEPT !.type = "status", !.expected = step.expected]
      type == Default(a.type, "status")
  IN [a EXCEPT !.type = type, !.mode = Default(@, "continue"),
               !.operator = IF type = "status" THEN "equals"
                            ELSE Default(@, DefaultOperator(type)),
               !.valueType = Default(@, "string")]

StatusAccepted(expected) == Given(expected) /\ expected \notin {"success", "any"}

AssertionAccepted(step) ==
  LET a == CompiledAssertion(step) IN
  /\ a.mode \in {"continue", "stop", "countOnly"}
  /\ \/ a.type = "status" /\ StatusAccepted(a.expected)
     \/ a.type = "header" /\ Given(a.header) /\ a.operator \in {"exists", "equals"}
     \/ /\ a.type = "json" /\ PathAccepted(a.path)
        /\ \/ a.operator = "exists"
           \/ /\ a.operator = "equals"
              /\ \/ a.valueType \in {"string", "null"}
                 \/ a.valueType \in {"number", "boolean"} /\ Given(a.expected)
     \/ a.type \in {"responseLatency", "stepLatency"} /\ a.latency > 0

HeadersAccepted(headers) ==
  \A i \in DOMAIN headers : Given(headers[i].name) /\ Malformed \notin headers[i].uses

TemplateNames(step) ==
  step.uses \cup UNION {step.headers[i].uses : i \in DOMAIN step.headers}

RequestAccepted(step) ==
  /\ Given(step.url) /\ step.method # Malformed
  /\ HeadersAccepted(step.headers)
  /\ CapturesAccepted(step.captures)
  /\ \A name \in TemplateNames(step) : BindingAccepted(name)

-----------------------------------------------------------------------------
(* What compileScenarioSteps and compilePlannedScenarioSteps share.        *)

NoAssertion == [type |-> None, operator |-> None, header |-> None, path |-> None,
                expected |-> None, valueType |-> None, latency |-> 0, mode |-> None]

\* The step a configuration without steps runs: its own request.
OwnRequest(c) ==
  [id |-> None, kind |-> "request", url |-> c.url, method |-> c.method,
   headers |-> c.headers, uses |-> c.uses, captures |-> <<>>, delay |-> 0,
   expected |-> None, assertion |-> NoAssertion]

\* compileScenarioStepIdentity.
Id(step, i) == Default(step.id, "step-" \o ToString(i))

\* The steps with their ids, kinds, captures and assertions filled in; only
\* requests capture.
CompiledSteps(steps) ==
  [i \in DOMAIN steps |->
    [id |-> Id(steps[i], i),
     kind |-> IF IsAssertion(steps[i]) THEN "assert" ELSE Kind(steps[i]),
     url |-> steps[i].url,
     uses |-> TemplateNames(steps[i]),
     captures |-> IF Kind(steps[i]) = "request" THEN CompiledCaptures(steps[i].captures)
                  ELSE <<>>,
     mode |-> IF IsAssertion(steps[i]) THEN CompiledAssertion(steps[i]).mode ELSE None]]

Captured(step) == {step.captures[k].name : k \in DOMAIN step.captures}

\* A name keeps one scope, and a runtime binding has a scope of its own.
ScopesAgree(compiled, bindings) ==
  LET captures == UNION {{s.captures[k] : k \in DOMAIN s.captures} :
                           s \in {compiled[i] : i \in DOMAIN compiled}}
  IN /\ \A c \in captures : c.name \notin bindings
     /\ \A c, d \in captures : c.name = d.name => c.scope = d.scope

StepsAccepted(steps, bindings) ==
  LET compiled == CompiledSteps(steps) IN
  /\ Len(steps) \in 1 .. MaxScenarioSteps
  /\ \A i \in DOMAIN steps :
       /\ compiled[i].id # Malformed
       /\ \/ Kind(steps[i]) = "request" /\ RequestAccepted(steps[i])
          \/ Kind(steps[i]) = "delay" /\ steps[i].delay >= 0
          \/ IsAssertion(steps[i]) /\ AssertionAccepted(steps[i])
  /\ \A i, j \in DOMAIN steps : compiled[i].id = compiled[j].id => i = j
  /\ ScopesAgree(compiled, bindings)

\* compileConfig asks for a request step once the steps are compiled.
HasRequest(compiled) == \E i \in DOMAIN compiled : compiled[i].kind = "request"

-----------------------------------------------------------------------------
(* compileScenarioSteps: the steps run in order.                           *)

\* The request an assertion is evaluated with: the last one before it, 0 if none.
RequestBefore(compiled, i) ==
  CHOOSE j \in 0 .. i - 1 :
    /\ j > 0 => compiled[j].kind = "request"
    /\ \A k \in j + 1 .. i - 1 : compiled[k].kind # "request"

LinearAccepted(compiled, bindings) ==
  \A i \in DOMAIN compiled :
    /\ compiled[i].kind = "assert" => RequestBefore(compiled, i) > 0
    /\ compiled[i].kind = "request" =>
         compiled[i].uses \subseteq
           bindings \cup UNION {Captured(compiled[j]) : j \in 1 .. i - 1}

-----------------------------------------------------------------------------
(* normalizeScenarioSteps.                                                 *)

\* normalizeCaptures: unlike the engine, an empty capture is rejected.
NormalCapturesAccepted(captures) ==
  \A i \in DOMAIN captures : captures[i].name # None /\ captures[i].path # None

NormalStep(step, i, method) ==
  LET request == Kind(step) = "request" IN
  [step EXCEPT !.id = Id(step, i),
               !.kind = Kind(step),
               !.method = IF request THEN Default(@, method) ELSE @,
               !.captures = IF request THEN CompiledCaptures(@) ELSE @]

NormalSteps(steps, method) == [i \in DOMAIN steps |-> NormalStep(steps[i], i, method)]

NormalStepsAccepted(steps, method) ==
  LET normal == NormalSteps(steps, method) IN
  /\ Len(steps) <= MaxScenarioSteps
  /\ steps # <<>> => \E i \in DOMAIN normal : normal[i].kind = "request"
  /\ \A i \in DOMAIN normal :
       /\ normal[i].id # Malformed
       /\ \/ /\ normal[i].kind = "request"
             /\ Given(normal[i].url) /\ Given(normal[i].method)
             /\ \A h \in DOMAIN normal[i].headers : Given(normal[i].headers[h].name)
             /\ NormalCapturesAccepted(steps[i].captures)
          \/ normal[i].kind = "delay" /\ normal[i].delay \in 0 .. MaxDelay
          \/ normal[i].kind = "assertStatus" /\ normal[i].expected # None
          \/ normal[i].kind = "assert" /\ normal[i].assertion.latency \in 0 .. MaxLatency
  /\ \A i, j \in DOMAIN normal : normal[i].id = normal[j].id => i = j
=============================================================================
