----------------------------- MODULE Statistics -----------------------------
(***************************************************************************)
(* The counters of one engine: the run's stripes (stats.go), the counters  *)
(* of each request step (step_stats.go) and of each branch route           *)
(* (branch_stats.go), and what the coordinator makes of a snapshot of them *)
(* (src/internal/distributed/aggregate.go).                                *)
(*                                                                         *)
(* Each counter is an atomic of its own. A request adds to them one after  *)
(* the other, and a snapshot loads them one after the other, so a snapshot *)
(* need not be a state the counters were ever in. A cell is one counter,   *)
(* or a group whose members are only ever summed: the failure kinds, the   *)
(* status codes, the latency buckets, the assertion failures by type.      *)
(* Bytes, latencies and their extremes are data no check relates to the    *)
(* counts. Cells selects the counters an instance follows.                 *)
(***************************************************************************)
EXTENDS Naturals, Sequences, FiniteSetsExt

CONSTANT Cells

RunCells == {"total", "success", "failed", "kinds", "codes", "samples", "buckets"}
StepCells == {"stepTotal", "stepSuccess", "stepFailed", "stepKinds", "stepCodes",
              "stepSamples", "stepBuckets"}
BranchCells == {"branchTotal", "branchSuccess", "branchFailed"}
FailureCells == {"typed", "countOnly", "assertions", "captures", "templates",
                 "stepTyped", "stepCountOnly", "stepAssertions", "stepCaptures",
                 "stepTemplates"}

ASSUME CellsAssumption ==
  /\ Cells # {}
  /\ Cells \subseteq RunCells \cup StepCells \cup BranchCells \cup FailureCells

Followed(cells) == SelectSeq(cells, LAMBDA c : c \in Cells)
Zero == [c \in Cells |-> 0]
Value(counts, c) == IF c \in Cells THEN counts[c] ELSE 0

-----------------------------------------------------------------------------
(* What the engine adds, in order.                                         *)

When(condition, cells) == IF condition THEN cells ELSE <<>>

\* atomicRequestStepStats.recordRequest.
StepRecord(success, coded, sampled) ==
  <<"stepTotal">>
  \o (IF success THEN <<"stepSuccess">> ELSE <<"stepFailed", "stepKinds">>)
  \o When(coded, <<"stepCodes">>) \o When(sampled, <<"stepSamples", "stepBuckets">>)

\* branchRouteStatsShard.recordRequest.
BranchRecord(success) ==
  <<"branchTotal", IF success THEN "branchSuccess" ELSE "branchFailed">>

\* recordSuccessSampled and recordFailureSampled.
RunRecord(success, coded, sampled) ==
  <<"total">> \o (IF success THEN <<"success">> ELSE <<"failed", "kinds">>)
  \o When(coded, <<"codes">>) \o When(sampled, <<"samples", "buckets">>)

\* The three of them as runRequestStep calls them: a request that got no
\* response has failed and has no status code.
RequestRecord(success, coded, sampled) ==
  BranchRecord(success) \o RunRecord(success, coded, sampled)
  \o StepRecord(success, coded, sampled)

\* RecordScenarioAssertionFailure, RecordCaptureFailure, RecordTemplateFailure.
AssertionRecord(countOnly) ==
  <<"typed", IF countOnly THEN "countOnly" ELSE "assertions",
    "stepTyped", IF countOnly THEN "stepCountOnly" ELSE "stepAssertions">>
CaptureRecord == <<"captures", "assertions", "stepCaptures", "stepAssertions">>
TemplateRecord == <<"templates", "assertions", "stepTemplates", "stepAssertions">>

Records ==
  LET requests == {RequestRecord(TRUE, TRUE, l) : l \in BOOLEAN}
                    \cup {RequestRecord(FALSE, c, l) : c, l \in BOOLEAN}
      failures == {AssertionRecord(o) : o \in BOOLEAN} \cup {CaptureRecord, TemplateRecord}
  IN {Followed(r) : r \in requests \cup failures} \ {<<>>}

\* The order in which handleSnapshot loads: AtomicStats.Snapshot, then
\* RequestStepSnapshots, then BranchRouteSnapshots.
LoadOrder ==
  <<"total", "success", "failed", "kinds", "assertions", "typed", "countOnly",
    "captures", "templates", "samples", "buckets", "codes",
    "stepTotal", "stepSuccess", "stepFailed", "stepKinds", "stepAssertions",
    "stepTyped", "stepCountOnly", "stepCaptures", "stepTemplates", "stepSamples",
    "stepBuckets", "stepCodes",
    "branchTotal", "branchSuccess", "branchFailed">>

\* c is the cell that is loaded next when those in left are still to be loaded.
LoadedNext(c, left) ==
  \E i \in DOMAIN LoadOrder :
    LoadOrder[i] = c /\ \A j \in 1..(i - 1) : LoadOrder[j] \notin left

-----------------------------------------------------------------------------
(* What the coordinator does with a snapshot.                              *)

\* validateSnapshotResponse, less the state of the worker.
Consistent(s) ==
  /\ \A c \in {"success", "failed", "samples", "codes"} : Value(s, c) <= Value(s, "total")
  /\ Value(s, "buckets") <= Value(s, "samples")
  /\ \A c \in {"stepSuccess", "stepFailed", "stepSamples", "stepCodes"} :
       Value(s, c) <= Value(s, "stepTotal")
  /\ Value(s, "stepBuckets") <= Value(s, "stepSamples")
  /\ Value(s, "branchSuccess") + Value(s, "branchFailed") = Value(s, "branchTotal")

\* validateMonotonicSnapshot: no cumulative counter moved backwards.
Monotonic(previous, current) == \A c \in Cells : previous[c] <= current[c]

\* aggregateSnapshots: the counters of the workers that have answered, summed.
Aggregate(responses, workers) ==
  [c \in Cells |-> MapThenSumSet(LAMBDA w : responses[w][c], workers)]
=============================================================================
