----------------------- MODULE ArrivalSchedulerProofs -----------------------
(***************************************************************************)
(* Proofs about ArrivalScheduler for any number of preallocated workers,   *)
(* any maxVUs and any number of arrivals. IInv counts: the workers that    *)
(* are at work against liveWorkers, the announced channels against maxVUs, *)
(* the arrivals against where each one went. Most steps leave most of it   *)
(* alone; the pool may grow because a worker that left since the drain is  *)
(* still counted as live.                                                  *)
(*                                                                         *)
(* First what the sequences of jobs channels hold, then the parts of IInv  *)
(* a step leaves alone, then one lemma per action.                         *)
(***************************************************************************)
EXTENDS ArrivalScheduler, FiniteSetTheorems, SequenceTheorems, TLAPS

\* A sequence to which an element is appended.
LEMMA AppendElements ==
  ASSUME NEW S, NEW s \in Seq(S), NEW e \in S
  PROVE  /\ Append(s, e) \in Seq(S)
         /\ ToSet(Append(s, e)) = ToSet(s) \cup {e}
         /\ Len(Append(s, e)) = Len(s) + 1
         /\ IsInjective(s) /\ e \notin ToSet(s) => IsInjective(Append(s, e))
<1>1. /\ Append(s, e) \in Seq(S) /\ Len(Append(s, e)) = Len(s) + 1
      /\ DOMAIN s = 1 .. Len(s) /\ DOMAIN Append(s, e) = 1 .. Len(s) + 1
      /\ \A i \in 1 .. Len(s) : Append(s, e)[i] = s[i]
      /\ Append(s, e)[Len(s) + 1] = e
      /\ Len(s) \in Nat
  OBVIOUS
<1>2. ToSet(Append(s, e)) = ToSet(s) \cup {e}
  BY <1>1 DEF ToSet
<1>3. ASSUME IsInjective(s), e \notin ToSet(s) PROVE IsInjective(Append(s, e))
  BY <1>1, <1>3 DEF IsInjective, ToSet
<1> QED BY <1>1, <1>2, <1>3

\* The first of a sequence without repetition, and the rest.
LEMMA TailElements ==
  ASSUME NEW S, NEW s \in Seq(S), s # <<>>, IsInjective(s)
  PROVE  /\ Head(s) \in S /\ Tail(s) \in Seq(S) /\ Len(Tail(s)) = Len(s) - 1
         /\ ToSet(s) = ToSet(Tail(s)) \cup {Head(s)} /\ Head(s) \notin ToSet(Tail(s))
         /\ IsInjective(Tail(s))
<1>1. /\ Len(s) \in Nat \ {0} /\ Tail(s) \in Seq(S) /\ Len(Tail(s)) = Len(s) - 1
      /\ DOMAIN s = 1 .. Len(s) /\ DOMAIN Tail(s) = 1 .. Len(s) - 1
      /\ \A i \in 1 .. Len(s) - 1 : Tail(s)[i] = s[i + 1]
      /\ Head(s) = s[1] /\ Head(s) \in S
  OBVIOUS
<1>2. \A i \in 2 .. Len(s) : s[i] = Tail(s)[i - 1] /\ i - 1 \in 1 .. Len(s) - 1
  BY <1>1
<1>3. ToSet(s) = ToSet(Tail(s)) \cup {Head(s)}
  <2>1. ASSUME NEW i \in 1 .. Len(s) PROVE s[i] \in ToSet(Tail(s)) \cup {Head(s)}
    <3>1. CASE i = 1 BY <1>1, <3>1
    <3>2. CASE i # 1
      <4>1. i \in 2 .. Len(s) BY <3>2
      <4> QED BY <1>1, <1>2, <4>1 DEF ToSet
    <3> QED BY <3>1, <3>2
  <2>2. ASSUME NEW i \in 1 .. Len(s) - 1 PROVE Tail(s)[i] \in ToSet(s)
    BY <1>1 DEF ToSet
  <2> QED BY <1>1, <2>1, <2>2 DEF ToSet
<1>4. Head(s) \notin ToSet(Tail(s)) BY <1>1 DEF IsInjective, ToSet
<1>5. IsInjective(Tail(s)) BY <1>1 DEF IsInjective
<1> QED BY <1>1, <1>3, <1>4, <1>5

\* The last of a sequence without repetition, and the rest.
LEMMA FrontElements ==
  ASSUME NEW S, NEW s \in Seq(S), s # <<>>, IsInjective(s)
  PROVE  /\ s[Len(s)] \in S /\ SubSeq(s, 1, Len(s) - 1) \in Seq(S)
         /\ ToSet(s) = ToSet(SubSeq(s, 1, Len(s) - 1)) \cup {s[Len(s)]}
         /\ s[Len(s)] \notin ToSet(SubSeq(s, 1, Len(s) - 1))
         /\ IsInjective(SubSeq(s, 1, Len(s) - 1))
<1> DEFINE f == SubSeq(s, 1, Len(s) - 1)
           l == s[Len(s)]
<1>0. f = SubSeq(s, 1, Len(s) - 1) /\ l = s[Len(s)] OBVIOUS
<1> HIDE DEF f, l
<1>1. /\ Len(s) \in Nat \ {0} /\ f \in Seq(S) /\ Len(f) = Len(s) - 1
      /\ DOMAIN s = 1 .. Len(s) /\ DOMAIN f = 1 .. Len(s) - 1
      /\ \A i \in 1 .. Len(s) - 1 : f[i] = s[i]
      /\ l \in S
  <2>1. Len(s) \in Nat \ {0} /\ DOMAIN s = 1 .. Len(s) OBVIOUS
  <2>2. Len(s) - 1 \in Nat /\ \A i \in 1 .. Len(s) - 1 : i \in 1 .. Len(s) /\ s[i] \in S
    BY <2>1
  <2>3. l \in S BY <1>0, <2>1
  <2>4. /\ f \in Seq(S) /\ Len(f) = IF 1 <= Len(s) - 1 THEN Len(s) - 1 - 1 + 1 ELSE 0
        /\ \A i \in 1 .. Len(s) - 1 - 1 + 1 : f[i] = s[1 + i - 1]
    BY ONLY <1>0, <2>2, SubSeqProperties
  <2>5. /\ f \in Seq(S) /\ Len(f) = Len(s) - 1
        /\ \A i \in 1 .. Len(s) - 1 : f[i] = s[i]
    <3>1. Len(s) - 1 - 1 + 1 = Len(s) - 1 BY ONLY <2>1
    <3>2. \A i \in 1 .. Len(s) - 1 : 1 + i - 1 = i BY ONLY <2>1
    <3>3. \A i \in 1 .. Len(s) - 1 : f[i] = s[i] BY ONLY <2>4, <3>1, <3>2
    <3>4. Len(f) = Len(s) - 1
      <4>1. CASE 1 <= Len(s) - 1 BY ONLY <2>4, <3>1, <4>1
      <4>2. CASE ~(1 <= Len(s) - 1)
        <5>1. Len(s) - 1 = 0 BY ONLY <2>1, <4>2
        <5> QED BY ONLY <2>4, <4>2, <5>1
      <4> QED BY <4>1, <4>2
    <3> QED BY ONLY <2>4, <3>3, <3>4
  <2>6. DOMAIN f = 1 .. Len(s) - 1 BY ONLY <2>5
  <2> QED BY <2>1, <2>3, <2>5, <2>6
<1>2. ToSet(s) = ToSet(f) \cup {l}
  <2>1. ASSUME NEW i \in 1 .. Len(s) PROVE s[i] \in ToSet(f) \cup {l}
    <3>1. CASE i = Len(s) BY <1>0, <3>1
    <3>2. CASE i # Len(s)
      <4>1. i \in 1 .. Len(s) - 1
        <5>1. Len(s) \in Nat OBVIOUS
        <5> QED BY ONLY <3>2, <5>1, i \in 1 .. Len(s)
      <4> QED BY <1>1, <4>1 DEF ToSet
    <3> QED BY <3>1, <3>2
  <2>2. ASSUME NEW i \in 1 .. Len(s) - 1 PROVE f[i] \in ToSet(s)
    BY <1>1 DEF ToSet
  <2>3. l \in ToSet(s) BY <1>0, <1>1 DEF ToSet
  <2> QED BY <1>1, <2>1, <2>2, <2>3 DEF ToSet
<1>3. l \notin ToSet(f) BY <1>0, <1>1 DEF IsInjective, ToSet
<1>4. IsInjective(f) BY <1>1 DEF IsInjective
<1> QED BY <1>0, <1>1, <1>2, <1>3, <1>4

\* A sequence without repetition is as long as the set of its elements is large.
LEMMA InjectiveLength ==
  ASSUME NEW S, NEW s \in Seq(S), IsInjective(s)
  PROVE  IsFiniteSet(ToSet(s)) /\ Cardinality(ToSet(s)) = Len(s)
<1>1. Len(s) \in Nat /\ DOMAIN s = 1 .. Len(s) /\ s \in [1 .. Len(s) -> S] OBVIOUS
<1>2. s \in Bijection(1 .. Len(s), ToSet(s))
  BY <1>1 DEF Bijection, Injection, Surjection, IsInjective, ToSet
<1>3. ExistsBijection(1 .. Len(s), ToSet(s)) BY <1>2 DEF ExistsBijection
<1> QED BY <1>1, <1>3, FS_CountingElements, FS_NatBijection

-----------------------------------------------------------------------------
(* The sets that IInv counts, and what a step of a worker does to them.    *)

LEMMA WorkersFinite == IsFiniteSet(Workers)
BY WorkersAssumption, TotalAssumption, FS_Interval DEF Workers

LEMMA SetsFinite ==
  ASSUME TypeOK
  PROVE  /\ IsFiniteSet(Working) /\ Cardinality(Working) \in Nat
         /\ IsFiniteSet(Fresh) /\ Cardinality(Fresh) \in Nat
         /\ Held \subseteq Workers /\ IsFiniteSet(Held \cup Working)
         /\ IsFiniteSet(ToSet(ready)) /\ IsFiniteSet(ToSet(idle))
<1>1. Working \subseteq Workers /\ Fresh \subseteq Workers BY DEF Working, Fresh
<1>2. ToSet(idle) \subseteq Workers /\ ToSet(ready) \subseteq Workers BY DEF TypeOK, ToSet
<1>3. Held \subseteq Workers BY <1>2 DEF TypeOK, Held
<1>4. Held \cup Working \subseteq Workers BY <1>1, <1>3
<1> QED BY <1>1, <1>2, <1>3, <1>4, WorkersFinite, FS_Subset, FS_CardinalityType

\* What a worker's step does to the sets of workers.
LEMMA WorkerMoves ==
  ASSUME TypeOK, NEW w \in Workers,
         NEW to \in {"initial", "iterate", "offer", "await", "leave", "exit"},
         worker' = [worker EXCEPT ![w] = to]
  PROVE  /\ worker' \in [Workers -> {"none", "initial", "iterate", "offer", "await", "leave",
                                     "exit"}]
         /\ worker'[w] = to /\ \A v \in Workers \ {w} : worker'[v] = worker[v]
         /\ Working' = IF to = "exit" THEN Working \ {w} ELSE Working \cup {w}
         /\ Fresh' = IF to = "initial" THEN Fresh \cup {w} ELSE Fresh \ {w}
         /\ Announced' = IF to = "await" THEN Announced \cup {w} ELSE Announced \ {w}
<1>1. /\ worker' \in [Workers -> {"none", "initial", "iterate", "offer", "await", "leave", "exit"}]
      /\ worker'[w] = to /\ \A v \in Workers \ {w} : worker'[v] = worker[v]
  BY DEF TypeOK
<1>2. Working' = IF to = "exit" THEN Working \ {w} ELSE Working \cup {w} BY <1>1 DEF Working
<1>3. Fresh' = IF to = "initial" THEN Fresh \cup {w} ELSE Fresh \ {w} BY <1>1 DEF Fresh
<1>4. Announced' = IF to = "await" THEN Announced \cup {w} ELSE Announced \ {w}
  BY <1>1 DEF Announced
<1> QED BY <1>1, <1>2, <1>3, <1>4

-----------------------------------------------------------------------------
(* The parts a step leaves alone.                                          *)

LEMMA Shift ==
  \A a, b, c, x, y, z \in Nat : a + b <= x + y /\ c + y <= b + z => a + c <= x + z
OBVIOUS

LEMMA PoolRests ==
  ASSUME IInv, UNCHANGED <<worker, nextWorker, liveWorkers, done>>,
         count' + scheduled <= count + scheduled', count' \in Nat, scheduled' \in Nat
  PROVE  PoolOK'
<1>1. count \in Nat /\ scheduled \in Nat /\ nextWorker \in Nat BY DEF IInv, TypeOK
<1>2. PreAllocatedVUs \in Nat BY WorkersAssumption
<1>3. nextWorker + count <= PreAllocatedVUs + scheduled BY DEF IInv, PoolOK
<1>4. nextWorker' + count' <= PreAllocatedVUs + scheduled'
  <2>1. nextWorker' = nextWorker OBVIOUS
  <2>2. count' \in Nat /\ scheduled' \in Nat /\ count' + scheduled <= count + scheduled'
    OBVIOUS
  <2> QED BY ONLY <1>1, <1>2, <1>3, <2>1, <2>2, Shift
<1>5. Working' = Working BY DEF Working
<1> QED BY <1>4, <1>5 DEF IInv, PoolOK

LEMMA CountRests ==
  ASSUME IInv, UNCHANGED <<begun, dropped, count, worker, scheduled, aborted>>
  PROVE  CountOK'
BY DEF IInv, CountOK, Fresh

LEMMA HeldRests ==
  ASSUME IInv, UNCHANGED <<idle, ready, target, worker>>,
         ctxDone => ctxDone', stopped => stopped',
         sched' \in {"dispatch", "handoff"} =>
           done' = done /\ (sched \in {"dispatch", "handoff"} \/ ready = <<>>)
  PROVE  HeldOK'
<1>1. Held' = Held /\ Working' = Working BY DEF Held, Working
<1>2. ASSUME sched' \in {"dispatch", "handoff"}
      PROVE  Cardinality(ToSet(ready) \ Working) <= done
  <2>1. CASE sched \in {"dispatch", "handoff"} BY <2>1 DEF IInv, HeldOK
  <2>2. CASE ready = <<>>
    <3>1. ToSet(ready) \ Working = {} BY <2>2 DEF ToSet
    <3>2. Cardinality(ToSet(ready) \ Working) = 0 BY <3>1, FS_EmptySet
    <3>3. 0 <= done BY DEF IInv, TypeOK
    <3> QED BY <3>2, <3>3
  <2> QED BY <1>2, <2>1, <2>2
<1> QED BY <1>1, <1>2 DEF IInv, HeldOK

LEMMA WaitingRests ==
  ASSUME IInv, UNCHANGED <<idle, ready, target, worker, waiting, aborted>>,
         \/ sched' = sched \/ sched' \notin Dispatching
         \/ sched' = "dispatch" /\ sched \in Dispatching /\ ready = <<>>
  PROVE  WaitingOK'
<1>1. Held' = Held /\ Announced' = Announced BY DEF Held, Announced
<1>2. CASE sched' = sched \/ sched' \notin Dispatching
  BY <1>1, <1>2 DEF IInv, WaitingOK, Dispatching
<1>3. CASE sched' = "dispatch" /\ sched \in Dispatching /\ ready = <<>>
  <2>1. ToSet(ready) = {} BY <1>3 DEF ToSet
  <2> QED BY <1>1, <1>3, <2>1 DEF IInv, WaitingOK, Dispatching
<1> QED BY <1>2, <1>3

-----------------------------------------------------------------------------
(* The scheduler collects announcements and completions.                   *)

\* An announced channel moves from ready to the stack.
LEMMA TakeReadyKeeps ==
  ASSUME IInv, TakeReady, sched \notin {"dispatch", "handoff"},
         sched' = sched, CollectFrame
  PROVE  IInv'
<1> USE DEF IInv
<1>1. /\ UNCHANGED <<sched, scheduled, count, target, deadline, nextWorker, stopped, ctxDone,
                     worker, dropped, begun, aborted, waiting, done, liveWorkers>>
      /\ ready # <<>> /\ idle' = Append(idle, Head(ready)) /\ ready' = Tail(ready)
  BY DEF TakeReady, CollectFrame, historyVars
<1>2. idle \in Seq(Workers) /\ ready \in Seq(Workers) /\ IsInjective(idle) /\ IsInjective(ready)
  BY DEF TypeOK, HeldOK
<1>3. /\ Head(ready) \in Workers /\ ready' \in Seq(Workers) /\ Len(ready') = Len(ready) - 1
      /\ ToSet(ready) = ToSet(ready') \cup {Head(ready)} /\ Head(ready) \notin ToSet(ready')
      /\ IsInjective(ready')
  BY <1>1, <1>2, TailElements
<1>4. Head(ready) \notin ToSet(idle) BY <1>3 DEF HeldOK
<1>5. /\ idle' \in Seq(Workers) /\ ToSet(idle') = ToSet(idle) \cup {Head(ready)}
      /\ IsInjective(idle')
  BY <1>1, <1>2, <1>3, <1>4, AppendElements
<1>6. TypeOK'
  <2>1. Len(ready') <= MaxVUs
    <3>1. Len(ready) <= MaxVUs BY DEF TypeOK
    <3> QED BY <1>2, <1>3, <3>1, WorkersAssumption
  <2> QED BY <1>1, <1>3, <1>5, <2>1 DEF TypeOK
<1>7. PhaseOK' BY <1>1 DEF PhaseOK
<1>8. PoolOK' BY <1>1, PoolRests DEF TypeOK
<1>9. CountOK' BY <1>1, CountRests
<1>10. Held' = Held /\ Working' = Working /\ Announced' = Announced
  BY <1>1, <1>3, <1>5 DEF Held, Working, Announced
<1>11. HeldOK'
  <2>1. ToSet(idle') \cap ToSet(ready') = {} BY <1>3, <1>5 DEF HeldOK
  <2>2. target' \notin ToSet(idle') \cup ToSet(ready') BY <1>1, <1>3, <1>5 DEF HeldOK
  <2> QED BY <1>1, <1>3, <1>5, <1>10, <2>1, <2>2 DEF HeldOK
<1>12. WaitingOK' BY <1>1, <1>3, <1>5, <1>10 DEF WaitingOK
<1> QED BY <1>6, <1>7, <1>8, <1>9, <1>11, <1>12

\* A completion is counted out.
LEMMA TakeDoneKeeps ==
  ASSUME IInv, TakeDone, sched \notin {"dispatch", "handoff"},
         UNCHANGED <<sched, scheduled, count, target, deadline, nextWorker, stopped, ctxDone,
                     worker, dropped, begun, aborted, waiting>>
  PROVE  IInv'
<1> USE DEF IInv
<1>1. done > 0 /\ done' = done - 1 /\ liveWorkers' = liveWorkers - 1 /\ UNCHANGED <<idle, ready>>
  BY DEF TakeDone
<1>2. Working' = Working /\ Cardinality(Working) \in Nat BY SetsFinite DEF Working
<1>3. done \in Nat /\ liveWorkers \in Nat /\ liveWorkers = done + Cardinality(Working)
  BY DEF TypeOK, PoolOK
<1>4. TypeOK'
  <2>1. done' \in 0 .. MaxVUs /\ liveWorkers' \in 0 .. MaxVUs
    BY <1>1, <1>2, <1>3, WorkersAssumption DEF TypeOK
  <2> QED BY <1>1, <2>1 DEF TypeOK
<1>5. PhaseOK' BY DEF PhaseOK
<1>6. PoolOK'
  <2>1. liveWorkers' = done' + Cardinality(Working') BY <1>1, <1>2, <1>3
  <2> QED BY <2>1 DEF PoolOK
<1>7. HeldOK' BY <1>1, HeldRests
<1>8. CountOK' BY CountRests
<1>9. WaitingOK' BY <1>1, WaitingRests
<1> QED BY <1>4, <1>5, <1>6, <1>7, <1>8, <1>9

\* Steps that only move the scheduler on, stop the workers or cancel the run.
LEMMA ControlKeeps ==
  ASSUME IInv,
         UNCHANGED <<scheduled, count, target, idle, ready, done, liveWorkers, nextWorker, worker,
                     dropped, begun, aborted, waiting>>,
         sched' \in {"gather", "select", "drainReady", "dispatch", "handoff", "stop", "wait",
                    "returned"},
         deadline' \in BOOLEAN, stopped' \in BOOLEAN, ctxDone' \in BOOLEAN,
         ctxDone => ctxDone', stopped => stopped',
         \/ sched' = sched \/ sched' \notin Dispatching
         \/ sched' = "dispatch" /\ sched = "drainReady" /\ ready = <<>>,
         PhaseOK'
  PROVE  IInv'
<1>1. TypeOK' BY DEF IInv, TypeOK
<1>2. PoolOK' BY PoolRests DEF IInv, TypeOK
<1>3. HeldOK' BY HeldRests DEF Dispatching
<1>4. CountOK' BY CountRests
<1>5. WaitingOK' BY WaitingRests DEF Dispatching
<1> QED BY <1>1, <1>2, <1>3, <1>4, <1>5 DEF IInv

LEMMA GatherKeeps == ASSUME IInv, Gather PROVE IInv'
<1>1. CASE TakeReady /\ sched' = sched BY <1>1, TakeReadyKeeps DEF Gather
<1>2. CASE sched' = "select"
  <2>1. UNCHANGED <<scheduled, count, target, deadline, idle, ready, done, liveWorkers, nextWorker,
                    stopped, ctxDone, worker, dropped, begun, aborted, waiting>>
    BY <1>2 DEF Gather, CollectFrame, channelVars, historyVars
  <2>2. PhaseOK' BY <1>2, <2>1 DEF IInv, PhaseOK, Gather, Dispatching
  <2> QED BY <1>2, <2>1, <2>2, ControlKeeps DEF IInv, TypeOK, Dispatching
<1> QED BY <1>1, <1>2 DEF Gather

LEMMA CollectKeeps == ASSUME IInv, Collect PROVE IInv'
BY TakeReadyKeeps, TakeDoneKeeps DEF Collect, CollectFrame, historyVars

LEMMA AwaitWorkerKeeps == ASSUME IInv, AwaitWorker PROVE IInv'
BY TakeDoneKeeps DEF AwaitWorker, DrainFrame, historyVars

-----------------------------------------------------------------------------
(* Dispatch.                                                               *)

LEMMA DispatchKeeps ==
  ASSUME IInv, NEW expected \in Nat, scheduled < expected, expected <= Total,
         sched = "select", Dispatch(expected),
         deadline' \in BOOLEAN, deadline' => expected = Total
  PROVE  IInv'
<1> USE DEF IInv
<1>1. /\ count' = expected - scheduled /\ scheduled' = expected /\ waiting' = Announced
      /\ sched' = "drainReady"
      /\ UNCHANGED <<target, idle, ready, done, liveWorkers, nextWorker, stopped, ctxDone, worker,
                     dropped, begun, aborted>>
  BY DEF Dispatch, channelVars
<1>2. /\ count = 0 /\ target = 0 /\ scheduled \in Nat /\ expected - scheduled \in 0 .. Total
      /\ ~stopped
  BY TotalAssumption DEF PhaseOK, TypeOK, Dispatching
<1>3. TypeOK' BY <1>1, <1>2, TotalAssumption DEF TypeOK, Announced
<1>4. PhaseOK' BY <1>1, <1>2 DEF PhaseOK, Dispatching
<1>5. PoolOK'
  <2>1. count' + scheduled <= count + scheduled' BY <1>1, <1>2
  <2> QED BY <1>1, <1>2, <2>1, PoolRests
<1>6. HeldOK' BY <1>1, HeldRests
<1>7. CountOK'
  <2>1. Fresh' = Fresh /\ Cardinality(Fresh) \in Nat BY <1>1, SetsFinite DEF Fresh
  <2>2. begun \in Nat /\ dropped \in Nat BY DEF TypeOK
  <2> QED BY <1>1, <1>2, <2>1, <2>2 DEF CountOK
<1>8. WaitingOK'
  <2>1. Held' = Held /\ Announced' = Announced BY <1>1 DEF Held, Announced
  <2>2. Held = ToSet(idle) \cup ToSet(ready) BY <1>2 DEF Held
  <2> QED BY <1>1, <2>1, <2>2 DEF WaitingOK
<1> QED BY <1>3, <1>4, <1>5, <1>6, <1>7, <1>8

LEMMA TickKeeps == ASSUME IInv, Tick PROVE IInv'
<1>1. PICK expected \in scheduled + 1 .. Total : Dispatch(expected) BY DEF Tick
<1>2. /\ expected \in Nat /\ scheduled < expected /\ expected <= Total /\ sched = "select"
      /\ deadline' = deadline
  BY TotalAssumption DEF Tick, IInv, TypeOK
<1>3. deadline' \in BOOLEAN /\ (deadline' => expected = Total)
  BY <1>2, TotalAssumption DEF IInv, PhaseOK, TypeOK
<1> QED BY <1>1, <1>2, <1>3, DispatchKeeps

LEMMA DeadlineKeeps == ASSUME IInv, Deadline PROVE IInv'
<1>1. sched = "select" /\ deadline' = TRUE /\ scheduled \in 0 .. Total
  BY DEF Deadline, IInv, TypeOK
<1>2. CASE scheduled < Total
  <2>1. Dispatch(Total) BY <1>2 DEF Deadline
  <2> QED BY <1>1, <1>2, <2>1, TotalAssumption, DispatchKeeps
<1>3. CASE ~(scheduled < Total)
  <2>1. /\ sched' = "stop"
        /\ UNCHANGED <<scheduled, count, target, idle, ready, done, liveWorkers, nextWorker,
                       stopped, ctxDone, worker, dropped, begun, aborted, waiting>>
    BY <1>3 DEF Deadline, channelVars, historyVars
  <2>2. scheduled = Total BY <1>1, <1>3, TotalAssumption
  <2>3. PhaseOK' BY <1>1, <2>1, <2>2 DEF IInv, PhaseOK, Dispatching
  <2> QED BY <1>1, <2>1, <2>3, ControlKeeps DEF IInv, TypeOK, Dispatching
<1> QED BY <1>2, <1>3

LEMMA DrainedKeeps == ASSUME IInv, Drained PROVE IInv'
<1>1. /\ sched = "drainReady" /\ sched' = "dispatch" /\ ready = <<>>
      /\ UNCHANGED <<scheduled, count, target, deadline, idle, ready, done, liveWorkers, nextWorker,
                     stopped, ctxDone, worker, dropped, begun, aborted, waiting>>
  BY DEF Drained, CollectFrame, channelVars, historyVars
<1>2. PhaseOK' BY <1>1 DEF IInv, PhaseOK, Dispatching
<1> QED BY <1>1, <1>2, ControlKeeps DEF IInv, TypeOK

\* The channel announced last moves from the stack into the scheduler's hand.
LEMMA PopIdlePreserves == ASSUME IInv, PopIdle PROVE IInv'
<1> USE DEF IInv
<1>1. /\ sched = "dispatch" /\ sched' = "handoff" /\ idle # <<>> /\ count > 0
      /\ target' = idle[Len(idle)] /\ idle' = SubSeq(idle, 1, Len(idle) - 1)
      /\ UNCHANGED <<scheduled, count, deadline, ready, done, liveWorkers, nextWorker, stopped,
                     ctxDone, worker, dropped, begun, aborted, waiting>>
  BY DEF PopIdle, channelVars, historyVars
<1>2. idle \in Seq(Workers) /\ IsInjective(idle) /\ target = 0 BY <1>1 DEF TypeOK, HeldOK, PhaseOK
<1>3. /\ target' \in Workers /\ idle' \in Seq(Workers)
      /\ ToSet(idle) = ToSet(idle') \cup {target'} /\ target' \notin ToSet(idle')
      /\ IsInjective(idle')
  BY <1>1, <1>2, FrontElements
<1>4. target' # 0 BY <1>3 DEF Workers
<1>5. Held' = Held /\ Working' = Working /\ Announced' = Announced
  BY <1>1, <1>2, <1>3, <1>4 DEF Held, Working, Announced
<1>6. TypeOK' BY <1>1, <1>3 DEF TypeOK
<1>7. PhaseOK' BY <1>1, <1>3 DEF PhaseOK, Dispatching
<1>8. PoolOK' BY <1>1, PoolRests DEF TypeOK
<1>9. CountOK' BY <1>1, CountRests
<1>10. HeldOK'
  <2>1. /\ ToSet(idle') \cap ToSet(ready') = {}
        /\ target' \notin ToSet(idle') \cup ToSet(ready')
    BY <1>1, <1>3 DEF HeldOK
  <2> QED BY <1>1, <1>3, <1>5, <2>1 DEF HeldOK
<1>11. WaitingOK' BY <1>1, <1>2, <1>3, <1>4, <1>5 DEF WaitingOK
<1> QED BY <1>6, <1>7, <1>8, <1>9, <1>10, <1>11

\* The worker at the other end of the channel takes the job.
LEMMA HandoffKeeps == ASSUME IInv, Handoff PROVE IInv'
<1> USE DEF IInv
<1>1. /\ sched = "handoff" /\ sched' = "dispatch" /\ worker[target] = "await" /\ target' = 0
      /\ worker' = [worker EXCEPT ![target] = "iterate"] /\ begun' = begun + 1
      /\ waiting' = waiting \ {target} /\ count' = count - 1
      /\ UNCHANGED <<scheduled, deadline, idle, ready, done, liveWorkers, nextWorker, stopped,
                     ctxDone, dropped, aborted>>
  BY DEF Handoff, channelVars
<1>2. /\ target \in Workers /\ count > 0 /\ count \in Nat /\ begun \in Nat /\ dropped \in Nat
      /\ scheduled \in 0 .. Total
  BY <1>1 DEF PhaseOK, TypeOK
<1>3. /\ worker' \in [Workers -> {"none", "initial", "iterate", "offer", "await", "leave", "exit"}]
      /\ worker'[target] = "iterate" /\ \A v \in Workers \ {target} : worker'[v] = worker[v]
      /\ Working' = Working \cup {target} /\ Fresh' = Fresh \ {target}
      /\ Announced' = Announced \ {target}
  BY <1>1, <1>2, WorkerMoves
<1>4. target \in Working /\ target \notin Fresh BY <1>1, <1>2 DEF Working, Fresh
<1>5. Working' = Working /\ Fresh' = Fresh BY <1>3, <1>4
<1>6. Held' = ToSet(idle) \cup ToSet(ready) /\ Held = Held' \cup {target} /\ target \notin Held'
  <2>1. target # 0 BY <1>2 DEF Workers
  <2> QED BY <1>1, <2>1 DEF Held, HeldOK
<1>7. CountOK'
  <2>1. Cardinality(Fresh) \in Nat BY SetsFinite
  <2> QED BY <1>1, <1>2, <1>5, <2>1 DEF CountOK
<1>8. TypeOK'
  <2>1. begun' \in 0 .. Total /\ count' \in 0 .. Total
    <3>1. Cardinality(Fresh') \in Nat BY <1>5, SetsFinite
    <3>2. begun' + dropped' + count' + Cardinality(Fresh') <= scheduled' BY <1>7 DEF CountOK
    <3> QED BY <1>1, <1>2, <3>1, <3>2, TotalAssumption
  <2> QED BY <1>1, <1>3, <2>1 DEF TypeOK
<1>9. PhaseOK' BY <1>1 DEF PhaseOK, Dispatching
<1>10. PoolOK'
  <2>1. nextWorker' + count' <= PreAllocatedVUs + scheduled'
    <3>1. nextWorker + count <= PreAllocatedVUs + scheduled /\ nextWorker \in Nat
      BY DEF PoolOK, TypeOK
    <3> QED BY <1>1, <1>2, <3>1, WorkersAssumption
  <2>2. \A w \in Workers : worker'[w] = "none" <=> w > nextWorker'
    BY <1>1, <1>2, <1>3 DEF PoolOK
  <2> QED BY <1>1, <1>5, <2>1, <2>2 DEF PoolOK
<1>11. HeldOK'
  <2>1. target' \notin ToSet(idle) \cup ToSet(ready)
    BY <1>1, SetsFinite DEF TypeOK, Held, Workers
  <2>2. \A w \in Held' : worker'[w] = "await" \/ (worker'[w] \in Gone /\ (ctxDone' \/ stopped'))
    BY <1>1, <1>3, <1>6, SetsFinite DEF HeldOK
  <2>3. Held' \cup Working' = Held \cup Working BY <1>4, <1>5, <1>6
  <2> QED BY <1>1, <1>5, <2>1, <2>2, <2>3 DEF HeldOK
<1>12. WaitingOK' BY <1>1, <1>3, <1>6 DEF WaitingOK
<1> QED BY <1>7, <1>8, <1>9, <1>10, <1>11, <1>12

\* A cancelled dispatch leaves its arrivals, and the channel in its hand, behind.
LEMMA HandoffCancelledKeeps == ASSUME IInv, HandoffCancelled PROVE IInv'
<1> USE DEF IInv
<1>1. /\ sched = "handoff" /\ sched' = AfterDispatch /\ aborted' = TRUE
      /\ count' = 0 /\ target' = 0
      /\ UNCHANGED <<scheduled, deadline, idle, ready, done, liveWorkers, nextWorker, stopped,
                     ctxDone, worker, dropped, begun, waiting>>
  BY DEF HandoffCancelled, channelVars
<1>2. sched' \in {"select", "stop"} /\ (sched' = "stop" => deadline)
  BY <1>1 DEF AfterDispatch
<1>3. count \in Nat /\ scheduled \in Nat BY DEF TypeOK
<1>4. TypeOK' BY <1>1, <1>2, TotalAssumption DEF TypeOK
<1>5. PhaseOK' BY <1>1, <1>2 DEF PhaseOK, Dispatching
<1>6. PoolOK' BY <1>1, <1>3, PoolRests
<1>7. Held' \subseteq Held /\ Working' = Working BY <1>1 DEF Held, Working
<1>8. HeldOK'
  <2>1. 0 \notin ToSet(idle) \cup ToSet(ready) BY SetsFinite DEF Held, Workers
  <2>2. Cardinality(Held' \cup Working') <= MaxVUs
    <3>1. IsFiniteSet(Held \cup Working) /\ Cardinality(Held \cup Working) <= MaxVUs
      BY SetsFinite DEF HeldOK
    <3>2. Held' \cup Working' \subseteq Held \cup Working BY <1>7
    <3>3. Cardinality(Held \cup Working) \in Nat BY <3>1, FS_CardinalityType
    <3>4. /\ Cardinality(Held' \cup Working') \in Nat
          /\ Cardinality(Held' \cup Working') <= Cardinality(Held \cup Working)
      BY <3>1, <3>2, FS_Subset, FS_CardinalityType
    <3> QED BY <3>1, <3>3, <3>4, WorkersAssumption
  <2> QED BY <1>1, <1>2, <1>7, <2>1, <2>2 DEF HeldOK
<1>9. CountOK'
  <2>1. Fresh' = Fresh /\ Cardinality(Fresh) \in Nat BY <1>1, SetsFinite DEF Fresh
  <2>2. begun \in Nat /\ dropped \in Nat BY DEF TypeOK
  <2> QED BY <1>1, <1>3, <2>1, <2>2 DEF CountOK
<1>10. WaitingOK' BY <1>1 DEF WaitingOK
<1> QED BY <1>4, <1>5, <1>6, <1>8, <1>9, <1>10

\* A worker more: it fits, as the announced channels and the workers at work
\* together are no more than the live ones.
LEMMA GrowPoolKeeps == ASSUME IInv, GrowPool PROVE IInv'
<1> USE DEF IInv
<1> DEFINE w == nextWorker + 1
<1>1. /\ sched = "dispatch" /\ count > 0 /\ idle = <<>> /\ liveWorkers < MaxVUs
      /\ nextWorker' = w /\ liveWorkers' = liveWorkers + 1 /\ count' = count - 1
      /\ worker' = [worker EXCEPT ![w] = "initial"]
      /\ UNCHANGED <<sched, scheduled, target, deadline, idle, ready, done, stopped, ctxDone,
                     dropped, begun, aborted, waiting>>
  BY DEF GrowPool, HasCapacity, channelVars, historyVars
<1>2. /\ count \in 0 .. Total /\ scheduled \in 0 .. Total /\ nextWorker \in Nat
      /\ liveWorkers \in 0 .. MaxVUs /\ done \in Nat /\ begun \in Nat /\ dropped \in Nat
  BY DEF TypeOK
<1>3. nextWorker + count <= PreAllocatedVUs + scheduled BY DEF PoolOK
<1>4. w \in Workers /\ w \in 0 .. PreAllocatedVUs + Total
  <2>1. w <= PreAllocatedVUs + Total
    BY <1>1, <1>2, <1>3, WorkersAssumption, TotalAssumption
  <2> QED BY <1>2, <2>1, WorkersAssumption, TotalAssumption DEF Workers
<1>5. worker[w] = "none" BY <1>2, <1>4 DEF PoolOK
<1>6. w \notin Working /\ w \notin Fresh /\ w \notin Held
  BY <1>5 DEF Working, Fresh, HeldOK, Gone
<1> HIDE DEF w
<1>7. /\ worker' \in [Workers -> {"none", "initial", "iterate", "offer", "await", "leave", "exit"}]
      /\ worker'[w] = "initial" /\ \A v \in Workers \ {w} : worker'[v] = worker[v]
      /\ Working' = Working \cup {w} /\ Fresh' = Fresh \cup {w} /\ Announced' = Announced \ {w}
  BY <1>1, <1>4, WorkerMoves
<1>8. /\ Cardinality(Working') = Cardinality(Working) + 1 /\ Cardinality(Working) \in Nat
      /\ Cardinality(Fresh') = Cardinality(Fresh) + 1 /\ Cardinality(Fresh) \in Nat
  BY <1>6, <1>7, SetsFinite, FS_AddElement
<1>9. Held = ToSet(ready) /\ Held' = ToSet(ready)
  BY <1>1 DEF Held, ToSet, PhaseOK
<1>10. TypeOK'
  <2>1. liveWorkers' \in 0 .. MaxVUs /\ count' \in 0 .. Total
    BY <1>1, <1>2, WorkersAssumption, TotalAssumption
  <2> QED BY <1>1, <1>4, <1>7, <2>1 DEF TypeOK
<1>11. PhaseOK' BY <1>1 DEF PhaseOK, Dispatching
<1>12. PoolOK'
  <2>1. \A v \in Workers : worker'[v] = "none" <=> v > w
    <3>1. w = nextWorker + 1 BY DEF w
    <3>2. \A v \in Workers : v \in Nat BY DEF Workers
    <3>3. \A v \in Workers \ {w} : v > w <=> v > nextWorker BY <1>2, <3>1, <3>2
    <3>4. ~(w > w) BY <1>4, <3>2
    <3> QED BY <1>7, <3>3, <3>4 DEF PoolOK
  <2>2. nextWorker' + count' <= PreAllocatedVUs + scheduled'
    BY <1>1, <1>2, <1>3, WorkersAssumption DEF w
  <2>3. liveWorkers' = done' + Cardinality(Working') BY <1>1, <1>2, <1>8 DEF PoolOK
  <2> QED BY <1>1, <2>1, <2>2, <2>3 DEF PoolOK
<1>13. HeldOK'
  <2> DEFINE left == ToSet(ready) \ Working
  <2>1. IsFiniteSet(left) /\ Cardinality(left) \in Nat /\ Cardinality(left) <= done
    BY <1>1, SetsFinite, FS_Subset, FS_CardinalityType DEF HeldOK
  <2>2. Cardinality(left \cup Working) = Cardinality(left) + Cardinality(Working)
    <3>1. left \cap Working = {} OBVIOUS
    <3>2. IsFiniteSet(Working) BY SetsFinite
    <3>3. Cardinality(left \cup Working)
            = Cardinality(left) + Cardinality(Working) - Cardinality(left \cap Working)
      BY <2>1, <3>2, FS_Union
    <3>4. Cardinality(left \cap Working) = 0 BY <3>1, FS_EmptySet
    <3> QED BY <1>8, <2>1, <3>3, <3>4
  <2>3. Held \cup Working = left \cup Working BY <1>9
  <2>4. Cardinality(Held \cup Working) + 1 <= MaxVUs
    <3>1. liveWorkers = done + Cardinality(Working) BY DEF PoolOK
    <3>2. Cardinality(Held \cup Working) = Cardinality(left) + Cardinality(Working)
      BY <2>2, <2>3
    <3>3. \A l, d, v, x, m \in Nat : l <= d /\ v = d + x /\ v < m => l + x + 1 <= m OBVIOUS
    <3>4. liveWorkers \in Nat /\ MaxVUs \in Nat BY <1>2, WorkersAssumption
    <3> HIDE DEF left
    <3> QED BY <1>1, <1>2, <1>8, <2>1, <3>1, <3>2, <3>3, <3>4
  <2>5. Cardinality(Held' \cup Working') <= MaxVUs
    <3>1. Held' \cup Working' = (Held \cup Working) \cup {w} BY <1>7, <1>9
    <3>2. IsFiniteSet(Held \cup Working) BY SetsFinite
    <3>3. Cardinality(Held \cup Working) \in Nat BY <3>2, FS_CardinalityType
    <3>4. \/ Cardinality(Held' \cup Working') = Cardinality(Held \cup Working)
          \/ Cardinality(Held' \cup Working') = Cardinality(Held \cup Working) + 1
      BY <3>1, <3>2, FS_AddElement
    <3> QED BY <2>4, <3>3, <3>4, WorkersAssumption
  <2>6. Cardinality(ToSet(ready) \ Working') <= done
    <3>1. ToSet(ready) \ Working' = left BY <1>6, <1>7, <1>9
    <3> QED BY <2>1, <3>1
  <2>7. \A v \in Held' : worker'[v] = "await" \/ (worker'[v] \in Gone /\ (ctxDone' \/ stopped'))
    BY <1>1, <1>6, <1>7, <1>9, SetsFinite DEF HeldOK
  <2> QED BY <1>1, <2>5, <2>6, <2>7 DEF HeldOK
<1>14. CountOK' BY <1>1, <1>2, <1>8 DEF CountOK
<1>15. WaitingOK' BY <1>1, <1>7, <1>9 DEF WaitingOK
<1> QED BY <1>10, <1>11, <1>12, <1>13, <1>14, <1>15

LEMMA DropKeeps == ASSUME IInv, Drop PROVE IInv'
<1> USE DEF IInv
<1>1. /\ sched = "dispatch" /\ sched' = AfterDispatch /\ dropped' = dropped + count /\ count' = 0
      /\ UNCHANGED <<scheduled, target, deadline, idle, ready, done, liveWorkers, nextWorker,
                     stopped, ctxDone, worker, begun, aborted, waiting>>
  BY DEF Drop, channelVars, historyVars
<1>2. sched' \in {"select", "stop"} /\ (sched' = "stop" => deadline)
  BY <1>1 DEF AfterDispatch
<1>3. /\ count \in Nat /\ scheduled \in 0 .. Total /\ begun \in Nat /\ dropped \in Nat
      /\ Fresh' = Fresh /\ Cardinality(Fresh) \in Nat
  BY <1>1, SetsFinite DEF TypeOK, Fresh
<1>4. CountOK' BY <1>1, <1>3 DEF CountOK
<1>5. TypeOK'
  <2>1. begun + dropped + count + Cardinality(Fresh) <= scheduled BY DEF CountOK
  <2>2. dropped' \in 0 .. Total BY <1>1, <1>3, <2>1, TotalAssumption
  <2> QED BY <1>1, <1>2, <2>2, TotalAssumption DEF TypeOK
<1>6. PhaseOK' BY <1>1, <1>2 DEF PhaseOK, Dispatching
<1>7. PoolOK' BY <1>1, <1>3, PoolRests
<1>8. HeldOK' BY <1>1, <1>2, HeldRests
<1>9. WaitingOK' BY <1>1, <1>2, WaitingRests DEF Dispatching
<1> QED BY <1>4, <1>5, <1>6, <1>7, <1>8, <1>9

-----------------------------------------------------------------------------
(* The rest of the scheduler, and the cancel from outside.                 *)

LEMMA DispatchedKeeps == ASSUME IInv, Dispatched PROVE IInv'
<1>1. /\ sched = "dispatch" /\ sched' = AfterDispatch /\ count = 0
      /\ UNCHANGED <<scheduled, count, target, deadline, idle, ready, done, liveWorkers, nextWorker,
                     stopped, ctxDone, worker, dropped, begun, aborted, waiting>>
  BY DEF Dispatched, channelVars, historyVars
<1>2. sched' \in {"select", "stop"} /\ (sched' = "stop" => deadline)
  BY <1>1 DEF AfterDispatch
<1>3. PhaseOK' BY <1>1, <1>2 DEF IInv, PhaseOK, Dispatching
<1> QED BY <1>1, <1>2, <1>3, ControlKeeps DEF IInv, TypeOK, Dispatching

LEMMA EndKeeps ==
  ASSUME IInv, CloseStop \/ WorkersGone \/ DrainTimeout \/ SchedulerCancelled \/ CancelRun
  PROVE  IInv'
<1>1. /\ UNCHANGED <<scheduled, count, target, deadline, idle, ready, done, liveWorkers, nextWorker,
                     worker, dropped, begun, aborted, waiting>>
      /\ \/ sched = "stop" /\ sched' = "wait" /\ stopped' = TRUE /\ ctxDone' = ctxDone
         \/ /\ sched \in {"gather", "select", "wait"} /\ sched' = "returned"
            /\ stopped' = stopped /\ ctxDone' \in {ctxDone, TRUE}
         \/ sched' = sched /\ stopped' = stopped /\ ctxDone' = TRUE
  BY DEF CloseStop, WorkersGone, DrainTimeout, SchedulerCancelled, CancelRun, DrainFrame,
         channelVars, historyVars, schedVars
<1>2. PhaseOK'
  <2>1. PhaseOK BY DEF IInv
  <2>2. CASE sched = "stop" /\ sched' = "wait" BY <1>1, <2>1, <2>2 DEF PhaseOK, Dispatching
  <2>3. CASE sched \in {"gather", "select", "wait"} /\ sched' = "returned" /\ stopped' = stopped
    BY <1>1, <2>1, <2>3 DEF PhaseOK, Dispatching
  <2>4. CASE sched' = sched /\ stopped' = stopped BY <1>1, <2>1, <2>4 DEF PhaseOK
  <2> QED BY <1>1, <2>2, <2>3, <2>4
<1>3. /\ sched' \in {"gather", "select", "drainReady", "dispatch", "handoff", "stop", "wait",
                     "returned"}
      /\ deadline' \in BOOLEAN /\ stopped' \in BOOLEAN /\ ctxDone' \in BOOLEAN
      /\ (ctxDone => ctxDone') /\ (stopped => stopped')
      /\ sched' = sched \/ sched' \notin Dispatching
  BY <1>1 DEF IInv, TypeOK, Dispatching
<1>4. UNCHANGED <<scheduled, count, target, idle, ready, done, liveWorkers, nextWorker, worker,
                  dropped, begun, aborted, waiting>>
  BY <1>1
<1> QED BY <1>2, <1>3, <1>4, ControlKeeps

-----------------------------------------------------------------------------
(* The workers.                                                            *)

\* A step of a worker that announces nothing and is not the last.
LEMMA WorkerStepKeeps ==
  ASSUME IInv, NEW w \in Workers, NEW from, NEW to \in {"iterate", "offer", "leave"},
         WorkerStep(w, from, to),
         \/ from = "initial" /\ to = "iterate" /\ begun' = begun + 1
         \/ from = "iterate" /\ to \in {"offer", "leave"} /\ begun' = begun
         \/ from \in {"offer", "await"} /\ to = "leave" /\ begun' = begun /\ (ctxDone \/ stopped),
         UNCHANGED <<sched, scheduled, count, target, deadline, idle, ready, done, liveWorkers,
                     nextWorker, stopped, ctxDone, dropped, aborted, waiting>>
  PROVE  IInv'
<1> USE DEF IInv
<1>1. worker[w] = from /\ worker' = [worker EXCEPT ![w] = to] BY DEF WorkerStep
<1>2. /\ worker' \in [Workers -> {"none", "initial", "iterate", "offer", "await", "leave", "exit"}]
      /\ worker'[w] = to /\ \A v \in Workers \ {w} : worker'[v] = worker[v]
      /\ Working' = Working \cup {w} /\ Fresh' = Fresh \ {w} /\ Announced' = Announced \ {w}
  BY <1>1, WorkerMoves
<1>3. Working' = Working /\ Held' = Held BY <1>1, <1>2 DEF Working, Held
<1>4. /\ IsFiniteSet(Fresh) /\ Cardinality(Fresh) \in Nat /\ Cardinality(Fresh') \in Nat
      /\ begun' + Cardinality(Fresh') = begun + Cardinality(Fresh)
      /\ begun \in Nat /\ begun' \in Nat
  <2>1. begun \in Nat /\ IsFiniteSet(Fresh) /\ Cardinality(Fresh) \in Nat
    BY SetsFinite DEF TypeOK
  <2>2. CASE from = "initial" /\ begun' = begun + 1
    <3>1. w \in Fresh BY <1>1, <2>2 DEF Fresh
    <3>2. Cardinality(Fresh') = Cardinality(Fresh) - 1
      BY <1>2, <2>1, <3>1, FS_RemoveElement
    <3>3. Cardinality(Fresh') \in Nat BY <1>2, <2>1, FS_RemoveElement, FS_CardinalityType
    <3> QED BY <2>1, <2>2, <3>2, <3>3
  <2>3. CASE from # "initial" /\ begun' = begun
    <3>1. w \notin Fresh BY <1>1, <2>3 DEF Fresh
    <3>2. Fresh' = Fresh BY <1>2, <3>1
    <3> QED BY <2>1, <2>3, <3>2
  <2> QED BY <2>2, <2>3
<1>5. CountOK'
  <2>1. dropped \in Nat /\ count \in Nat /\ scheduled \in Nat BY DEF TypeOK
  <2>2. begun' + dropped + count + Cardinality(Fresh')
          = begun + dropped + count + Cardinality(Fresh)
    <3>1. \A a, b, x, y, c, d \in Nat : a + x = b + y => a + d + c + x = b + d + c + y OBVIOUS
    <3> QED BY ONLY <1>4, <2>1, <3>1
  <2> QED BY <2>2 DEF CountOK
<1>6. TypeOK'
  <2>1. dropped \in Nat /\ count \in Nat /\ scheduled \in 0 .. Total BY DEF TypeOK
  <2>2. begun' + dropped + count + Cardinality(Fresh') <= scheduled BY <1>5 DEF CountOK
  <2>3. begun' \in 0 .. Total BY <1>4, <2>1, <2>2, TotalAssumption
  <2> QED BY <1>2, <2>3 DEF TypeOK
<1>7. PhaseOK' BY DEF PhaseOK
<1>8. PoolOK' BY <1>1, <1>2, <1>3 DEF PoolOK
<1>9. HeldOK'
  <2>1. \A v \in Held : worker'[v] = "await" \/ (worker'[v] \in Gone /\ (ctxDone \/ stopped))
    BY <1>1, <1>2, SetsFinite DEF HeldOK, Gone
  <2> QED BY <1>3, <2>1 DEF HeldOK
<1>10. WaitingOK' BY <1>2, <1>3 DEF WaitingOK
<1> QED BY <1>5, <1>6, <1>7, <1>8, <1>9, <1>10

\* A worker announces itself: its channel is not held yet.
LEMMA OfferKeeps == ASSUME IInv, NEW w \in Workers, Offer(w) PROVE IInv'
<1> USE DEF IInv
<1>1. /\ worker[w] = "offer" /\ worker' = [worker EXCEPT ![w] = "await"]
      /\ Len(ready) < MaxVUs /\ ready' = Append(ready, w)
      /\ UNCHANGED <<sched, scheduled, count, target, deadline, idle, done, liveWorkers,
                     nextWorker, stopped, ctxDone, dropped, begun, aborted, waiting>>
  BY DEF Offer, WorkerStep, WorkerFrame, schedVars
<1>2. /\ worker' \in [Workers -> {"none", "initial", "iterate", "offer", "await", "leave", "exit"}]
      /\ worker'[w] = "await" /\ \A v \in Workers \ {w} : worker'[v] = worker[v]
      /\ Working' = Working \cup {w} /\ Fresh' = Fresh \ {w} /\ Announced' = Announced \cup {w}
  BY <1>1, WorkerMoves
<1>3. w \in Working /\ w \notin Fresh /\ w \notin Held BY <1>1 DEF Working, Fresh, HeldOK, Gone
<1>4. Working' = Working /\ Fresh' = Fresh BY <1>2, <1>3
<1>5. w \notin ToSet(idle) /\ w \notin ToSet(ready) /\ w # target
  BY <1>3 DEF Held, Workers
<1>6. /\ ready' \in Seq(Workers) /\ ToSet(ready') = ToSet(ready) \cup {w}
      /\ Len(ready') = Len(ready) + 1 /\ IsInjective(ready')
  BY <1>1, <1>5, AppendElements DEF TypeOK, HeldOK
<1>7. Held' = Held \cup {w} BY <1>1, <1>6 DEF Held
<1>8. TypeOK'
  <2>1. Len(ready') <= MaxVUs
    <3>1. Len(ready) \in Nat BY DEF TypeOK
    <3> QED BY <1>1, <1>6, <3>1, WorkersAssumption
  <2> QED BY <1>1, <1>2, <1>6, <2>1 DEF TypeOK
<1>9. PhaseOK' BY <1>1 DEF PhaseOK
<1>10. PoolOK' BY <1>1, <1>2, <1>4 DEF PoolOK
<1>11. HeldOK'
  <2>1. \A v \in Held' : worker'[v] = "await" \/ (worker'[v] \in Gone /\ (ctxDone \/ stopped))
    BY <1>2, <1>7, SetsFinite DEF HeldOK
  <2>2. Held' \cup Working' = Held \cup Working BY <1>3, <1>4, <1>7
  <2>3. ToSet(ready') \ Working' = ToSet(ready) \ Working BY <1>3, <1>4, <1>6
  <2>4. ToSet(idle) \cap ToSet(ready') = {} /\ target \notin ToSet(idle) \cup ToSet(ready')
    BY <1>5, <1>6 DEF HeldOK
  <2> QED BY <1>1, <1>6, <2>1, <2>2, <2>3, <2>4 DEF HeldOK
<1>12. CountOK' BY <1>1, <1>4 DEF CountOK
<1>13. WaitingOK' BY <1>1, <1>2, <1>6, <1>7 DEF WaitingOK
<1> QED BY <1>8, <1>9, <1>10, <1>11, <1>12, <1>13

\* A worker that leaves is live until its completion is collected.
LEMMA SendDoneKeeps == ASSUME IInv, NEW w \in Workers, SendDone(w) PROVE IInv'
<1> USE DEF IInv
<1>1. /\ worker[w] = "leave" /\ worker' = [worker EXCEPT ![w] = "exit"]
      /\ done < MaxVUs /\ done' = done + 1
      /\ UNCHANGED <<sched, scheduled, count, target, deadline, idle, ready, liveWorkers,
                     nextWorker, stopped, ctxDone, dropped, begun, aborted, waiting>>
  BY DEF SendDone, WorkerStep, WorkerFrame, schedVars
<1>2. /\ worker' \in [Workers -> {"none", "initial", "iterate", "offer", "await", "leave", "exit"}]
      /\ worker'[w] = "exit" /\ \A v \in Workers \ {w} : worker'[v] = worker[v]
      /\ Working' = Working \ {w} /\ Fresh' = Fresh \ {w} /\ Announced' = Announced \ {w}
  BY <1>1, WorkerMoves
<1>3. w \in Working /\ w \notin Fresh /\ w \notin Announced BY <1>1 DEF Working, Fresh, Announced
<1>4. Fresh' = Fresh /\ Announced' = Announced /\ Held' = Held BY <1>1, <1>2, <1>3 DEF Held
<1>5. /\ IsFiniteSet(Working) /\ Cardinality(Working) \in Nat
      /\ Cardinality(Working') = Cardinality(Working) - 1 /\ done \in Nat
  <2>1. IsFiniteSet(Working) /\ Cardinality(Working) \in Nat BY SetsFinite
  <2>2. Cardinality(Working \ {w}) = Cardinality(Working) - 1 BY <1>3, <2>1, FS_RemoveElement
  <2> QED BY <1>2, <2>1, <2>2 DEF TypeOK
<1>6. TypeOK'
  <2>1. done' \in 0 .. MaxVUs BY <1>1, <1>5, WorkersAssumption
  <2> QED BY <1>1, <1>2, <2>1 DEF TypeOK
<1>7. PhaseOK' BY <1>1 DEF PhaseOK
<1>8. PoolOK'
  <2>1. liveWorkers' = done' + Cardinality(Working') BY <1>1, <1>5 DEF PoolOK
  <2> QED BY <1>1, <1>2, <2>1 DEF PoolOK
<1>9. HeldOK'
  <2>1. Cardinality(Held' \cup Working') <= MaxVUs
    <3>1. IsFiniteSet(Held \cup Working) /\ Cardinality(Held \cup Working) <= MaxVUs
      BY SetsFinite DEF HeldOK
    <3>2. Held' \cup Working' \subseteq Held \cup Working BY <1>2, <1>4
    <3>3. Cardinality(Held \cup Working) \in Nat BY <3>1, FS_CardinalityType
    <3>4. /\ Cardinality(Held' \cup Working') \in Nat
          /\ Cardinality(Held' \cup Working') <= Cardinality(Held \cup Working)
      BY <3>1, <3>2, FS_Subset, FS_CardinalityType
    <3> QED BY <3>1, <3>3, <3>4, WorkersAssumption
  <2>2. ASSUME sched \in {"dispatch", "handoff"}
        PROVE  Cardinality(ToSet(ready) \ Working') <= done + 1
    <3> DEFINE left == ToSet(ready) \ Working
    <3>1. IsFiniteSet(left) /\ Cardinality(left) \in Nat /\ Cardinality(left) <= done
      BY <2>2, SetsFinite, FS_Subset, FS_CardinalityType DEF HeldOK
    <3>2. /\ IsFiniteSet(left \cup {w}) /\ Cardinality(left \cup {w}) \in Nat
          /\ Cardinality(left \cup {w}) <= Cardinality(left) + 1
      <4>1. /\ IsFiniteSet(left \cup {w})
            /\ \/ Cardinality(left \cup {w}) = Cardinality(left)
               \/ Cardinality(left \cup {w}) = Cardinality(left) + 1
        BY <3>1, FS_AddElement
      <4> HIDE DEF left
      <4> QED BY <3>1, <4>1
    <3>3. ToSet(ready) \ Working' \subseteq left \cup {w} BY <1>2
    <3>4. /\ Cardinality(ToSet(ready) \ Working') \in Nat
          /\ Cardinality(ToSet(ready) \ Working') <= Cardinality(left \cup {w})
      BY <3>2, <3>3, FS_Subset, FS_CardinalityType
    <3> HIDE DEF left
    <3> QED BY <1>5, <3>1, <3>2, <3>4
  <2>3. \A v \in Held : worker'[v] = "await" \/ (worker'[v] \in Gone /\ (ctxDone \/ stopped))
    BY <1>1, <1>2, SetsFinite DEF HeldOK, Gone
  <2> QED BY <1>1, <1>4, <2>1, <2>2, <2>3 DEF HeldOK
<1>10. CountOK' BY <1>1, <1>4 DEF CountOK
<1>11. WaitingOK' BY <1>1, <1>4 DEF WaitingOK
<1> QED BY <1>6, <1>7, <1>8, <1>9, <1>10, <1>11

LEMMA WorkerKeeps ==
  ASSUME IInv, NEW w \in Workers, WorkerNext(w) \/ IterationEnds(w)
  PROVE  IInv'
<1>1. CASE BeginInitial(w)
  BY <1>1, WorkerStepKeeps DEF BeginInitial, WorkerFrame, schedVars, channelVars
<1>2. CASE IterationEnds(w)
  BY <1>2, WorkerStepKeeps DEF IterationEnds, WorkerFrame, schedVars, channelVars
<1>3. CASE Leave(w)
  BY <1>3, WorkerStepKeeps DEF Leave, WorkerFrame, schedVars, channelVars
<1> QED BY <1>1, <1>2, <1>3, OfferKeeps, SendDoneKeeps DEF WorkerNext

-----------------------------------------------------------------------------
(* The invariant and what it implies.                                      *)

LEMMA InitIInv == Init => IInv
<1> SUFFICES ASSUME Init PROVE IInv OBVIOUS
<1>1. /\ sched = "gather" /\ scheduled = 0 /\ count = 0 /\ target = 0 /\ deadline = FALSE
      /\ idle = <<>> /\ ready = <<>> /\ done = 0
      /\ liveWorkers = PreAllocatedVUs /\ nextWorker = PreAllocatedVUs
      /\ stopped = FALSE /\ ctxDone = FALSE
      /\ worker = [w \in Workers |-> IF w <= PreAllocatedVUs THEN "offer" ELSE "none"]
      /\ dropped = 0 /\ begun = 0 /\ aborted = FALSE /\ waiting = {}
  BY DEF Init
<1>2. /\ idle \in Seq(Workers) /\ ready \in Seq(Workers) /\ Len(ready) = 0
      /\ ToSet(idle) = {} /\ ToSet(ready) = {} /\ IsInjective(idle) /\ IsInjective(ready)
      /\ Held = {}
  BY <1>1 DEF ToSet, IsInjective, Held
<1>3. TypeOK
  <2>1. worker \in [Workers -> {"none", "initial", "iterate", "offer", "await", "leave", "exit"}]
    BY <1>1
  <2>2. /\ liveWorkers \in 0 .. MaxVUs /\ nextWorker \in 0 .. PreAllocatedVUs + Total
        /\ 0 \in 0 .. Total /\ 0 \in 0 .. MaxVUs /\ Len(ready) <= MaxVUs
    BY <1>1, <1>2, WorkersAssumption, TotalAssumption
  <2> QED BY <1>1, <1>2, <2>1, <2>2 DEF TypeOK
<1>4. Working = 1 .. PreAllocatedVUs /\ Fresh = {} /\ Announced = {}
  <2>1. 1 .. PreAllocatedVUs \subseteq Workers
    BY WorkersAssumption, TotalAssumption DEF Workers
  <2>2. \A w \in Workers : w \in 1 .. PreAllocatedVUs <=> w <= PreAllocatedVUs
    BY WorkersAssumption, TotalAssumption DEF Workers
  <2>3. \A w \in Workers : worker[w] = IF w \in 1 .. PreAllocatedVUs THEN "offer" ELSE "none"
    BY <1>1, <2>2
  <2> QED BY <2>1, <2>3 DEF Working, Fresh, Announced
<1>5. Cardinality(Working) = PreAllocatedVUs /\ Cardinality(Fresh) = 0
  BY <1>4, WorkersAssumption, FS_Interval, FS_EmptySet
<1>6. PhaseOK BY <1>1 DEF PhaseOK, Dispatching
<1>7. PoolOK
  <2>1. \A w \in Workers : worker[w] = "none" <=> w > nextWorker
    BY <1>1, WorkersAssumption DEF Workers
  <2> QED BY <1>1, <1>5, <2>1, WorkersAssumption DEF PoolOK
<1>8. HeldOK
  <2>1. Held \cup Working = Working BY <1>2
  <2> QED BY <1>1, <1>2, <1>5, <2>1, WorkersAssumption DEF HeldOK
<1>9. CountOK BY <1>1, <1>5 DEF CountOK
<1>10. WaitingOK BY <1>1, <1>4 DEF WaitingOK
<1> QED BY <1>3, <1>6, <1>7, <1>8, <1>9, <1>10 DEF IInv

LEMMA NextIInv == IInv /\ [Next]_vars => IInv'
<1> SUFFICES ASSUME IInv, [Next]_vars PROVE IInv' OBVIOUS
<1>1. CASE SchedulerStep
  BY <1>1, GatherKeeps, CollectKeeps, DrainedKeeps, PopIdlePreserves, HandoffKeeps,
     HandoffCancelledKeeps, GrowPoolKeeps, DropKeeps, DispatchedKeeps, AwaitWorkerKeeps, EndKeeps
  DEF SchedulerStep
<1>2. CASE Tick \/ Deadline \/ DrainTimeout \/ CancelRun
  BY <1>2, TickKeeps, DeadlineKeeps, EndKeeps
<1>3. CASE \E w \in Workers : WorkerNext(w) \/ IterationEnds(w) BY <1>3, WorkerKeeps
<1>4. CASE UNCHANGED vars
  <2>1. UNCHANGED <<sched, scheduled, count, target, deadline, idle, ready, done, liveWorkers,
                    nextWorker, stopped, ctxDone, worker, dropped, begun, aborted, waiting>>
    BY <1>4 DEF vars, schedVars, channelVars, historyVars
  <2>2. PhaseOK' BY <2>1 DEF IInv, PhaseOK
  <2> QED BY <2>1, <2>2, ControlKeeps DEF IInv, TypeOK
<1> QED BY <1>1, <1>2, <1>3, <1>4 DEF Next

\* IInv holds in every reachable state: the scheduler's counters say what the
\* workers, the channels and the arrivals are up to.
THEOREM ArrivalInvariant == Spec => []IInv
BY InitIInv, NextIInv, PTL DEF Spec

\* No send ever blocks: not the handoff of a job, not the announcement of a
\* worker in ready, not the completion in workerDone.
THEOREM SendsNeverBlock == Spec => []HandoffNeverBlocks
<1>1. IInv => HandoffNeverBlocks
  <2> SUFFICES ASSUME IInv PROVE HandoffNeverBlocks OBVIOUS
  <2> USE DEF IInv
  <2>1. /\ IsFiniteSet(Held \cup Working) /\ Cardinality(Held \cup Working) <= MaxVUs
        /\ Cardinality(Held \cup Working) \in Nat
    BY SetsFinite, FS_CardinalityType DEF HeldOK
  <2>2. /\ Len(idle) = Cardinality(ToSet(idle)) /\ Len(ready) = Cardinality(ToSet(ready))
        /\ Len(idle) \in Nat /\ Len(ready) \in Nat
    BY InjectiveLength DEF TypeOK, HeldOK
  <2> DEFINE announced == ToSet(idle) \cup ToSet(ready)
  <2>3. IsFiniteSet(announced) /\ Cardinality(announced) = Len(idle) + Len(ready)
    <3>1. Cardinality(ToSet(idle) \cap ToSet(ready)) = 0 BY FS_EmptySet DEF HeldOK
    <3>2. /\ IsFiniteSet(announced)
          /\ Cardinality(announced) = Cardinality(ToSet(idle)) + Cardinality(ToSet(ready))
                                       - Cardinality(ToSet(idle) \cap ToSet(ready))
      BY SetsFinite, FS_Union
    <3> QED BY <2>2, <3>1, <3>2
  <2>4. announced \subseteq Held BY DEF Held
  <2>5. Len(idle) + Len(ready) <= MaxVUs
    <3>1. announced \subseteq Held \cup Working BY <2>4
    <3>2. Cardinality(announced) <= Cardinality(Held \cup Working) BY <2>1, <3>1, FS_Subset
    <3> HIDE DEF announced
    <3> QED BY <2>1, <2>2, <2>3, <3>2, WorkersAssumption
  <2>6. ASSUME NEW w \in Workers, worker[w] = "offer" PROVE Len(ready) < MaxVUs
    <3>1. w \notin Held /\ w \in Working BY <2>6 DEF HeldOK, Gone, Working
    <3>2. w \notin announced BY <2>4, <3>1
    <3>3. announced \cup {w} \subseteq Held \cup Working BY <2>4, <3>1
    <3>4. Cardinality(announced \cup {w}) = Len(idle) + Len(ready) + 1
      BY <2>3, <3>2, FS_AddElement
    <3>5. Cardinality(announced \cup {w}) <= Cardinality(Held \cup Working)
      BY <2>1, <3>3, FS_Subset
    <3> HIDE DEF announced
    <3> QED BY <2>1, <2>2, <3>4, <3>5, WorkersAssumption
  <2>7. ASSUME NEW w \in Workers, worker[w] = "leave" PROVE done < MaxVUs
    <3>1. w \in Working BY <2>7 DEF Working
    <3>2. Cardinality(Working) \in Nat \ {0} BY <3>1, SetsFinite, FS_EmptySet
    <3> QED BY <3>2, WorkersAssumption DEF TypeOK, PoolOK
  <2> QED BY <2>5, <2>6, <2>7 DEF HandoffNeverBlocks, HeldOK
<1> QED BY <1>1, ArrivalInvariant, PTL

\* Attempted plus dropped never exceeds what the curve has scheduled, and meets it
\* exactly once the profile ran to its deadline and everybody has returned.
THEOREM EveryArrivalAccounted == Spec => []ArrivalsAccounted
<1>1. IInv => ArrivalsAccounted
  <2> SUFFICES ASSUME IInv PROVE ArrivalsAccounted OBVIOUS
  <2> USE DEF IInv
  <2>1. /\ begun \in Nat /\ dropped \in Nat /\ count \in Nat /\ scheduled \in Nat
        /\ Cardinality(Fresh) \in Nat
    BY SetsFinite DEF TypeOK
  <2>2. begun + dropped <= scheduled BY <2>1 DEF CountOK
  <2>3. ASSUME stopped, ~aborted, \A w \in Workers : worker[w] \in {"none", "exit"}
        PROVE  begun + dropped = Total
    <3>1. Fresh = {} BY <2>3 DEF Fresh
    <3>2. Cardinality(Fresh) = 0 BY <3>1, FS_EmptySet
    <3>3. count = 0 /\ scheduled = Total BY <2>3 DEF PhaseOK, Dispatching
    <3>4. begun + dropped + count + Cardinality(Fresh) = scheduled BY <2>3 DEF CountOK
    <3> QED BY <2>1, <3>2, <3>3, <3>4
  <2> QED BY <2>2, <2>3 DEF ArrivalsAccounted
<1> QED BY <1>1, ArrivalInvariant, PTL

\* An arrival is dropped only when maxVUs workers are live and every worker that
\* waited when the dispatch began was given a job.
THEOREM DropsAtCapacity == Spec => DropsOnlyAtCapacity
<1>1. IInv /\ [Next]_vars =>
        [dropped' # dropped /\ ~aborted => liveWorkers = MaxVUs /\ waiting = {}]_vars
  <2> SUFFICES ASSUME IInv, Next, dropped' # dropped, ~aborted
               PROVE  liveWorkers = MaxVUs /\ waiting = {}
    OBVIOUS
  <2>1. Drop
    BY DEF Next, SchedulerStep, Gather, Collect, CollectFrame, Tick, Deadline, Dispatch, Drained,
           PopIdle, Handoff, HandoffCancelled, GrowPool, Dispatched, CloseStop, AwaitWorker,
           WorkersGone, DrainTimeout, SchedulerCancelled, DrainFrame, CancelRun, WorkerNext,
           BeginInitial, IterationEnds, Offer, Leave, SendDone, WorkerFrame
  <2>2. /\ sched = "dispatch" /\ idle = <<>> /\ ~(liveWorkers < MaxVUs)
    BY <2>1 DEF Drop, HasCapacity
  <2>3. liveWorkers = MaxVUs BY <2>2, WorkersAssumption DEF IInv, TypeOK
  <2>4. target = 0 /\ ToSet(idle) = {} BY <2>2 DEF IInv, PhaseOK, ToSet
  <2>5. waiting = {} BY <2>2, <2>4 DEF IInv, WaitingOK
  <2> QED BY <2>3, <2>5
<1> QED BY <1>1, ArrivalInvariant, PTL DEF Spec, DropsOnlyAtCapacity

\* waitForProfileWorkers cancels early only when no worker is left to cut short.
THEOREM DrainCutsNobody == Spec => DrainCutsNothing
<1>1. IInv => [(ctxDone' # ctxDone /\ liveWorkers = 0) =>
                 \A w \in Workers : worker[w] \in {"none", "exit"}]_vars
  <2> SUFFICES ASSUME IInv, liveWorkers = 0
               PROVE  \A w \in Workers : worker[w] \in {"none", "exit"}
    OBVIOUS
  <2>1. Cardinality(Working) = 0
    <3>1. Cardinality(Working) \in Nat BY SetsFinite DEF IInv
    <3> QED BY <3>1 DEF IInv, TypeOK, PoolOK
  <2>2. Working = {} BY <2>1, SetsFinite, FS_EmptySet DEF IInv
  <2> QED BY <2>2 DEF Working
<1> QED BY <1>1, ArrivalInvariant, PTL DEF DrainCutsNothing
=============================================================================
