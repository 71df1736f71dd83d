------------------------- MODULE VUSchedulerProofs -------------------------
(***************************************************************************)
(* Proofs about VUScheduler for any number of virtual users. Each part of  *)
(* IInv is shown to be kept by every step on its own; the parts meet in    *)
(* three places: the cursor stays in range because of ActiveOK, nobody is  *)
(* active once the drain has begun because of DrainingOK, and so no VU the *)
(* idle scan has passed can begin an iteration.                            *)
(***************************************************************************)
EXTENDS VUScheduler, TLAPS

\* The steps of the scheduler goroutine and of Stop move no VU.
LEMMA SchedulerMovesNoVU ==
  ASSUME TypeOK, SchedulerStep \/ Timers \/ CancelRun
  PROVE  UNCHANGED <<vu, busy, registered, reset, completed>>
BY DEF SchedulerStep, Timers, Activate, WakeVU, Deactivate, Reconciled, ForceRetire, Retired,
       Scan, AllIdle, CancelIdle, SchedulerCancelled, Tick, Deadline, DrainTick, DrainTimeout,
       CancelRun, vuVars, controlVars

\* A step of a VU moves no other, and leaves the scheduler alone.
LEMMA VUMovesItself ==
  ASSUME TypeOK, NEW w \in VUs, VUNext(w) \/ IterationEnds(w)
  PROVE  /\ UNCHANGED <<schedVars, ctxDone, active>>
         /\ vu' = [vu EXCEPT ![w] = vu'[w]] /\ vu'[w] \in VUPCs
         /\ \A v \in VUs \ {w} : /\ vu'[v] = vu[v] /\ busy'[v] = busy[v]
                                 /\ registered'[v] = registered[v]
                                 /\ own'[v] = own[v] /\ wake'[v] = wake[v]
<1> USE DEF TypeOK, VUStep, VUFrame, VUPCs
<1>1. CASE SetCancel(w) BY <1>1 DEF SetCancel
<1>2. CASE WaitActive(w) BY <1>2 DEF WaitActive
<1>3. CASE Woken(w) BY <1>3 DEF Woken
<1>4. CASE RenewContext(w) BY <1>4 DEF RenewContext
<1>5. CASE Claim(w) BY <1>5 DEF Claim
<1>6. CASE Recheck(w) BY <1>6 DEF Recheck
<1>7. CASE ClearBusy(w) BY <1>7 DEF ClearBusy
<1>8. CASE AfterIteration(w) BY <1>8 DEF AfterIteration
<1>9. CASE IterationEnds(w) BY <1>9 DEF IterationEnds
<1> QED BY <1>1, <1>2, <1>3, <1>4, <1>5, <1>6, <1>7, <1>8, <1>9 DEF VUNext

\* Types: the cursor stays in its range because it walks between the targets.
LEMMA TypeKept ==
  ASSUME TypeOK, ActiveOK, Next
  PROVE  TypeOK'
<1> USE NAssumption DEF TypeOK, VUs, SchedPCs
<1>1. CASE SchedulerStep
  <2> USE DEF vuVars, controlVars
  <2>1. CASE Activate BY <2>1 DEF Activate
  <2>2. CASE WakeVU BY <2>2 DEF WakeVU, ActiveOK
  <2>3. CASE Deactivate BY <2>3 DEF Deactivate
  <2>4. CASE Reconciled BY <2>4 DEF Reconciled
  <2>5. ASSUME NEW w \in VUs, ForceRetire(w) PROVE TypeOK' BY <2>5 DEF ForceRetire
  <2>6. CASE Retired BY <2>6 DEF Retired
  <2>7. CASE Scan BY <2>7 DEF Scan
  <2>8. CASE AllIdle BY <2>8 DEF AllIdle
  <2>9. CASE CancelIdle BY <2>9 DEF CancelIdle
  <2>10. CASE SchedulerCancelled BY <2>10 DEF SchedulerCancelled
  <2> QED BY <1>1, <2>1, <2>2, <2>3, <2>4, <2>5, <2>6, <2>7, <2>8, <2>9, <2>10
          DEF SchedulerStep
<1>2. CASE Timers
  <2> USE DEF vuVars, controlVars
  <2>1. CASE Tick BY <2>1 DEF Tick, Reconcile, DueSets
  <2>2. CASE Deadline BY <2>2 DEF Deadline, Reconcile
  <2>3. CASE DrainTick BY <2>3 DEF DrainTick, DueSets
  <2>4. CASE DrainTimeout BY <2>4 DEF DrainTimeout
  <2> QED BY <1>2, <2>1, <2>2, <2>3, <2>4 DEF Timers
<1>3. CASE CancelRun BY <1>3 DEF CancelRun, schedVars, vuVars, controlVars
<1>4. ASSUME NEW w \in VUs, VUNext(w) \/ IterationEnds(w) PROVE TypeOK'
  <2> USE DEF VUFrame, VUStep, VUPCs, schedVars
  <2>1. CASE SetCancel(w) BY <2>1 DEF SetCancel
  <2>2. CASE WaitActive(w) BY <2>2 DEF WaitActive
  <2>3. CASE Woken(w) BY <2>3 DEF Woken
  <2>4. CASE RenewContext(w) BY <2>4 DEF RenewContext
  <2>5. CASE Claim(w) BY <2>5 DEF Claim
  <2>6. CASE Recheck(w) BY <2>6 DEF Recheck
  <2>7. CASE ClearBusy(w) BY <2>7 DEF ClearBusy
  <2>8. CASE AfterIteration(w) BY <2>8 DEF AfterIteration
  <2>9. CASE IterationEnds(w) BY <2>9 DEF IterationEnds
  <2> QED BY <1>4, <2>1, <2>2, <2>3, <2>4, <2>5, <2>6, <2>7, <2>8, <2>9 DEF VUNext
<1> QED BY <1>1, <1>2, <1>3, <1>4 DEF Next

\* Only SetCancel and RenewContext touch the registration, and say where the
\* VU is.
LEMMA RegisteredKept ==
  ASSUME TypeOK, RegisteredOK, Next
  PROVE  RegisteredOK'
<1>1. CASE SchedulerStep \/ Timers \/ CancelRun
  BY <1>1, SchedulerMovesNoVU DEF RegisteredOK
<1>2. ASSUME NEW w \in VUs, VUNext(w) \/ IterationEnds(w) PROVE RegisteredOK'
  <2> USE DEF TypeOK, VUStep
  <2>1. (registered[w] = "nil" <=> vu[w] = "new") /\ (registered[w] = "old" <=> vu[w] = "renewed")
    BY DEF RegisteredOK
  <2> DEFINE Kept == (registered'[w] = "nil" <=> vu'[w] = "new")
                       /\ (registered'[w] = "old" <=> vu'[w] = "renewed")
  <2>11. SUFFICES Kept
    BY <1>2, VUMovesItself DEF RegisteredOK
  <2>2. CASE SetCancel(w) BY <2>1, <2>2 DEF SetCancel
  <2>3. CASE WaitActive(w) BY <2>1, <2>3 DEF WaitActive
  <2>4. CASE Woken(w) BY <2>1, <2>4 DEF Woken
  <2>5. CASE RenewContext(w) BY <2>1, <2>5 DEF RenewContext
  <2>6. CASE Claim(w) BY <2>1, <2>6 DEF Claim
  <2>7. CASE Recheck(w) BY <2>1, <2>7 DEF Recheck
  <2>8. CASE ClearBusy(w) BY <2>1, <2>8 DEF ClearBusy
  <2>9. CASE AfterIteration(w) BY <2>1, <2>9 DEF AfterIteration
  <2>10. CASE IterationEnds(w) BY <2>1, <2>10 DEF IterationEnds
  <2> QED BY <1>2, <2>2, <2>3, <2>4, <2>5, <2>6, <2>7, <2>8, <2>9, <2>10 DEF VUNext
<1> QED BY <1>1, <1>2 DEF Next

\* reconcile leaves a prefix of the VUs active.
LEMMA ActiveKept ==
  ASSUME TypeOK, ActiveOK, Next
  PROVE  ActiveOK'
<1> USE NAssumption DEF TypeOK, VUs, SchedPCs
<1>1. CASE SchedulerStep
  <2> USE DEF ActiveOK, Visited
  <2>1. CASE Activate BY <2>1 DEF Activate
  <2>2. CASE WakeVU BY <2>2 DEF WakeVU
  <2>3. CASE Deactivate BY <2>3 DEF Deactivate
  <2>4. CASE Reconciled BY <2>4 DEF Reconciled, controlVars
  <2>5. ASSUME NEW w \in VUs, ForceRetire(w) PROVE ActiveOK' BY <2>5 DEF ForceRetire, controlVars
  <2>6. CASE Retired BY <2>6 DEF Retired, controlVars
  <2>7. CASE Scan BY <2>7 DEF Scan, controlVars
  <2>8. CASE AllIdle BY <2>8 DEF AllIdle, controlVars
  <2>9. CASE CancelIdle BY <2>9 DEF CancelIdle, controlVars
  <2>10. CASE SchedulerCancelled BY <2>10 DEF SchedulerCancelled, controlVars
  <2> QED BY <1>1, <2>1, <2>2, <2>3, <2>4, <2>5, <2>6, <2>7, <2>8, <2>9, <2>10
          DEF SchedulerStep
<1>2. CASE Timers
  <2> USE DEF ActiveOK, Visited, controlVars
  <2>1. CASE Tick BY <2>1 DEF Tick, Reconcile
  <2>2. CASE Deadline BY <2>2 DEF Deadline, Reconcile
  <2>3. CASE DrainTick BY <2>3 DEF DrainTick
  <2>4. CASE DrainTimeout BY <2>4 DEF DrainTimeout
  <2> QED BY <1>2, <2>1, <2>2, <2>3, <2>4 DEF Timers
<1>3. CASE CancelRun
  BY <1>3 DEF CancelRun, schedVars, controlVars, ActiveOK, Visited
<1>4. ASSUME NEW w \in VUs, VUNext(w) \/ IterationEnds(w) PROVE ActiveOK'
  BY <1>4, VUMovesItself DEF schedVars, ActiveOK, Visited
<1> QED BY <1>1, <1>2, <1>3, <1>4 DEF Next

\* Nothing selects a new target after the deadline.
LEMMA DrainingKept ==
  ASSUME TypeOK, DrainingOK, Next
  PROVE  DrainingOK'
<1> USE DEF DrainingOK
<1>1. CASE SchedulerStep
  BY <1>1 DEF SchedulerStep, Activate, WakeVU, Deactivate, Reconciled, ForceRetire, Retired,
              Scan, AllIdle, CancelIdle, SchedulerCancelled
<1>2. CASE Timers
  BY <1>2 DEF Timers, Tick, Deadline, DrainTick, DrainTimeout, Reconcile
<1>3. CASE CancelRun
  BY <1>3 DEF CancelRun, schedVars
<1>4. ASSUME NEW w \in VUs, VUNext(w) \/ IterationEnds(w) PROVE DrainingOK'
  BY <1>4, VUMovesItself DEF schedVars
<1> QED BY <1>1, <1>2, <1>3, <1>4 DEF Next

\* While the scheduler scans or has given its verdict, no VU is active.
LEMMA NobodyActive ==
  ASSUME TypeOK, ActiveOK, DrainingOK, sched \in {"scan", "cancel", "drain"}
  PROVE  \A w \in VUs : ~active[w]
<1>1. target = 0 /\ \A w \in VUs : active[w] <=> w <= target
  BY DEF ActiveOK, DrainingOK
<1> QED BY <1>1 DEF VUs

\* A VU that is not active begins no iteration.
LEMMA OnlyActiveBegin ==
  ASSUME TypeOK, Next, NEW w \in VUs, ~Iterating(w), Iterating(w)'
  PROVE  /\ vu[w] = "recheck" /\ active[w]
         /\ UNCHANGED <<schedVars, ctxDone, active, busy, registered, own>>
<1>1. ~(SchedulerStep \/ Timers \/ CancelRun)
  BY SchedulerMovesNoVU DEF Iterating
<1>2. PICK v \in VUs : VUNext(v) \/ IterationEnds(v)
  BY <1>1 DEF Next
<1>3. v = w
  BY <1>2, VUMovesItself DEF Iterating
<1>4. Recheck(w)
  BY <1>2, <1>3 DEF VUNext, IterationEnds, SetCancel, WaitActive, Woken, RenewContext, Claim,
     ClearBusy, AfterIteration, VUStep, TypeOK, Iterating
<1> QED BY <1>4 DEF Recheck, VUStep, VUFrame, TypeOK, Iterating

\* The scan passes only VUs that are not busy, and none of them begins again.
LEMMA ScanKept ==
  ASSUME TypeOK, ActiveOK, DrainingOK, ScanOK, Next
  PROVE  ScanOK'
<1>1. \A w \in VUs : vu'[w] \in {"recheck", "iterate"} => busy'[w]
  <2>1. CASE SchedulerStep \/ Timers \/ CancelRun
    BY <2>1, SchedulerMovesNoVU DEF ScanOK
  <2>2. ASSUME NEW w \in VUs, VUNext(w) \/ IterationEnds(w)
        PROVE  vu'[w] \in {"recheck", "iterate"} => busy'[w]
    BY <2>2 DEF VUNext, IterationEnds, SetCancel, WaitActive, Woken, RenewContext, Claim,
       Recheck, ClearBusy, AfterIteration, VUStep, TypeOK, ScanOK
  <2> QED BY <2>1, <2>2, VUMovesItself DEF Next, ScanOK
<1>2. ASSUME sched' = "scan", NEW w \in VUs, w < cursor'
      PROVE  ~Iterating(w)'
  <2>1. CASE sched = "scan" /\ w < cursor
    <3>1. ~Iterating(w)
      BY <2>1 DEF ScanOK
    <3>2. ~active[w]
      BY <2>1, NobodyActive
    <3> QED BY <3>1, <3>2, OnlyActiveBegin
  <2>2. CASE sched = "scan" /\ ~(w < cursor)
    <3>1. Scan
      BY <1>2, <2>2, VUMovesItself
         DEF Next, SchedulerStep, Timers, Activate, WakeVU, Deactivate, Reconciled, ForceRetire,
             Retired, AllIdle, CancelIdle, SchedulerCancelled, Tick, Deadline, DrainTick,
             DrainTimeout, CancelRun, schedVars
    <3>2. w = cursor /\ ~busy[cursor]
      BY <1>2, <2>2, <3>1 DEF Scan, TypeOK, VUs
    <3>3. ~Iterating(w)
      BY <3>2 DEF ScanOK, Iterating
    <3> QED BY <3>1, <3>3 DEF Scan, vuVars, Iterating
  <2>3. CASE sched # "scan"
    <3>1. Reconciled \/ Retired
      BY <1>2, <2>3, VUMovesItself
         DEF Next, SchedulerStep, Timers, Activate, WakeVU, Deactivate, ForceRetire,
             Scan, AllIdle, CancelIdle, SchedulerCancelled, Tick, Deadline, DrainTick,
             DrainTimeout, CancelRun, schedVars, Reconcile
    <3> QED BY <1>2, <3>1 DEF Reconciled, Retired, VUs
  <2> QED BY <2>1, <2>2, <2>3
<1> QED BY <1>1, <1>2 DEF ScanOK

\* The idle verdict: the scan has passed every VU, and none begins afterwards.
LEMMA VerdictKept ==
  ASSUME TypeOK, ActiveOK, DrainingOK, ScanOK, IdleVerdictIsTrue, Next
  PROVE  IdleVerdictIsTrue'
<1> SUFFICES ASSUME sched' = "cancel", NEW w \in VUs
             PROVE  ~Iterating(w)'
  BY DEF IdleVerdictIsTrue
<1>1. CASE sched = "cancel"
  <2>1. ~Iterating(w) /\ ~active[w]
    BY <1>1, NobodyActive DEF IdleVerdictIsTrue
  <2> QED BY <2>1, OnlyActiveBegin
<1>2. CASE sched # "cancel"
  <2>1. AllIdle
    BY <1>2, VUMovesItself
       DEF Next, SchedulerStep, Timers, Activate, WakeVU, Deactivate, Reconciled, ForceRetire,
           Retired, Scan, CancelIdle, SchedulerCancelled, Tick, Deadline, DrainTick,
           DrainTimeout, CancelRun, schedVars, Reconcile
  <2>2. ~Iterating(w)
    BY <2>1, NAssumption DEF AllIdle, ScanOK, VUs
  <2> QED BY <2>1, <2>2 DEF AllIdle, vuVars, Iterating
<1> QED BY <1>1, <1>2

\* Forced retirement cancels the context of a VU that iterates, since that
\* context is registered; a VU that is replacing it sees its flag first.
LEMMA CutKept ==
  ASSUME TypeOK, RegisteredOK, RetiredIsCut, Next
  PROVE  RetiredIsCut'
<1> SUFFICES ASSUME NEW w \in VUs, Iterating(w)', ~active'[w], w \notin retired'
             PROVE  Cut(w)'
  BY DEF RetiredIsCut
<1>1. Iterating(w) /\ vu'[w] = vu[w]
  BY OnlyActiveBegin DEF Iterating, vuVars, schedVars
<1>2. registered[w] = "current"
  BY <1>1 DEF RegisteredOK, TypeOK, Iterating
<1>3. CASE SchedulerStep \/ Timers \/ CancelRun
  <2>1. CASE active[w]
    <3>1. Deactivate
      BY <1>3, <2>1 DEF SchedulerStep, Timers, Activate, WakeVU, Reconciled, ForceRetire,
         Retired, Scan, AllIdle, CancelIdle, SchedulerCancelled, Tick, Deadline, DrainTick,
         DrainTimeout, CancelRun, controlVars, TypeOK
    <3> QED BY <2>1, <3>1 DEF Deactivate, TypeOK
  <2>2. CASE ~active[w] /\ w \in retired
    <3>1. ForceRetire(w)
      <4>1. CASE Activate
        BY <4>1, <2>2 DEF Activate, TypeOK
      <4>2. ASSUME NEW v \in VUs, ForceRetire(v) PROVE v = w
        BY <4>2, <2>2 DEF ForceRetire
      <4> QED BY <1>3, <2>2, <4>1, <4>2
              DEF SchedulerStep, Timers, WakeVU, Deactivate, Reconciled, Retired, Scan, AllIdle,
                  CancelIdle, SchedulerCancelled, Tick, Deadline, DrainTick, DrainTimeout,
                  CancelRun, schedVars, Reconcile
    <3> QED BY <1>2, <2>2, <3>1 DEF ForceRetire, TypeOK, Cut
  <2>3. CASE ~active[w] /\ w \notin retired
    <3>1. Cut(w)
      BY <1>1, <2>3 DEF RetiredIsCut
    <3>2. own[w] => own'[w]
      BY <1>3 DEF SchedulerStep, Timers, Activate, WakeVU, Deactivate, Reconciled, ForceRetire,
         Retired, Scan, AllIdle, CancelIdle, SchedulerCancelled, Tick, Deadline, DrainTick,
         DrainTimeout, CancelRun, vuVars, TypeOK
    <3>3. ctxDone => ctxDone'
      BY <1>3 DEF SchedulerStep, Timers, Activate, WakeVU, Deactivate, Reconciled, ForceRetire,
         Retired, Scan, AllIdle, CancelIdle, SchedulerCancelled, Tick, Deadline, DrainTick,
         DrainTimeout, CancelRun
    <3> QED BY <3>1, <3>2, <3>3 DEF Cut
  <2> QED BY <2>1, <2>2, <2>3
<1>4. ASSUME NEW v \in VUs, VUNext(v) \/ IterationEnds(v) PROVE Cut(w)'
  <2>1. ~active[w] /\ w \notin retired /\ ctxDone' = ctxDone
    BY <1>4, VUMovesItself DEF schedVars
  <2>2. Cut(w)
    BY <1>1, <2>1 DEF RetiredIsCut
  <2>3. v # w
    BY <1>1, <1>4 DEF VUNext, IterationEnds, SetCancel, WaitActive, Woken, RenewContext, Claim,
       Recheck, ClearBusy, AfterIteration, VUStep, Iterating, TypeOK
  <2> QED BY <1>4, <2>1, <2>2, <2>3, VUMovesItself DEF Cut
<1> QED BY <1>3, <1>4 DEF Next

\* A VU parks only while it is not active, and the activation that ends this
\* sends a token before it does anything else.
LEMMA WakeupKept ==
  ASSUME TypeOK, ActiveOK, NoLostWakeup, Next
  PROVE  NoLostWakeup'
<1> USE DEF NoLostWakeup
<1>1. CASE SchedulerStep
  <2> USE DEF TypeOK, vuVars, controlVars
  <2>1. CASE Activate BY <2>1 DEF Activate
  <2>2. CASE WakeVU BY <2>2 DEF WakeVU
  <2>3. CASE Deactivate BY <2>3 DEF Deactivate
  <2>4. CASE Reconciled BY <2>4 DEF Reconciled
  <2>5. ASSUME NEW w \in VUs, ForceRetire(w) PROVE NoLostWakeup' BY <2>5 DEF ForceRetire
  <2>6. CASE Retired BY <2>6 DEF Retired
  <2>7. CASE Scan BY <2>7 DEF Scan
  <2>8. CASE AllIdle BY <2>8 DEF AllIdle
  <2>9. CASE CancelIdle BY <2>9 DEF CancelIdle
  <2>10. CASE SchedulerCancelled BY <2>10 DEF SchedulerCancelled
  <2> QED BY <1>1, <2>1, <2>2, <2>3, <2>4, <2>5, <2>6, <2>7, <2>8, <2>9, <2>10
          DEF SchedulerStep
<1>2. CASE Timers
  BY <1>2 DEF Timers, Tick, Deadline, DrainTick, DrainTimeout, vuVars, controlVars
<1>3. CASE CancelRun
  BY <1>3 DEF CancelRun, schedVars, vuVars, controlVars
<1>4. ASSUME NEW w \in VUs, VUNext(w) \/ IterationEnds(w) PROVE NoLostWakeup'
  <2>1. vu'[w] = "park" => ~active[w] \/ (vu[w] = "park" /\ wake'[w] = wake[w])
    BY <1>4 DEF VUNext, IterationEnds, SetCancel, WaitActive, Woken, RenewContext, Claim,
       Recheck, ClearBusy, AfterIteration, VUStep, TypeOK
  <2> QED BY <1>4, <2>1, VUMovesItself DEF schedVars
<1> QED BY <1>1, <1>2, <1>3, <1>4 DEF Next

LEMMA InitIInv == Init => IInv
<1> SUFFICES ASSUME Init
             PROVE  IInv
  OBVIOUS
<1> USE NAssumption DEF Init, VUs
<1>1. TypeOK
  <2>1. graceful \in BOOLEAN /\ draining \in BOOLEAN /\ ctxDone \in BOOLEAN
    OBVIOUS
  <2>2. sched \in SchedPCs /\ vu \in [VUs -> VUPCs]
    BY DEF SchedPCs, VUPCs
  <2>3. target \in 0 .. N /\ currentTarget \in 0 .. N /\ cursor \in 1 .. N + 1
    OBVIOUS
  <2> QED BY <2>1, <2>2, <2>3 DEF TypeOK
<1>2. RegisteredOK /\ DrainingOK BY DEF RegisteredOK, DrainingOK
<1>3. ActiveOK BY DEF ActiveOK, Visited
<1>4. ScanOK /\ IdleVerdictIsTrue BY DEF ScanOK, IdleVerdictIsTrue, Iterating
<1>5. RetiredIsCut BY DEF RetiredIsCut, Iterating
<1>6. NoLostWakeup BY DEF NoLostWakeup
<1> QED BY <1>1, <1>2, <1>3, <1>4, <1>5, <1>6 DEF IInv

\* A step that changes nothing keeps every part.
LEMMA StutterIInv == IInv /\ UNCHANGED vars => IInv'
<1> SUFFICES ASSUME IInv, UNCHANGED vars
             PROVE  IInv'
  OBVIOUS
<1> USE DEF vars, schedVars, controlVars, vuVars, IInv
<1>1. TypeOK' BY DEF TypeOK
<1>2. RegisteredOK' /\ DrainingOK' BY DEF RegisteredOK, DrainingOK
<1>3. ActiveOK' BY DEF ActiveOK, Visited
<1>4. ScanOK' /\ IdleVerdictIsTrue' BY DEF ScanOK, IdleVerdictIsTrue, Iterating
<1>5. RetiredIsCut' BY DEF RetiredIsCut, Iterating, Cut
<1>6. NoLostWakeup' BY DEF NoLostWakeup
<1> QED BY <1>1, <1>2, <1>3, <1>4, <1>5, <1>6

LEMMA NextIInv == IInv /\ [Next]_vars => IInv'
BY StutterIInv, TypeKept, RegisteredKept, ActiveKept, DrainingKept, ScanKept, CutKept,
   VerdictKept, WakeupKept DEF IInv

-----------------------------------------------------------------------------

\* For any number of VUs and any targets, the inductive invariant holds: the
\* active VUs are a prefix, control.cancel is the current context's unless it
\* is being replaced, and a VU the idle scan has passed does not iterate
\* (scheduler.go reconcile, runVUWorker, allVUWorkersIdle).
THEOREM InductiveInvariant == Spec => []IInv
BY InitIInv, NextIInv, PTL DEF Spec

\* A VU whose graceful window is over iterates only under a cancelled context,
\* for any number of VUs (forceRetire, setCancel).
THEOREM RetirementReachesAll == Spec => []RetiredIsCut
<1>1. IInv => RetiredIsCut
  BY DEF IInv
<1> QED BY <1>1, InductiveInvariant, PTL

\* The engine is cancelled before the drain window ends only when no VU
\* iterates and none will begin (allVUWorkersIdle, waitForVUWorkers).
THEOREM VerdictTrue == Spec => []IdleVerdictIsTrue
<1>1. IInv => IdleVerdictIsTrue
  BY DEF IInv
<1> QED BY <1>1, InductiveInvariant, PTL

\* No activated VU sleeps on (setActive, waitActive).
THEOREM WakeupsArrive == Spec => []NoLostWakeup
<1>1. IInv => NoLostWakeup
  BY DEF IInv
<1> QED BY <1>1, InductiveInvariant, PTL
=============================================================================
