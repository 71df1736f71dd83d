---------------------------- MODULE RateLimiter ----------------------------
(***************************************************************************)
(* The central pacer of an engine (src/internal/engine/rate_limiter.go):   *)
(* one goroutine sends permits into a channel on every tick and never      *)
(* waits for a full channel; the workers of the engine receive them in     *)
(* Wait, each under its own context.                                       *)
(*                                                                         *)
(* Up to TicksPerSecond requests per second the ticker runs at the rate    *)
(* itself; above it runs TicksPerSecond times a second and spreads the     *)
(* rest of the division over the ticks. A tick stands for one received     *)
(* from the ticker, so ticks that a slow goroutine misses do not occur.    *)
(***************************************************************************)
EXTENDS Integers

CONSTANTS Rps,              \* the configured limit
          TicksPerSecond,   \* maxPacerTicksPerSecond, 1000 in the code
          Waiters,          \* workers calling Wait
          MaxTicks          \* bound on ticks

ASSUME RateAssumption == Rps \in Nat \ {0} /\ TicksPerSecond \in Nat \ {0} /\ MaxTicks \in Nat

Fast == Rps > TicksPerSecond

PermitsPerTick == IF Fast THEN Rps \div TicksPerSecond ELSE 1
RemainderPerTick == IF Fast THEN Rps % TicksPerSecond ELSE 0

\* Mutant of PermitCapacity: a second's worth of permits may pile up.
PermitCapacitySecond == IF Fast THEN Rps ELSE 1

PermitCapacity == IF RemainderPerTick > 0 THEN PermitsPerTick + 1 ELSE PermitsPerTick

\* The exact limit per tick, as a fraction.
Num == IF Fast THEN Rps ELSE 1
Den == IF Fast THEN TicksPerSecond ELSE 1

VARIABLES permits,     \* permits in the channel
          pacer,       \* pc of Run
          count,       \* permits of this tick that are left to send
          remainder,
          waiter,      \* pc of each Wait
          ctxDone,     \* the engine's context is cancelled
          cancelled,   \* waiters whose context is cancelled
          ticks,       \* history: ticks so far
          taken,       \* history: permits received by waiters
          mark         \* history: ticks and taken at some moment between ticks

pacerVars == <<pacer, count, remainder, ticks>>
vars == <<permits, pacerVars, waiter, ctxDone, cancelled, taken, mark>>

\* The type of every variable; the channel holds at most its capacity.
TypeOK ==
  /\ permits \in 0 .. PermitCapacity
  /\ pacer \in {"tick", "send", "exit"}
  /\ count \in 0 .. PermitCapacity /\ remainder \in 0 .. TicksPerSecond - 1
  /\ waiter \in [Waiters -> {"idle", "select", "check"}]
  /\ ctxDone \in BOOLEAN /\ cancelled \subseteq Waiters
  /\ ticks \in 0 .. MaxTicks /\ taken \in Nat
  /\ mark \in [ticks : 0 .. MaxTicks, taken : Nat]

\* newRateLimiter, Reset (which leaves one permit) and the start of Run.
Init ==
  /\ permits = 1 /\ pacer = "tick" /\ count = 0 /\ remainder = 0
  /\ waiter = [w \in Waiters |-> "idle"] /\ ctxDone = FALSE /\ cancelled = {}
  /\ ticks = 0 /\ taken = 0
  /\ mark = [ticks |-> 0, taken |-> 0]

-----------------------------------------------------------------------------
(* The pacer.                                                              *)

WaitersFrame == UNCHANGED <<waiter, ctxDone, cancelled, taken>>

\* Mutant of Tick: the carried second is not taken off the remainder.
TickKeepsRemainder ==
  LET sum == remainder + RemainderPerTick
      carry == sum >= TicksPerSecond
  IN /\ pacer = "tick" /\ ticks < MaxTicks
     /\ pacer' = "send"
     /\ count' = IF carry THEN PermitsPerTick + 1 ELSE PermitsPerTick
     /\ remainder' = IF carry THEN TicksPerSecond - 1 ELSE sum
     /\ ticks' = ticks + 1
     /\ UNCHANGED <<permits, mark>> /\ WaitersFrame

Tick ==
  LET sum == remainder + RemainderPerTick
      carry == sum >= TicksPerSecond
  IN /\ pacer = "tick" /\ ticks < MaxTicks
     /\ pacer' = "send"
     /\ count' = IF carry THEN PermitsPerTick + 1 ELSE PermitsPerTick
     /\ remainder' = IF carry THEN sum - TicksPerSecond ELSE sum
     /\ ticks' = ticks + 1
     /\ UNCHANGED <<permits, mark>> /\ WaitersFrame

SendPermit ==
  /\ pacer = "send" /\ count > 0
  /\ permits < PermitCapacity
  /\ permits' = permits + 1
  /\ count' = count - 1
  /\ UNCHANGED <<pacer, remainder, ticks, mark>> /\ WaitersFrame

\* The tick is served, or the channel is full and the rest is dropped.
EndTick ==
  /\ pacer = "send"
  /\ count = 0 \/ permits = PermitCapacity
  /\ pacer' = "tick"
  /\ count' = 0
  /\ UNCHANGED <<permits, remainder, ticks, mark>> /\ WaitersFrame

PacerReturns ==
  /\ pacer = "tick" /\ ctxDone
  /\ pacer' = "exit"
  /\ UNCHANGED <<permits, count, remainder, ticks, mark>> /\ WaitersFrame

\* The engine's context is the parent of every worker's.
CancelRun ==
  /\ ctxDone' = TRUE
  /\ cancelled' = Waiters
  /\ UNCHANGED <<permits, pacerVars, waiter, taken, mark>>

-----------------------------------------------------------------------------
(* Wait.                                                                   *)

PacerFrame == UNCHANGED <<pacerVars, ctxDone, mark>>

Goes(w, from, to) == waiter[w] = from /\ waiter' = [waiter EXCEPT ![w] = to]

\* A cancelled context is refused before a permit is touched.
CallWait(w) ==
  /\ Goes(w, "idle", IF w \in cancelled THEN "idle" ELSE "select")
  /\ UNCHANGED <<permits, cancelled, taken>> /\ PacerFrame

TakePermit(w) ==
  /\ Goes(w, "select", "check")
  /\ permits > 0
  /\ permits' = permits - 1
  /\ taken' = taken + 1
  /\ UNCHANGED cancelled /\ PacerFrame

\* Cancelled while waiting, or back with a permit (used, or wasted when the
\* context was cancelled in between).
Return(w) ==
  /\ \/ w \in cancelled /\ Goes(w, "select", "idle")
     \/ Goes(w, "check", "idle")
  /\ UNCHANGED <<permits, cancelled, taken>> /\ PacerFrame

\* A worker's context is cancelled (forceRetire), or replaced by a fresh one.
CancelWorker(w) ==
  /\ w \notin cancelled
  /\ cancelled' = cancelled \cup {w}
  /\ UNCHANGED <<permits, waiter, taken>> /\ PacerFrame

RenewWorker(w) ==
  /\ w \in cancelled /\ waiter[w] = "idle" /\ ~ctxDone
  /\ cancelled' = cancelled \ {w}
  /\ UNCHANGED <<permits, waiter, taken>> /\ PacerFrame

\* History only: any moment between two ticks may be the start of a window.
StartWindow ==
  /\ pacer = "tick"
  /\ mark' = [ticks |-> ticks, taken |-> taken]
  /\ UNCHANGED <<permits, pacerVars, waiter, ctxDone, cancelled, taken>>

-----------------------------------------------------------------------------
Next ==
  \/ Tick \/ SendPermit \/ EndTick \/ PacerReturns \/ CancelRun \/ StartWindow
  \/ \E w \in Waiters :
       CallWait(w) \/ TakePermit(w) \/ Return(w) \/ CancelWorker(w) \/ RenewWorker(w)

Spec == Init /\ [][Next]_vars

-----------------------------------------------------------------------------
(* Safety.                                                                 *)

\* The engine never sends more than the configured rate: besides the one permit
\* of the start, the requests of any number of ticks stay within the exact,
\* unrounded limit, for rates that are no multiple of the tick rate too.
RateIsRespected == Den * taken <= Den + ticks * Num

\* README.md 93: "Missed permits are not queued beyond one pacer tick." However
\* long the workers left permits unused, the requests of any later window of
\* ticks exceed the exact limit by less than the permits of one tick and two:
\* one for rounding those up, one for the fraction carried into the window.
BurstIsBounded ==
  Den * (taken - mark.taken) < 2 * Den + Num + (ticks - mark.ticks) * Num

-----------------------------------------------------------------------------
(* The inductive invariant behind both bounds.                             *)

\* Every tick is accounted for to the last fraction: what was taken, what is
\* queued or still to be sent, and the remainder never exceed the permits due.
NoPermitFromNothing ==
  Den * (taken + permits + count) + remainder <= Den + ticks * Num

\* The same within the window: at its start at most a channel full of permits
\* was queued, and less than a permit carried.
NoPermitFromBefore ==
  Den * (taken + permits + count) + remainder
    < Den * (mark.taken + PermitCapacity) + Den + (ticks - mark.ticks) * Num

\* Between two ticks nothing is left to send, and the remainder is a fraction.
PacerRests == remainder < Den /\ (pacer # "send" => count = 0)

MarkIsPast == mark.ticks <= ticks /\ mark.taken <= taken

IInv ==
  /\ TypeOK
  /\ PacerRests
  /\ MarkIsPast
  /\ NoPermitFromNothing
  /\ NoPermitFromBefore
=============================================================================
