------------------------- MODULE RateLimiterProofs -------------------------
(***************************************************************************)
(* Proofs about RateLimiter for every rate, tick rate, set of waiters and  *)
(* number of ticks. IInv counts permits in fractions of 1/Den, so that the *)
(* carried remainder is part of the account; the only fact about division  *)
(* it needs is that a tick's permits and remainder make up the rate.       *)
(***************************************************************************)
EXTENDS RateLimiter, TLAPS

\* What newRateLimiter computes: a tick's permits and its remainder add up to
\* the rate exactly, and the channel holds less than a permit more than that.
LEMMA Division ==
  /\ Num \in Nat \ {0} /\ Den \in Nat \ {0}
  /\ PermitsPerTick \in Nat \ {0} /\ RemainderPerTick \in Nat
  /\ RemainderPerTick < Den
  /\ Den * PermitsPerTick + RemainderPerTick = Num
  /\ PermitCapacity \in Nat \ {0} /\ PermitsPerTick <= PermitCapacity
  /\ RemainderPerTick > 0 => PermitCapacity = PermitsPerTick + 1
  /\ RemainderPerTick = 0 => PermitCapacity = PermitsPerTick
<1> USE RateAssumption
<1>1. CASE ~Fast
  <2>1. Num = 1 /\ Den = 1 /\ PermitsPerTick = 1 /\ RemainderPerTick = 0
    BY <1>1 DEF Num, Den, PermitsPerTick, RemainderPerTick
  <2> QED BY <2>1 DEF PermitCapacity
<1>2. CASE Fast
  <2>1. Num = Rps /\ Den = TicksPerSecond /\ Rps > TicksPerSecond
    BY <1>2 DEF Num, Den, Fast
  <2>2. PermitsPerTick = Rps \div TicksPerSecond /\ RemainderPerTick = Rps % TicksPerSecond
    BY <1>2 DEF PermitsPerTick, RemainderPerTick
  <2>3. /\ Rps \div TicksPerSecond \in Int /\ Rps % TicksPerSecond \in 0 .. TicksPerSecond - 1
        /\ TicksPerSecond * (Rps \div TicksPerSecond) + (Rps % TicksPerSecond) = Rps
    OBVIOUS
  <2>4. Rps \div TicksPerSecond > 0
    <3> DEFINE q == Rps \div TicksPerSecond
    <3>1. TicksPerSecond * q > 0
      BY <2>1, <2>3
    <3>2. q \in Int
      BY <2>3
    <3> HIDE DEF q
    <3>3. q > 0
      BY <3>1, <3>2
    <3> QED BY <3>3 DEF q
  <2> QED BY <2>1, <2>2, <2>3, <2>4 DEF PermitCapacity
<1> QED BY <1>1, <1>2

\* Multiplication distributes over the sums and differences used below.
LEMMA Distribute ==
  ASSUME NEW a \in Int, NEW b \in Int, NEW c \in Int
  PROVE  /\ a * (b + c) = a * b + a * c
         /\ a * (b - c) = a * b - a * c
         /\ (b + c) * a = b * a + c * a
         /\ (b - c) * a = b * a - c * a
OBVIOUS

\* The account of one tick: the permits it will send and the change of the
\* remainder are worth Num, and they fit into the channel.
LEMMA TickAccount ==
  ASSUME IInv, Tick
  PROVE  /\ count' \in 0 .. PermitCapacity
         /\ remainder' \in 0 .. Den - 1 /\ remainder' \in 0 .. TicksPerSecond - 1
         /\ Den * count' + remainder' = remainder + Num
<1> USE RateAssumption
<1>1. /\ remainder \in 0 .. Den - 1 /\ remainder \in 0 .. TicksPerSecond - 1
      /\ RemainderPerTick \in Nat /\ Den \in Nat /\ TicksPerSecond \in Nat
  BY Division DEF IInv, TypeOK, PacerRests
<1>2. CASE remainder + RemainderPerTick >= TicksPerSecond
  <2>1. count' = PermitsPerTick + 1 /\ remainder' = remainder + RemainderPerTick - TicksPerSecond
    BY <1>1, <1>2 DEF Tick
  <2>2. Den = TicksPerSecond
    BY <1>1, <1>2 DEF RemainderPerTick, Den
  <2>3. RemainderPerTick > 0
    BY <1>1, <1>2, <2>2
  <2>4. Den * count' = Den * PermitsPerTick + Den
    BY <2>1, Division
  <2> QED BY <1>1, <1>2, <2>1, <2>2, <2>3, <2>4, Division
<1>3. CASE ~(remainder + RemainderPerTick >= TicksPerSecond)
  <2>1. count' = PermitsPerTick /\ remainder' = remainder + RemainderPerTick
    BY <1>1, <1>3 DEF Tick
  <2>2. remainder + RemainderPerTick < Den
    BY <1>1, <1>3 DEF Den, RemainderPerTick
  <2>3. remainder + RemainderPerTick < TicksPerSecond
    BY <1>1, <1>3
  <2>4. Den * count' + remainder' = remainder + Num
    BY <1>1, <2>1, Division
  <2> QED BY <1>1, <2>1, <2>2, <2>3, <2>4, Division
<1> QED BY <1>2, <1>3

\* Adding the same amount on both sides keeps the order.
LEMMA Larger ==
  ASSUME NEW a \in Nat, NEW b \in Nat, NEW c \in Int, a <= b
  PROVE  a + c <= b + c + 0
OBVIOUS

\* What the pacer puts into the channel comes off what it has left to send.
LEMMA SumsCompare ==
  ASSUME NEW a \in Nat, NEW b \in Nat, NEW c \in Nat, NEW d \in Nat, NEW e \in Nat,
         b + c <= d + e
  PROVE  a + b + c <= a + d + e
OBVIOUS

\* Sums of the three places a permit can be.
LEMMA SumIsNat ==
  ASSUME NEW a \in Nat, NEW b \in Nat, NEW c \in Nat
  PROVE  a + b + c \in Nat
OBVIOUS

\* The products of the accounts, as sums: moving permits between the channel,
\* the pacer and the waiters moves multiples of Den.
LEMMA Products ==
  ASSUME NEW d \in Nat, NEW a \in Nat, NEW b \in Nat, a <= b
  PROVE  d * a \in Nat /\ d * b \in Nat /\ d * a <= d * b
<1>1. d * (b - a) >= 0
  OBVIOUS
<1>2. d * (b - a) = d * b - d * a
  BY Distribute
<1> QED BY <1>1, <1>2

\* The account is kept when the permits do not increase by more than what is due.
LEMMA Accounts ==
  ASSUME IInv, TypeOK', mark' = mark, MarkIsPast',
         NEW due \in Nat,
         Den * (taken' + permits' + count') + remainder'
           <= Den * (taken + permits + count) + remainder + due,
         ticks' * Num = ticks * Num + due,
         (ticks' - mark.ticks) * Num = (ticks - mark.ticks) * Num + due
  PROVE  NoPermitFromNothing' /\ NoPermitFromBefore'
<1> DEFINE new == Den * (taken' + permits' + count') + remainder'
           old == Den * (taken + permits + count) + remainder
           all == ticks * Num
           window == (ticks - mark.ticks) * Num
           before == Den * (mark.taken + PermitCapacity) + Den
<1>1. /\ new \in Int /\ old \in Int /\ all \in Int /\ window \in Int /\ before \in Int
      /\ Den \in Int
  BY Division, RateAssumption DEF IInv, TypeOK
<1>2. new <= old + due
  OBVIOUS
<1>3. old <= Den + all /\ old < before + window
  BY DEF IInv, NoPermitFromNothing, NoPermitFromBefore
<1>4. NoPermitFromNothing' <=> new <= Den + ticks' * Num
  BY DEF NoPermitFromNothing
<1>5. NoPermitFromBefore' <=> new < before + (ticks' - mark.ticks) * Num
  BY DEF NoPermitFromBefore
<1>6. ticks' * Num = all + due /\ (ticks' - mark.ticks) * Num = window + due
  OBVIOUS
<1> HIDE DEF new, old, all, window, before
<1> QED BY <1>1, <1>2, <1>3, <1>4, <1>5, <1>6

\* The channel starts with one permit: the Den on the right of both accounts.
LEMMA InitInv == Init => IInv
<1> SUFFICES ASSUME Init PROVE IInv
  OBVIOUS
<1> USE RateAssumption DEF Init
<1>1. PermitCapacity \in Nat /\ PermitCapacity >= 1
  BY Division
<1>2. TypeOK
  <2>1. 0 \in 0 .. PermitCapacity /\ 1 \in 0 .. PermitCapacity
    BY <1>1
  <2>2. 0 \in 0 .. TicksPerSecond - 1 /\ 0 \in 0 .. MaxTicks
    OBVIOUS
  <2>3. mark \in [ticks : 0 .. MaxTicks, taken : Nat]
    BY <2>2
  <2>4. waiter \in [Waiters -> {"idle", "select", "check"}]
    OBVIOUS
  <2> QED BY <2>1, <2>2, <2>3, <2>4 DEF TypeOK
<1>3. PacerRests /\ MarkIsPast /\ NoPermitFromNothing
  BY Division DEF PacerRests, MarkIsPast, NoPermitFromNothing
<1>4. NoPermitFromBefore
  <2>1. Den * 1 <= Den * PermitCapacity
    BY Division, Products
  <2> QED BY <2>1, Division DEF NoPermitFromBefore
<1> QED BY <1>2, <1>3, <1>4 DEF IInv

\* A tick adds Num to what is due and, with its remainder, exactly Num to the account.
LEMMA TickInv ==
  ASSUME IInv, Tick
  PROVE  IInv'
<1>1. UNCHANGED <<permits, mark, waiter, ctxDone, cancelled, taken>>
  BY DEF Tick, WaitersFrame
<1>2. pacer = "tick" /\ ticks < MaxTicks /\ pacer' = "send" /\ ticks' = ticks + 1
  BY DEF Tick
<1>3. TypeOK'
  BY <1>1, <1>2, TickAccount, RateAssumption DEF IInv, TypeOK
<1>4. PacerRests' /\ MarkIsPast'
  BY <1>1, <1>2, TickAccount, Division DEF IInv, TypeOK, PacerRests, MarkIsPast
<1>5. /\ count = 0 /\ count' \in Nat /\ taken \in Nat /\ permits \in Nat
      /\ ticks \in Nat /\ mark.ticks \in Nat
      /\ Num \in Nat /\ Den \in Nat /\ remainder \in Nat /\ remainder' \in Nat
  BY <1>2, <1>3, Division DEF IInv, TypeOK, PacerRests
<1>6. Den * (taken' + permits' + count') + remainder'
        = Den * (taken + permits + count) + remainder + Num
  <2>1. Den * (taken' + permits' + count') = Den * (taken + permits + count) + Den * count'
    BY <1>1, <1>5, Distribute
  <2>2. Den * (taken + permits + count) \in Int /\ Den * count' \in Int
    BY <1>5
  <2>3. Den * count' + remainder' = remainder + Num
    BY TickAccount
  <2>4. Den * (taken + permits + count) + Den * count' + remainder'
          = Den * (taken + permits + count) + remainder + Num
    <3>1. remainder \in Int /\ remainder' \in Int /\ Num \in Int
      BY <1>5
    <3> QED BY <2>2, <2>3, <3>1
  <2> QED BY <2>1, <2>4
<1>7. ticks' * Num = ticks * Num + Num
  BY <1>2, <1>5, Distribute
<1>8. (ticks' - mark.ticks) * Num = (ticks - mark.ticks) * Num + Num
  <2>1. ticks' - mark.ticks = (ticks - mark.ticks) + 1 /\ ticks - mark.ticks \in Int
    BY <1>2, <1>5
  <2> QED BY <1>5, <2>1, Distribute
<1>9. NoPermitFromNothing' /\ NoPermitFromBefore'
  <2>1. Den * (taken' + permits' + count') + remainder'
          <= Den * (taken + permits + count) + remainder + Num
    <3>1. Den * (taken + permits + count) + remainder + Num \in Int
      BY <1>5
    <3> QED BY <1>6, <3>1
  <2> QED BY <1>1, <1>3, <1>4, <1>5, <1>7, <1>8, <2>1, Accounts
<1> QED BY <1>3, <1>4, <1>9 DEF IInv

\* A step that moves permits or loses some, without a tick, keeps the accounts.
LEMMA MoveInv ==
  ASSUME IInv, TypeOK', PacerRests', MarkIsPast',
         taken' + permits' + count' <= taken + permits + count,
         UNCHANGED <<remainder, ticks, mark>>
  PROVE  IInv'
<1>1. /\ taken \in Nat /\ permits \in Nat /\ count \in Nat
      /\ taken' \in Nat /\ permits' \in Nat /\ count' \in Nat
      /\ Den \in Nat /\ Num \in Nat /\ remainder \in Int
      /\ ticks \in Nat /\ mark.ticks \in Nat
  BY Division, RateAssumption DEF IInv, TypeOK
<1>2. /\ Den * (taken' + permits' + count') \in Nat /\ Den * (taken + permits + count) \in Nat
      /\ Den * (taken' + permits' + count') <= Den * (taken + permits + count)
  <2>1. taken + permits + count \in Nat /\ taken' + permits' + count' \in Nat
    BY <1>1, SumIsNat, Zenon
  <2> QED BY <1>1, <2>1, Products
<1>3. Den * (taken' + permits' + count') + remainder'
        <= Den * (taken + permits + count) + remainder + 0
  <2>1. remainder' = remainder
    OBVIOUS
  <2> QED BY <1>1, <1>2, <2>1, Larger
<1>4. ticks' * Num = ticks * Num + 0
  BY <1>1
<1>5. (ticks' - mark.ticks) * Num = (ticks - mark.ticks) * Num + 0
  BY <1>1
<1>6. NoPermitFromNothing' /\ NoPermitFromBefore'
  BY <1>3, <1>4, <1>5, Accounts
<1> QED BY <1>6 DEF IInv

\* The pacer moves permits into the channel or drops them.
LEMMA PacerInv ==
  ASSUME IInv, SendPermit \/ EndTick \/ PacerReturns
  PROVE  IInv'
<1>1. /\ permits \in Nat /\ count \in Nat /\ taken \in Nat /\ PermitCapacity \in Nat
      /\ permits <= PermitCapacity /\ count <= PermitCapacity
  BY Division DEF IInv, TypeOK
<1>2. UNCHANGED <<remainder, ticks, mark, waiter, ctxDone, cancelled, taken>>
  BY DEF SendPermit, EndTick, PacerReturns, WaitersFrame
<1>3. /\ pacer' \in {"tick", "send", "exit"} /\ (pacer' # "send" => count' = 0)
      /\ permits' \in 0 .. PermitCapacity /\ count' \in 0 .. PermitCapacity
      /\ permits' + count' <= permits + count
  <2>1. CASE SendPermit
    <3>1. pacer' = "send" /\ permits' = permits + 1 /\ count' = count - 1
          /\ count > 0 /\ permits < PermitCapacity
      BY <2>1 DEF SendPermit
    <3> QED BY <1>1, <3>1
  <2>2. CASE EndTick
    <3>1. pacer' = "tick" /\ permits' = permits /\ count' = 0
      BY <2>2 DEF EndTick
    <3> QED BY <1>1, <3>1
  <2>3. CASE PacerReturns
    <3>1. pacer' = "exit" /\ permits' = permits /\ count' = count /\ pacer = "tick"
      BY <2>3 DEF PacerReturns
    <3> QED BY <1>1, <3>1 DEF IInv, PacerRests
  <2> QED BY <2>1, <2>2, <2>3
<1>4. TypeOK'
  <2>1. /\ pacer' \in {"tick", "send", "exit"}
        /\ permits' \in 0 .. PermitCapacity /\ count' \in 0 .. PermitCapacity
    BY <1>3
  <2> QED BY <1>2, <2>1 DEF IInv, TypeOK
<1>5. PacerRests' /\ MarkIsPast'
  <2>1. pacer' # "send" => count' = 0
    BY <1>3
  <2> QED BY <1>2, <2>1 DEF IInv, PacerRests, MarkIsPast
<1>6. taken' + permits' + count' <= taken + permits + count
  <2>1. permits' \in Nat /\ count' \in Nat
    BY <1>4, Division DEF TypeOK
  <2>2. permits' + count' <= permits + count
    BY <1>3
  <2>3. taken' = taken
    BY <1>2
  <2>4. taken + permits' + count' <= taken + permits + count
    BY <1>1, <2>1, <2>2, SumsCompare
  <2> QED BY <2>3, <2>4
<1> QED BY <1>2, <1>4, <1>5, <1>6, MoveInv

\* A waiter moves one permit from the channel to what was taken, or touches none.
LEMMA WaiterInv ==
  ASSUME IInv,
         \E w \in Waiters : \/ CallWait(w) \/ TakePermit(w) \/ Return(w)
                            \/ CancelWorker(w) \/ RenewWorker(w)
  PROVE  IInv'
<1>1. PICK w \in Waiters : \/ CallWait(w) \/ TakePermit(w) \/ Return(w)
                           \/ CancelWorker(w) \/ RenewWorker(w)
  OBVIOUS
<1>2. UNCHANGED <<pacer, count, remainder, ticks, ctxDone, mark>>
  BY <1>1 DEF CallWait, TakePermit, Return, CancelWorker, RenewWorker, PacerFrame, pacerVars
<1>3. /\ permits \in Nat /\ count \in Nat /\ taken \in Nat /\ PermitCapacity \in Nat
      /\ permits <= PermitCapacity
  BY Division DEF IInv, TypeOK
<1>4. /\ permits' \in 0 .. PermitCapacity /\ taken' \in Nat /\ taken <= taken'
      /\ taken' + permits' = taken + permits
  <2>1. CASE TakePermit(w)
    <3>1. permits > 0 /\ permits' = permits - 1 /\ taken' = taken + 1
      BY <2>1 DEF TakePermit
    <3> QED BY <1>3, <3>1
  <2>2. CASE ~TakePermit(w)
    <3>1. permits' = permits /\ taken' = taken
      BY <1>1, <2>2 DEF CallWait, Return, CancelWorker, RenewWorker
    <3> QED BY <1>3, <3>1
  <2> QED BY <2>1, <2>2
<1>5. waiter' \in [Waiters -> {"idle", "select", "check"}]
  BY <1>1 DEF IInv, TypeOK, CallWait, TakePermit, Return, CancelWorker, RenewWorker, Goes
<1>6. cancelled' \subseteq Waiters
  BY <1>1 DEF IInv, TypeOK, CallWait, TakePermit, Return, CancelWorker, RenewWorker
<1>7. TypeOK'
  BY <1>2, <1>4, <1>5, <1>6 DEF IInv, TypeOK
<1>8. PacerRests' /\ MarkIsPast'
  <2>1. mark.taken \in Nat
    BY DEF IInv, TypeOK
  <2> QED BY <1>2, <1>3, <1>4, <2>1 DEF IInv, PacerRests, MarkIsPast
<1>9. taken' + permits' + count' <= taken + permits + count
  <2>1. taken' + permits' = taken + permits
    BY <1>4
  <2>2. count' = count
    BY <1>2
  <2>3. taken' + permits' + count' = taken + permits + count
    BY <2>1, <2>2
  <2>4. taken + permits + count \in Nat
    BY <1>3
  <2> QED BY <2>3, <2>4
<1> QED BY <1>2, <1>7, <1>8, <1>9, MoveInv

\* Cancelling touches no permit.
LEMMA CancelRunInv ==
  ASSUME IInv, CancelRun
  PROVE  IInv'
<1>1. UNCHANGED <<permits, pacer, count, remainder, ticks, waiter, taken, mark>>
  BY DEF CancelRun, pacerVars
<1>2. ctxDone' = TRUE /\ cancelled' = Waiters
  BY DEF CancelRun
<1>3. TypeOK'
  BY <1>1, <1>2 DEF IInv, TypeOK
<1> QED BY <1>1, <1>3 DEF IInv, PacerRests, MarkIsPast, NoPermitFromNothing, NoPermitFromBefore

\* A new window: what may be left over from before it is a channel full.
LEMMA StartWindowInv ==
  ASSUME IInv, StartWindow
  PROVE  IInv'
<1>1. UNCHANGED <<permits, pacer, count, remainder, ticks, waiter, ctxDone, cancelled, taken>>
  BY DEF StartWindow, pacerVars
<1>2. mark' = [ticks |-> ticks, taken |-> taken] /\ count = 0
  BY DEF StartWindow, IInv, PacerRests
<1>3. /\ ticks \in 0 .. MaxTicks /\ ticks \in Nat /\ taken \in Nat /\ permits \in Nat
      /\ permits <= PermitCapacity /\ PermitCapacity \in Nat
      /\ Den \in Nat /\ Num \in Nat /\ remainder \in Nat /\ remainder < Den
  BY Division, RateAssumption DEF IInv, TypeOK, PacerRests
<1>4. TypeOK' /\ PacerRests' /\ NoPermitFromNothing'
  BY <1>1, <1>2, <1>3 DEF IInv, TypeOK, PacerRests, NoPermitFromNothing
<1>5. MarkIsPast'
  BY <1>1, <1>2, <1>3 DEF MarkIsPast
<1>6. NoPermitFromBefore'
  <2>1. taken + permits + count \in Nat /\ taken + PermitCapacity \in Nat
        /\ taken + permits + count <= taken + PermitCapacity
    BY <1>2, <1>3
  <2>2. Den * (taken + permits + count) <= Den * (taken + PermitCapacity)
    BY <1>3, <2>1, Products
  <2>3. (ticks' - mark'.ticks) * Num = 0 /\ mark'.taken = taken
    BY <1>1, <1>2, <1>3
  <2>4. Den * (taken + permits + count) \in Nat /\ Den * (taken + PermitCapacity) \in Nat
    BY <1>3, <2>1, Products
  <2>5. Den * (taken + permits + count) + remainder < Den * (taken + PermitCapacity) + Den + 0
    BY <1>3, <2>2, <2>4
  <2> QED BY <1>1, <2>3, <2>5 DEF NoPermitFromBefore
<1> QED BY <1>4, <1>5, <1>6 DEF IInv

\* The invariant speaks of variables only.
LEMMA StutterInv ==
  ASSUME IInv, UNCHANGED vars
  PROVE  IInv'
<1> USE DEF vars, pacerVars
<1>1. TypeOK'
  BY DEF IInv, TypeOK
<1> QED BY <1>1 DEF IInv, PacerRests, MarkIsPast, NoPermitFromNothing, NoPermitFromBefore

\* The invariant from which the bounds follow holds in every reachable state.
THEOREM InductiveInvariant == Spec => []IInv
<1>1. IInv /\ [Next]_vars => IInv'
  <2> SUFFICES ASSUME IInv, [Next]_vars PROVE IInv'
    OBVIOUS
  <2>1. CASE Tick
    BY <2>1, TickInv
  <2>2. CASE SendPermit \/ EndTick \/ PacerReturns
    BY <2>2, PacerInv
  <2>3. CASE CancelRun
    BY <2>3, CancelRunInv
  <2>4. CASE StartWindow
    BY <2>4, StartWindowInv
  <2>5. CASE \E w \in Waiters : \/ CallWait(w) \/ TakePermit(w) \/ Return(w)
                                \/ CancelWorker(w) \/ RenewWorker(w)
    BY <2>5, WaiterInv
  <2>6. CASE UNCHANGED vars
    BY <2>6, StutterInv
  <2> QED BY <2>1, <2>2, <2>3, <2>4, <2>5, <2>6 DEF Next
<1> QED BY <1>1, InitInv, PTL DEF Spec

\* Type correctness: the channel in particular never exceeds its capacity.
THEOREM TypeCorrect == Spec => []TypeOK
<1>1. IInv => TypeOK
  BY DEF IInv
<1> QED BY <1>1, InductiveInvariant, PTL

\* Whatever the rate, the tick rate and the workers do: over any number of ticks
\* the engine receives at most the exact number of permits due, and one.
THEOREM RateRespected == Spec => []RateIsRespected
<1>1. ASSUME IInv PROVE RateIsRespected
  <2>1. /\ taken \in Nat /\ permits \in Nat /\ count \in Nat /\ remainder \in Nat
        /\ Den \in Nat /\ Num \in Nat /\ ticks \in Nat
    BY <1>1, Division DEF IInv, TypeOK
  <2>2. taken <= taken + permits + count /\ taken + permits + count \in Nat
    BY <2>1
  <2>3. /\ Den * taken <= Den * (taken + permits + count)
        /\ Den * taken \in Nat /\ Den * (taken + permits + count) \in Nat
    BY <2>1, <2>2, Products
  <2>4. Den * (taken + permits + count) + remainder <= Den + ticks * Num
    BY <1>1 DEF IInv, NoPermitFromNothing
  <2>5. Den + ticks * Num \in Nat
    BY <2>1
  <2> QED BY <2>1, <2>3, <2>4, <2>5 DEF RateIsRespected
<1> QED BY <1>1, InductiveInvariant, PTL

\* However long permits were left unused: the requests of any window exceed the
\* exact limit by less than the permits of one tick and two.
THEOREM BurstBounded == Spec => []BurstIsBounded
<1>1. ASSUME IInv PROVE BurstIsBounded
  <2>1. /\ taken \in Nat /\ permits \in Nat /\ count \in Nat /\ remainder \in Nat
        /\ mark.taken \in Nat /\ mark.ticks \in Nat /\ ticks \in Nat
        /\ Den \in Nat /\ Num \in Nat /\ PermitCapacity \in Nat
        /\ mark.taken <= taken
    BY <1>1, Division DEF IInv, TypeOK, MarkIsPast
  <2>2. Den * PermitCapacity <= Num + Den
    <3>1. CASE RemainderPerTick = 0
      BY <3>1, <2>1, Division
    <3>2. CASE RemainderPerTick > 0
      <4>1. Den * PermitCapacity = Den * PermitsPerTick + Den
        BY <3>2, <2>1, Division
      <4> QED BY <3>2, <4>1, <2>1, Division
    <3> QED BY <3>1, <3>2, Division
  <2>3. taken <= taken + permits + count /\ taken + permits + count \in Nat
    BY <2>1
  <2>4. /\ Den * taken <= Den * (taken + permits + count)
        /\ Den * taken \in Nat /\ Den * (taken + permits + count) \in Nat
    BY <2>1, <2>3, Products
  <2>5. Den * (taken + permits + count) + remainder
          < Den * (mark.taken + PermitCapacity) + Den + (ticks - mark.ticks) * Num
    BY <1>1 DEF IInv, NoPermitFromBefore
  <2>6. Den * (mark.taken + PermitCapacity) = Den * mark.taken + Den * PermitCapacity
    BY <2>1, Distribute
  <2>7. Den * (taken - mark.taken) = Den * taken - Den * mark.taken
    BY <2>1, Distribute
  <2>8. Den * mark.taken \in Int /\ Den * PermitCapacity \in Int
        /\ (ticks - mark.ticks) * Num \in Int
    BY <2>1
  <2>9. Den * taken < Den * mark.taken + Num + 2 * Den + (ticks - mark.ticks) * Num
    <3>1. Den * (taken + permits + count) + remainder
            < Den * mark.taken + Den * PermitCapacity + Den + (ticks - mark.ticks) * Num
      BY <2>5, <2>6
    <3>2. Den * taken < Den * mark.taken + Den * PermitCapacity + Den + (ticks - mark.ticks) * Num
      BY <2>1, <2>4, <2>8, <3>1
    <3> QED BY <2>1, <2>2, <2>4, <2>8, <3>2
  <2> QED BY <2>1, <2>4, <2>7, <2>8, <2>9 DEF BurstIsBounded
<1> QED BY <1>1, InductiveInvariant, PTL
=============================================================================
