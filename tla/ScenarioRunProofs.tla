-------------------------- MODULE ScenarioRunProofs --------------------------
(***************************************************************************)
(* What holds of an iteration for every request, whatever its plan: an     *)
(* assertion that is counted was evaluated in this iteration, no iteration *)
(* is cut short by the bound on its transitions, the shards of a request   *)
(* add up to it, the routes that are open are those the step lies in, and  *)
(* a request finds its variables. The first is what                        *)
(* attachPlannedAssertions rests on, that the request of an assertion      *)
(* dominates it, so one part is about executionDominators, on every graph. *)
(* The second counts what is left of a plan without nested loops: the      *)
(* steps ahead, and the steps of each round of a loop. The third is about  *)
(* quotients and remainders. The last two are about the regions of a plan: *)
(* routes that meet at their join only, with the bodies of their loops.    *)
(***************************************************************************)
EXTENDS ScenarioRun, FiniteSetTheorems, WellFoundedInduction, TLAPS

-----------------------------------------------------------------------------
(* Induction over sizes, as a set of numbers that has 0 and with each number *)
(* the next: the provers cannot instantiate the library's theorems, whose    *)
(* parameter is an operator.                                                 *)

LEMMA LeastNumber ==
  ASSUME NEW A \in SUBSET Nat, A # {}
  PROVE  \E n \in A : \A m \in A : n <= m
<1>1. IsWellFoundedOn(OpToRel(<, Nat), Nat) BY NatLessThanWellFounded
<1>2. PICK x \in A : \A y \in A : <<y, x>> \notin OpToRel(<, Nat) BY <1>1, WFMin
<1>3. ASSUME NEW y \in A, y < x PROVE FALSE
  <2>1. <<y, x>> \in OpToRel(<, Nat) BY <1>3 DEF OpToRel
  <2> QED BY <2>1, <1>2
<1> QED BY <1>3

LEMMA Climb ==
  ASSUME NEW N \in Nat, NEW A, 0 \in A, \A n \in 0 .. N - 1 : n \in A => n + 1 \in A
  PROVE  \A n \in 0 .. N : n \in A
<1> SUFFICES ASSUME NEW k \in 0 .. N, k \notin A PROVE FALSE OBVIOUS
<1> DEFINE Rest == (0 .. N) \ A
<1>1. Rest \in SUBSET Nat /\ Rest # {} OBVIOUS
<1>2. PICK n \in Rest : \A m \in Rest : n <= m
  <2> HIDE DEF Rest
  <2> QED BY <1>1, LeastNumber
<1>3. n \in 0 .. N /\ n # 0 /\ n \notin A OBVIOUS
<1>4. n - 1 \in 0 .. N - 1 /\ n - 1 \notin Rest BY <1>2, <1>3
<1>5. n - 1 \in A BY <1>4
<1>6. (n - 1) + 1 = n BY <1>3
<1> QED BY <1>3, <1>4, <1>5, <1>6

\* A rule gives a sequence of values of any length.
RoundsOf(N, first, Rule, f) ==
  f = [k \in 0 .. N |-> IF k = 0 THEN first ELSE Rule[f[k - 1]]]

LEMMA RoundsExist ==
  ASSUME NEW N \in Nat, NEW first, NEW Rule
  PROVE  \E f : RoundsOf(N, first, Rule, f)
<1> DEFINE Sizes == {n \in Nat : \E f : RoundsOf(n, first, Rule, f)}
<1>1. 0 \in Sizes
  <2>1. RoundsOf(0, first, Rule, [k \in 0 .. 0 |-> first]) BY DEF RoundsOf
  <2> QED BY <2>1
<1>2. ASSUME NEW n \in Nat, n \in Sizes PROVE n + 1 \in Sizes
  <2>1. PICK f : RoundsOf(n, first, Rule, f) BY <1>2
  <2> DEFINE g == [k \in 0 .. n + 1 |-> IF k = 0 THEN first ELSE Rule[f[k - 1]]]
  <2>2. ASSUME NEW k \in 0 .. n PROVE g[k] = f[k]
    BY <2>1 DEF RoundsOf
  <2>3. \A k \in 0 .. n + 1 : k # 0 => k - 1 \in 0 .. n OBVIOUS
  <2>4. \A k \in 0 .. n + 1 : k # 0 => g[k - 1] = f[k - 1]
    <3> HIDE DEF g
    <3> QED BY <2>2, <2>3
  <2>5. RoundsOf(n + 1, first, Rule, g) BY <2>4 DEF RoundsOf
  <2> HIDE DEF g
  <2> QED BY <2>5
<1>3. \A n \in 0 .. N : n \in Sizes
  <2> HIDE DEF Sizes
  <2> QED BY <1>1, <1>2, Climb
<1> QED BY <1>3

\* Sets that grow inside N, and never again once they did not.
Chain(L, N, K) ==
  /\ L \in [0 .. K -> SUBSET N]
  /\ \A k \in 0 .. K - 1 : L[k] \subseteq L[k + 1]
  /\ \A k \in 0 .. K - 2 : L[k] = L[k + 1] => L[k + 1] = L[k + 2]

\* After as many rounds as N has members they have stopped growing, if they are
\* not all of N.
LEMMA ChainStops ==
  ASSUME NEW N, IsFiniteSet(N), NEW K, K = Cardinality(N), NEW L, Chain(L, N, K)
  PROVE  L[K] = N \/ (K > 0 /\ L[K - 1] = L[K])
<1>0. /\ L \in [0 .. K -> SUBSET N]
      /\ \A k \in 0 .. K - 1 : L[k] \subseteq L[k + 1]
      /\ \A k \in 0 .. K - 2 : L[k] = L[k + 1] => L[k + 1] = L[k + 2]
  BY DEF Chain
<1>1. K \in Nat BY FS_CardinalityType
<1>2. \A k \in 0 .. K : IsFiniteSet(L[k]) /\ Cardinality(L[k]) \in Nat
  BY <1>0, FS_Subset, FS_CardinalityType
<1> DEFINE A == {k \in 0 .. K : Cardinality(L[k]) >= k \/ (k > 0 /\ L[k - 1] = L[k])}
<1>3. 0 \in A BY <1>1, <1>2
<1>4. ASSUME NEW k \in 0 .. K - 1, k \in A PROVE k + 1 \in A
  <2>0. k + 1 \in 0 .. K /\ k \in 0 .. K /\ (k + 1) - 1 = k BY <1>1
  <2>1. CASE k > 0 /\ L[k - 1] = L[k]
    <3>1. k - 1 \in 0 .. K - 2 /\ (k - 1) + 1 = k /\ (k - 1) + 2 = k + 1 BY <1>1, <2>1
    <3>2. L[k] = L[k + 1] BY <1>0, <2>1, <3>1
    <3> QED BY <2>0, <3>2
  <2>2. CASE Cardinality(L[k]) >= k /\ L[k] # L[k + 1]
    <3>1. Cardinality(L[k]) < Cardinality(L[k + 1])
      BY <1>0, <1>2, <2>0, <2>2, FS_Subset
    <3>2. Cardinality(L[k + 1]) >= k + 1 BY <1>2, <2>0, <2>2, <3>1
    <3> QED BY <2>0, <3>2
  <2>3. CASE L[k] = L[k + 1] BY <2>0, <2>3
  <2> QED BY <1>4, <2>1, <2>2, <2>3
<1>5. K \in A
  <2> HIDE DEF A
  <2>1. \A k \in 0 .. K : k \in A BY <1>1, <1>3, <1>4, Climb
  <2> QED BY <1>1, <2>1
<1>6. CASE Cardinality(L[K]) >= K
  <2>1. K \in 0 .. K /\ L[K] \in SUBSET N BY <1>0, <1>1
  <2>2. Cardinality(L[K]) <= K BY <2>1, FS_Subset
  <2>3. Cardinality(L[K]) = Cardinality(N) BY <1>1, <1>2, <1>6, <2>1, <2>2
  <2>4. L[K] = N BY <2>1, <2>3, FS_Subset
  <2> QED BY <2>4
<1> QED BY <1>5, <1>6

\* A set of subsets of S that has {}, and each subset it has all but one element
\* of, whichever, has all of them.
LEMMA SubsetInduction ==
  ASSUME NEW S, IsFiniteSet(S), NEW G, {} \in G,
         \A s \in SUBSET S : s # {} /\ (\A y \in s : s \ {y} \in G) => s \in G
  PROVE  \A s \in SUBSET S : s \in G
<1> DEFINE N == Cardinality(S)
           Sizes == {n \in 0 .. N : \A s \in SUBSET S : Cardinality(s) = n => s \in G}
<1>1. \A s \in SUBSET S : IsFiniteSet(s) /\ Cardinality(s) \in 0 .. N
  BY FS_Subset, FS_CardinalityType
<1>2. N \in Nat BY FS_CardinalityType
<1> HIDE DEF N
<1>3. 0 \in Sizes BY <1>1, <1>2, FS_EmptySet
<1>4. ASSUME NEW n \in 0 .. N - 1, n \in Sizes PROVE n + 1 \in Sizes
  <2>1. n + 1 \in 0 .. N BY <1>2
  <2> SUFFICES ASSUME NEW s \in SUBSET S, Cardinality(s) = n + 1 PROVE s \in G
    BY <2>1
  <2>2. \A t \in SUBSET S : Cardinality(t) = n => t \in G BY <1>4
  <2> HIDE DEF Sizes
  <2>3. s # {} BY <1>1, <2>1, FS_EmptySet
  <2>4. ASSUME NEW y \in s PROVE s \ {y} \in G
    <3>1. Cardinality(s \ {y}) = Cardinality(s) - 1 BY <1>1, FS_RemoveElement
    <3> QED BY <2>2, <3>1
  <2> QED BY <2>3, <2>4
<1>5. \A n \in 0 .. N : n \in Sizes
  <2> HIDE DEF Sizes
  <2> QED BY <1>2, <1>3, <1>4, Climb
<1> QED BY <1>1, <1>5

\* The recursion of MapThenSumSet.
First(s) == CHOOSE x \in s : TRUE
SumsOn(D, h, f) ==
  h = [s \in D |-> IF s = {} THEN 0 ELSE f[First(s)] + h[s \ {First(s)}]]

LEMMA FirstIsIn == ASSUME NEW s, s # {} PROVE First(s) \in s
BY DEF First

LEMMA SumsExist ==
  ASSUME NEW f, NEW S, IsFiniteSet(S)
  PROVE  \E h : SumsOn(SUBSET S, h, f)
<1> DEFINE N == Cardinality(S)
           Small(n) == {s \in SUBSET S : Cardinality(s) <= n}
           Sizes == {n \in 0 .. N : \E h : SumsOn(Small(n), h, f)}
<1>1. \A s \in SUBSET S : IsFiniteSet(s) /\ Cardinality(s) \in Nat /\ Cardinality(s) <= N
  BY FS_Subset, FS_CardinalityType
<1>2. N \in Nat BY FS_CardinalityType
<1> HIDE DEF N
<1>3. 0 \in Sizes
  <2>1. \A s \in Small(0) : s = {} BY <1>1, FS_EmptySet
  <2> DEFINE h == [s \in Small(0) |-> 0]
  <2>2. SumsOn(Small(0), h, f) BY <2>1 DEF SumsOn
  <2>3. 0 \in 0 .. N BY <1>2
  <2> HIDE DEF h, Small
  <2> QED BY <2>2, <2>3
<1>4. ASSUME NEW n \in 0 .. N - 1, n \in Sizes PROVE n + 1 \in Sizes
  <2>1. PICK h : SumsOn(Small(n), h, f) BY <1>4
  <2>2. n \in Nat /\ n + 1 \in 0 .. N BY <1>2
  <2> DEFINE g == [s \in Small(n + 1) |->
                     IF s = {} THEN 0 ELSE f[First(s)] + h[s \ {First(s)}]]
  <2>3. ASSUME NEW s \in Small(n + 1), s # {}
        PROVE  s \ {First(s)} \in Small(n) /\ s \ {First(s)} \in Small(n + 1)
    <3>1. Cardinality(s \ {First(s)}) = Cardinality(s) - 1
      BY <1>1, <2>3, FirstIsIn, FS_RemoveElement
    <3> QED BY <1>1, <2>2, <3>1
  <2>4. ASSUME NEW s \in Small(n) PROVE s \in Small(n + 1) /\ g[s] = h[s]
    <3>1. s \in Small(n + 1) BY <1>1, <2>2
    <3>2. h[s] = IF s = {} THEN 0 ELSE f[First(s)] + h[s \ {First(s)}]
      BY <2>1 DEF SumsOn
    <3> QED BY <3>1, <3>2
  <2>5. \A s \in Small(n + 1) : s # {} => g[s \ {First(s)}] = h[s \ {First(s)}]
    BY <2>3, <2>4
  <2>6. SumsOn(Small(n + 1), g, f) BY <2>5 DEF SumsOn
  <2> HIDE DEF g, Small
  <2> QED BY <2>2, <2>6
<1>5. \A n \in 0 .. N : n \in Sizes
  <2> HIDE DEF Sizes
  <2> QED BY <1>2, <1>3, <1>4, Climb
<1>6. N \in Sizes
  <2>1. N \in 0 .. N BY <1>2
  <2> HIDE DEF Sizes
  <2> QED BY <1>5, <2>1
<1>7. Small(N) = SUBSET S BY <1>1
<1> QED BY <1>6, <1>7


-----------------------------------------------------------------------------
(* executionDominators.                                                      *)

Graph(edges) == edges = [n \in DOMAIN edges |-> edges[n]] /\ IsFiniteSet(DOMAIN edges)
                /\ \A n \in DOMAIN edges : edges[n] \subseteq DOMAIN edges
Pairs(edges) == (DOMAIN edges) \X (DOMAIN edges)

\* The recursion of Dominators.
LostOf(edges, entry, lost) ==
  lost = [k \in 0 .. Cardinality(DOMAIN edges) |->
           IF k = 0 THEN {<<entry, d>> : d \in (DOMAIN edges) \ {entry}}
           ELSE LostNext(edges, entry, lost[k - 1])]

\* A step loses what a predecessor has lost, except itself; the entry nothing more.
LEMMA LostNextIs ==
  ASSUME NEW edges, Graph(edges), NEW entry \in DOMAIN edges, NEW lost \in SUBSET Pairs(edges)
  PROVE  /\ LostNext(edges, entry, lost) \in SUBSET Pairs(edges)
         /\ \A n, d \in DOMAIN edges :
              <<n, d>> \in LostNext(edges, entry, lost) <=>
                \/ <<n, d>> \in lost
                \/ n # d /\ n # entry /\ \E m \in DOMAIN edges : n \in edges[m] /\ <<m, d>> \in lost
<1> DEFINE N == DOMAIN edges
           kept == {<<n, n>> : n \in N} \cup {<<entry, d>> : d \in N}
           passed == UNION {{<<n, pair[2]>> : n \in edges[pair[1]]} : pair \in lost}
<1>1. LostNext(edges, entry, lost) = lost \cup (passed \ kept) BY DEF LostNext
<1>2. passed \in SUBSET Pairs(edges) BY DEF Graph, Pairs
<1>3. \A n, d \in N : <<n, d>> \in passed <=> \E m \in N : n \in edges[m] /\ <<m, d>> \in lost
  <2> SUFFICES ASSUME NEW n \in N, NEW d \in N
               PROVE  <<n, d>> \in passed <=> \E m \in N : n \in edges[m] /\ <<m, d>> \in lost
    OBVIOUS
  <2>1. ASSUME <<n, d>> \in passed PROVE \E m \in N : n \in edges[m] /\ <<m, d>> \in lost
    <3>1. PICK pair \in lost : <<n, d>> \in {<<x, pair[2]>> : x \in edges[pair[1]]} BY <2>1
    <3>2. n \in edges[pair[1]] /\ pair[2] = d BY <3>1
    <3>3. pair = <<pair[1], pair[2]>> /\ pair[1] \in N BY DEF Pairs
    <3> QED BY <3>2, <3>3
  <2>2. ASSUME NEW m \in N, n \in edges[m], <<m, d>> \in lost PROVE <<n, d>> \in passed
    <3>1. <<n, d>> \in {<<x, <<m, d>>[2]>> : x \in edges[<<m, d>>[1]]} BY <2>2
    <3> QED BY <2>2, <3>1
  <2> QED BY <2>1, <2>2
<1>4. \A n, d \in N : <<n, d>> \in kept <=> n = d \/ n = entry OBVIOUS
<1> HIDE DEF passed, kept
<1> QED BY <1>1, <1>2, <1>3, <1>4

LEMMA LostIsComputed ==
  ASSUME NEW edges, Graph(edges), NEW entry \in DOMAIN edges
  PROVE  \E lost :
           /\ LostOf(edges, entry, lost)
           /\ Dominators(edges, entry) =
                [n \in DOMAIN edges |->
                  {d \in DOMAIN edges : <<n, d>> \notin lost[Cardinality(DOMAIN edges)]}]
<1> DEFINE K == Cardinality(DOMAIN edges)
           first == {<<entry, d>> : d \in (DOMAIN edges) \ {entry}}
           Rule == [x \in SUBSET Pairs(edges) |-> LostNext(edges, entry, x)]
<1>1. K \in Nat BY FS_CardinalityType DEF Graph
<1>2. first \in SUBSET Pairs(edges) BY DEF Pairs
<1>3. \A x \in SUBSET Pairs(edges) :
        Rule[x] = LostNext(edges, entry, x) /\ Rule[x] \in SUBSET Pairs(edges)
  BY LostNextIs
<1>4. \E f : LostOf(edges, entry, f)
  <2> HIDE DEF K, first, Rule
  <2>1. PICK f : RoundsOf(K, first, Rule, f) BY <1>1, RoundsExist
  <2> DEFINE A == {k \in 0 .. K : f[k] \in SUBSET Pairs(edges)}
  <2>2. \A k \in 0 .. K : f[k] = IF k = 0 THEN first ELSE Rule[f[k - 1]]
    BY <2>1 DEF RoundsOf
  <2>3. 0 \in A BY <1>1, <1>2, <2>2
  <2>4. ASSUME NEW k \in 0 .. K - 1, k \in A PROVE k + 1 \in A
    <3>1. k + 1 \in 0 .. K /\ k + 1 # 0 /\ (k + 1) - 1 = k BY <1>1
    <3>2. f[k + 1] = Rule[f[k]] BY <2>2, <3>1
    <3> QED BY <1>3, <2>4, <3>1, <3>2
  <2>5. \A k \in 0 .. K : k \in A
    <3> HIDE DEF A
    <3> QED BY <1>1, <2>3, <2>4, Climb
  <2>6. \A k \in 0 .. K : k # 0 => k - 1 \in 0 .. K BY <1>1
  <2>7. \A k \in 0 .. K : k # 0 => Rule[f[k - 1]] = LostNext(edges, entry, f[k - 1])
    BY <1>3, <2>5, <2>6
  <2>8. f = [k \in 0 .. K |-> IF k = 0 THEN first ELSE LostNext(edges, entry, f[k - 1])]
    BY <2>1, <2>7 DEF RoundsOf
  <2> QED BY <2>8 DEF LostOf, K, first
<1> DEFINE lost == CHOOSE f : LostOf(edges, entry, f)
<1>5. LostOf(edges, entry, lost) BY <1>4
<1>6. Dominators(edges, entry) =
        [n \in DOMAIN edges |->
          {d \in DOMAIN edges : <<n, d>> \notin lost[Cardinality(DOMAIN edges)]}]
  BY DEF Dominators, LostOf
<1> QED BY <1>5, <1>6

LEMMA LostChain ==
  ASSUME NEW edges, Graph(edges), NEW entry \in DOMAIN edges,
         NEW lost, LostOf(edges, entry, lost), NEW K, K = Cardinality(DOMAIN edges)
  PROVE  /\ K \in Nat
         /\ \A k \in 0 .. K : lost[k] \in SUBSET Pairs(edges)
         /\ lost[0] = {<<entry, d>> : d \in (DOMAIN edges) \ {entry}}
         /\ \A k \in 0 .. K - 1 : lost[k + 1] = LostNext(edges, entry, lost[k])
<1>1. K \in Nat BY FS_CardinalityType DEF Graph
<1>2. \A k \in 0 .. K - 1 : k + 1 \in 0 .. K /\ k + 1 # 0 /\ (k + 1) - 1 = k BY <1>1
<1>3. 0 \in 0 .. K BY <1>1
<1>4. lost[0] = {<<entry, d>> : d \in (DOMAIN edges) \ {entry}} BY <1>3 DEF LostOf
<1>5. \A k \in 0 .. K - 1 : lost[k + 1] = LostNext(edges, entry, lost[k])
  BY <1>2 DEF LostOf
<1> DEFINE A == {k \in 0 .. K : lost[k] \in SUBSET Pairs(edges)}
<1>6. 0 \in A BY <1>3, <1>4 DEF Pairs
<1>7. ASSUME NEW k \in 0 .. K - 1, k \in A PROVE k + 1 \in A
  BY <1>2, <1>5, <1>7, LostNextIs
<1>8. \A k \in 0 .. K : k \in A
  <2> HIDE DEF A
  <2> QED BY <1>1, <1>6, <1>7, Climb
<1> QED BY <1>1, <1>4, <1>5, <1>8

\* Each step keeps itself, and in the last round nothing is lost any more.
LEMMA LostIsClosed ==
  ASSUME NEW edges, Graph(edges), NEW entry \in DOMAIN edges,
         NEW lost, LostOf(edges, entry, lost), NEW K, K = Cardinality(DOMAIN edges),
         NEW d \in DOMAIN edges
  PROVE  /\ <<d, d>> \notin lost[K]
         /\ d # entry => <<entry, d>> \in lost[K]
         /\ \A m, n \in DOMAIN edges :
              n \in edges[m] /\ <<m, d>> \in lost[K] /\ n # d /\ n # entry => <<n, d>> \in lost[K]
<1> DEFINE N == DOMAIN edges
           L == [k \in 0 .. K |-> {n \in N : <<n, d>> \in lost[k]}]
<1>1. /\ K \in Nat
      /\ \A k \in 0 .. K : lost[k] \in SUBSET Pairs(edges)
      /\ lost[0] = {<<entry, x>> : x \in N \ {entry}}
      /\ \A k \in 0 .. K - 1 : lost[k + 1] = LostNext(edges, entry, lost[k])
  BY LostChain
<1>2. \A k \in 0 .. K - 1 : k + 1 \in 0 .. K /\ k \in 0 .. K BY <1>1
<1>3. \A k \in 0 .. K - 1 : \A n \in N :
        n \in L[k + 1] <=>
          \/ n \in L[k]
          \/ n # d /\ n # entry /\ \E m \in N : n \in edges[m] /\ m \in L[k]
  <2> SUFFICES ASSUME NEW k \in 0 .. K - 1, NEW n \in N
               PROVE  n \in L[k + 1] <=>
                        \/ n \in L[k]
                        \/ n # d /\ n # entry /\ \E m \in N : n \in edges[m] /\ m \in L[k]
    OBVIOUS
  <2>1. lost[k] \in SUBSET Pairs(edges) /\ lost[k + 1] = LostNext(edges, entry, lost[k])
    BY <1>1, <1>2
  <2>2. <<n, d>> \in lost[k + 1] <=>
          \/ <<n, d>> \in lost[k]
          \/ n # d /\ n # entry /\ \E m \in N : n \in edges[m] /\ <<m, d>> \in lost[k]
    <3>1. \A x \in SUBSET Pairs(edges) :
            <<n, d>> \in LostNext(edges, entry, x) <=>
              <<n, d>> \in x \/ (n # d /\ n # entry /\ \E m \in N : n \in edges[m] /\ <<m, d>> \in x)
      BY LostNextIs
    <3> QED BY <2>1, <3>1
  <2>3. \A m \in N : (m \in L[k] <=> <<m, d>> \in lost[k]) /\ (m \in L[k + 1] <=> <<m, d>> \in lost[k + 1])
    BY <1>2
  <2> HIDE DEF L
  <2> QED BY <2>2, <2>3
<1>4. 0 \in 0 .. K /\ L[0] = {n \in {entry} : d # entry} BY <1>1
<1>5. L \in [0 .. K -> SUBSET N] OBVIOUS
<1>6. L[K] = {n \in N : <<n, d>> \in lost[K]} BY <1>1
<1> HIDE DEF L
<1>7. \A k \in 0 .. K : d \notin L[k] /\ (d # entry => entry \in L[k])
  <2> DEFINE A == {k \in 0 .. K : d \notin L[k] /\ (d # entry => entry \in L[k])}
  <2>1. 0 \in A BY <1>4
  <2>2. ASSUME NEW k \in 0 .. K - 1, k \in A PROVE k + 1 \in A BY <1>2, <1>3, <2>2
  <2>3. \A k \in 0 .. K : k \in A
    <3> HIDE DEF A
    <3> QED BY <1>1, <2>1, <2>2, Climb
  <2> QED BY <2>3
<1>8. \A k \in 0 .. K - 1 : L[k] \subseteq L[k + 1] BY <1>2, <1>3, <1>5
<1>9. \A k \in 0 .. K - 2 : L[k] = L[k + 1] => L[k + 1] = L[k + 2]
  <2> SUFFICES ASSUME NEW k \in 0 .. K - 2, L[k] = L[k + 1] PROVE L[k + 1] = L[k + 2]
    OBVIOUS
  <2>1. k \in 0 .. K - 1 /\ k + 1 \in 0 .. K - 1 /\ (k + 1) + 1 = k + 2 /\ k + 2 \in 0 .. K
    BY <1>1
  <2>2. \A n \in N : n \in L[k + 2] <=> n \in L[k + 1] BY <1>3, <2>1
  <2>3. L[k + 1] \subseteq N /\ L[k + 2] \subseteq N BY <1>5, <1>2, <2>1
  <2> QED BY <2>2, <2>3
<1>10. L[K] = N \/ (K > 0 /\ L[K - 1] = L[K])
  <2>1. IsFiniteSet(N) BY DEF Graph
  <2>2. Chain(L, N, K) BY <1>5, <1>8, <1>9 DEF Chain
  <2> QED BY <2>1, <2>2, ChainStops
<1>11. K \in 0 .. K BY <1>1
<1>12. K > 0 /\ L[K - 1] = L[K] BY <1>7, <1>10, <1>11
<1>13. K - 1 \in 0 .. K - 1 /\ (K - 1) + 1 = K BY <1>1, <1>12
<1>14. \A n \in N : n # d /\ n # entry /\ (\E m \in N : n \in edges[m] /\ m \in L[K]) => n \in L[K]
  BY <1>3, <1>12, <1>13
<1> QED BY <1>6, <1>7, <1>11, <1>14

\* Nothing is lost that need not be: a relation closed under the rounds has all.
LEMMA LostIsLeast ==
  ASSUME NEW edges, Graph(edges), NEW entry \in DOMAIN edges,
         NEW lost, LostOf(edges, entry, lost), NEW K, K = Cardinality(DOMAIN edges),
         NEW G, \A d \in DOMAIN edges : d # entry => <<entry, d>> \in G,
         \A m, n, d \in DOMAIN edges :
           n \in edges[m] /\ <<m, d>> \in G /\ n # d /\ n # entry => <<n, d>> \in G
  PROVE  lost[K] \subseteq G
<1> DEFINE N == DOMAIN edges
           A == {k \in 0 .. K : lost[k] \subseteq G}
<1>1. /\ K \in Nat
      /\ \A k \in 0 .. K : lost[k] \in SUBSET Pairs(edges)
      /\ lost[0] = {<<entry, x>> : x \in N \ {entry}}
      /\ \A k \in 0 .. K - 1 : lost[k + 1] = LostNext(edges, entry, lost[k])
  BY LostChain
<1>2. 0 \in A BY <1>1
<1>3. ASSUME NEW k \in 0 .. K - 1, k \in A PROVE k + 1 \in A
  <2>1. k + 1 \in 0 .. K /\ k \in 0 .. K BY <1>1
  <2>2. \A n, d \in N : <<n, d>> \in lost[k + 1] => <<n, d>> \in G
    <3>1. lost[k] \in SUBSET Pairs(edges) /\ lost[k + 1] = LostNext(edges, entry, lost[k])
      BY <1>1, <2>1
    <3>2. \A n, d \in N :
            <<n, d>> \in lost[k + 1] =>
              \/ <<n, d>> \in lost[k]
              \/ n # d /\ n # entry /\ \E m \in N : n \in edges[m] /\ <<m, d>> \in lost[k]
      <4>1. \A x \in SUBSET Pairs(edges) : \A n, d \in N :
              <<n, d>> \in LostNext(edges, entry, x) =>
                <<n, d>> \in x \/ (n # d /\ n # entry /\ \E m \in N : n \in edges[m] /\ <<m, d>> \in x)
        BY LostNextIs
      <4> QED BY <3>1, <4>1
    <3>3. lost[k] \subseteq G BY <1>3
    <3> QED BY <3>2, <3>3
  <2>3. lost[k + 1] \in SUBSET Pairs(edges) BY <1>1, <2>1
  <2> QED BY <2>1, <2>2, <2>3 DEF Pairs
<1>4. \A k \in 0 .. K : k \in A
  <2> HIDE DEF A
  <2> QED BY <1>1, <1>2, <1>3, Climb
<1> QED BY <1>1, <1>4

\* What the analysis returns: a step dominates itself, and one that dominates a
\* step dominates each of its predecessors too, unless it is the step.
LEMMA Dominance ==
  ASSUME NEW edges, Graph(edges), NEW entry \in DOMAIN edges
  PROVE  /\ Dominators(edges, entry) \in [DOMAIN edges -> SUBSET DOMAIN edges]
         /\ Dominators(edges, entry)[entry] = {entry}
         /\ \A n \in DOMAIN edges : n \in Dominators(edges, entry)[n]
         /\ \A m \in DOMAIN edges : \A n \in edges[m] :
              Dominators(edges, entry)[n] \subseteq {n} \cup Dominators(edges, entry)[m]
<1> DEFINE N == DOMAIN edges
           K == Cardinality(N)
           dom == Dominators(edges, entry)
<1>1. PICK lost : /\ LostOf(edges, entry, lost)
                  /\ dom = [n \in N |-> {d \in N : <<n, d>> \notin lost[K]}]
  BY LostIsComputed
<1>2. \A d \in N :
        /\ <<d, d>> \notin lost[K]
        /\ d # entry => <<entry, d>> \in lost[K]
        /\ \A m, n \in N :
             n \in edges[m] /\ <<m, d>> \in lost[K] /\ n # d /\ n # entry => <<n, d>> \in lost[K]
  BY <1>1, LostIsClosed
<1>3. \A n \in N : edges[n] \subseteq N BY DEF Graph
<1> HIDE DEF dom, K
<1>4. \A n, d \in N : d \in dom[n] <=> <<n, d>> \notin lost[K] BY <1>1
<1>5. dom \in [N -> SUBSET N] BY <1>1
<1>6. dom[entry] = {entry}
  <2>1. \A d \in N : d \in dom[entry] <=> d = entry BY <1>2, <1>4
  <2>2. dom[entry] \subseteq N BY <1>5
  <2> QED BY <2>1, <2>2
<1>7. ASSUME NEW m \in N, NEW n \in edges[m], NEW d \in dom[n], d # n PROVE d \in dom[m]
  <2>1. n \in N /\ d \in N BY <1>3, <1>5, <1>7
  <2>2. n # entry BY <1>6, <1>7
  <2> QED BY <1>2, <1>4, <1>7, <2>1, <2>2
<1>8. \A n \in N : n \in dom[n] BY <1>2, <1>4
<1> QED BY <1>5, <1>6, <1>7, <1>8 DEF dom

\* A relation closed under the rounds has all but dominators.
LEMMA DominatorsLeast ==
  ASSUME NEW edges, Graph(edges), NEW entry \in DOMAIN edges,
         NEW G, \A d \in DOMAIN edges : d # entry => <<entry, d>> \in G,
         \A m, n, d \in DOMAIN edges :
           n \in edges[m] /\ <<m, d>> \in G /\ n # d /\ n # entry => <<n, d>> \in G
  PROVE  \A n, d \in DOMAIN edges : <<n, d>> \notin G => d \in Dominators(edges, entry)[n]
<1> DEFINE K == Cardinality(DOMAIN edges)
<1>1. PICK lost : /\ LostOf(edges, entry, lost)
                  /\ Dominators(edges, entry) =
                       [n \in DOMAIN edges |-> {d \in DOMAIN edges : <<n, d>> \notin lost[K]}]
  BY LostIsComputed
<1>2. lost[K] \subseteq G BY <1>1, LostIsLeast
<1> QED BY <1>1, <1>2

-----------------------------------------------------------------------------
(* forwardUntil, and what a dominator is.                                    *)

\* The recursion of From.
ReachedOf(edges, start, stop, reached) ==
  reached = [k \in 0 .. Cardinality(DOMAIN edges) |->
              IF k = 0 THEN {start} \ {stop} ELSE FromNext(edges, stop, reached[k - 1])]

LEMMA FromNextIs ==
  ASSUME NEW edges, Graph(edges), NEW stop, NEW reached \in SUBSET DOMAIN edges
  PROVE  /\ FromNext(edges, stop, reached) \in SUBSET DOMAIN edges
         /\ \A n : n \in FromNext(edges, stop, reached) <=>
                     n \in reached \/ (n # stop /\ \E m \in reached : n \in edges[m])
<1> DEFINE after == UNION {edges[n] : n \in reached}
<1>1. \A n : n \in after <=> \E m \in reached : n \in edges[m] OBVIOUS
<1>2. \A n : n \in FromNext(edges, stop, reached) <=>
               n \in reached \/ (n # stop /\ \E m \in reached : n \in edges[m])
  <2>1. FromNext(edges, stop, reached) = reached \cup (after \ {stop}) BY DEF FromNext
  <2> HIDE DEF after
  <2> QED BY <1>1, <2>1
<1>3. \A m \in reached : edges[m] \subseteq DOMAIN edges BY DEF Graph
<1>4. FromNext(edges, stop, reached) \subseteq DOMAIN edges BY <1>2, <1>3
<1> QED BY <1>2, <1>4

LEMMA FromIsComputed ==
  ASSUME NEW edges, Graph(edges), NEW start \in DOMAIN edges, NEW stop
  PROVE  \E reached :
           /\ ReachedOf(edges, start, stop, reached)
           /\ From(edges, start, stop) = reached[Cardinality(DOMAIN edges)]
<1> DEFINE N == DOMAIN edges
           K == Cardinality(N)
           Rule == [x \in SUBSET N |-> FromNext(edges, stop, x)]
<1>1. K \in Nat BY FS_CardinalityType DEF Graph
<1>2. \A x \in SUBSET N : Rule[x] = FromNext(edges, stop, x) /\ Rule[x] \in SUBSET N
  BY FromNextIs
<1>3. \E f : ReachedOf(edges, start, stop, f)
  <2> HIDE DEF K, Rule
  <2>1. PICK f : RoundsOf(K, {start} \ {stop}, Rule, f) BY <1>1, RoundsExist
  <2> DEFINE A == {k \in 0 .. K : f[k] \in SUBSET N}
  <2>2. \A k \in 0 .. K : f[k] = IF k = 0 THEN {start} \ {stop} ELSE Rule[f[k - 1]]
    BY <2>1 DEF RoundsOf
  <2>3. 0 \in A BY <1>1, <2>2
  <2>4. ASSUME NEW k \in 0 .. K - 1, k \in A PROVE k + 1 \in A
    <3>1. k + 1 \in 0 .. K /\ k + 1 # 0 /\ (k + 1) - 1 = k BY <1>1
    <3>2. f[k + 1] = Rule[f[k]] BY <2>2, <3>1
    <3> QED BY <1>2, <2>4, <3>1, <3>2
  <2>5. \A k \in 0 .. K : k \in A
    <3> HIDE DEF A
    <3> QED BY <1>1, <2>3, <2>4, Climb
  <2>6. \A k \in 0 .. K : k # 0 => k - 1 \in 0 .. K BY <1>1
  <2>7. \A k \in 0 .. K : k # 0 => Rule[f[k - 1]] = FromNext(edges, stop, f[k - 1])
    BY <1>2, <2>5, <2>6
  <2>8. f = [k \in 0 .. K |-> IF k = 0 THEN {start} \ {stop} ELSE FromNext(edges, stop, f[k - 1])]
    BY <2>1, <2>7 DEF RoundsOf
  <2> QED BY <2>8 DEF ReachedOf, K
<1> DEFINE reached == CHOOSE f : ReachedOf(edges, start, stop, f)
<1>4. ReachedOf(edges, start, stop, reached) BY <1>3
<1>5. From(edges, start, stop) = reached[Cardinality(DOMAIN edges)] BY DEF From, ReachedOf
<1> QED BY <1>4, <1>5

\* What is reached has the start and the successors of what it has, except stop.
LEMMA FromIsClosed ==
  ASSUME NEW edges, Graph(edges), NEW start \in DOMAIN edges, NEW stop
  PROVE  /\ From(edges, start, stop) \in SUBSET DOMAIN edges
         /\ start # stop => start \in From(edges, start, stop)
         /\ \A m \in From(edges, start, stop) : edges[m] \ {stop} \subseteq From(edges, start, stop)
<1> DEFINE N == DOMAIN edges
           K == Cardinality(N)
<1>1. PICK L : ReachedOf(edges, start, stop, L) /\ From(edges, start, stop) = L[K]
  BY FromIsComputed
<1>2. K \in Nat BY FS_CardinalityType DEF Graph
<1>3. \A k \in 0 .. K - 1 : k + 1 \in 0 .. K /\ k \in 0 .. K /\ k + 1 # 0 /\ (k + 1) - 1 = k BY <1>2
<1>4. 0 \in 0 .. K /\ K \in 0 .. K BY <1>2
<1>5. L[0] = {start} \ {stop} BY <1>1, <1>4 DEF ReachedOf
<1>6. \A k \in 0 .. K - 1 : L[k + 1] = FromNext(edges, stop, L[k]) BY <1>1, <1>3 DEF ReachedOf
<1> HIDE DEF K
<1>7. \A k \in 0 .. K : L[k] \in SUBSET N /\ (start # stop => start \in L[k])
  <2> DEFINE A == {k \in 0 .. K : L[k] \in SUBSET N /\ (start # stop => start \in L[k])}
  <2>1. 0 \in A BY <1>4, <1>5
  <2>2. ASSUME NEW k \in 0 .. K - 1, k \in A PROVE k + 1 \in A
    BY <1>3, <1>6, <2>2, FromNextIs
  <2>3. \A k \in 0 .. K : k \in A
    <3> HIDE DEF A
    <3> QED BY <1>2, <2>1, <2>2, Climb
  <2> QED BY <2>3
<1>8. \A k \in 0 .. K - 1 : \A n : n \in L[k + 1] <=>
        n \in L[k] \/ (n # stop /\ \E m \in L[k] : n \in edges[m])
  BY <1>3, <1>6, <1>7, FromNextIs
<1>9. \A k \in 0 .. K - 2 : L[k] = L[k + 1] => L[k + 1] = L[k + 2]
  <2> SUFFICES ASSUME NEW k \in 0 .. K - 2, L[k] = L[k + 1] PROVE L[k + 1] = L[k + 2]
    OBVIOUS
  <2>1. k \in 0 .. K - 1 /\ k + 1 \in 0 .. K - 1 /\ (k + 1) + 1 = k + 2 BY <1>2
  <2> QED BY <1>6, <2>1
<1>10. Chain(L, N, K)
  <2>1. L \in [0 .. K -> SUBSET N] BY <1>1, <1>7 DEF ReachedOf, K
  <2>2. \A k \in 0 .. K - 1 : L[k] \subseteq L[k + 1] BY <1>8
  <2> QED BY <1>9, <2>1, <2>2 DEF Chain
<1>11. L[K] = N \/ (K > 0 /\ L[K - 1] = L[K]) BY <1>10, ChainStops DEF Graph, K
<1>12. \A m \in L[K] : edges[m] \ {stop} \subseteq L[K]
  <2>1. CASE L[K] = N BY <2>1 DEF Graph
  <2>2. CASE K > 0 /\ L[K - 1] = L[K]
    <3>1. K - 1 \in 0 .. K - 1 /\ (K - 1) + 1 = K BY <1>2, <2>2
    <3> QED BY <1>8, <2>2, <3>1
  <2> QED BY <1>11, <2>1, <2>2
<1> QED BY <1>1, <1>4, <1>7, <1>12 DEF K

\* And nothing else: a closed set with the start has all of it.
LEMMA FromIsLeast ==
  ASSUME NEW edges, Graph(edges), NEW start \in DOMAIN edges, NEW stop,
         NEW G, start # stop => start \in G,
         \A m \in G \cap DOMAIN edges : edges[m] \ {stop} \subseteq G
  PROVE  From(edges, start, stop) \subseteq G
<1> DEFINE N == DOMAIN edges
           K == Cardinality(N)
<1>1. PICK L : ReachedOf(edges, start, stop, L) /\ From(edges, start, stop) = L[K]
  BY FromIsComputed
<1>2. K \in Nat BY FS_CardinalityType DEF Graph
<1>3. \A k \in 0 .. K - 1 : k + 1 \in 0 .. K /\ k \in 0 .. K /\ k + 1 # 0 /\ (k + 1) - 1 = k BY <1>2
<1>4. 0 \in 0 .. K /\ K \in 0 .. K BY <1>2
<1>5. L[0] = {start} \ {stop} BY <1>1, <1>4 DEF ReachedOf
<1>6. \A k \in 0 .. K - 1 : L[k + 1] = FromNext(edges, stop, L[k]) BY <1>1, <1>3 DEF ReachedOf
<1> HIDE DEF K
<1> DEFINE A == {k \in 0 .. K : L[k] \in SUBSET (N \cap G)}
<1>7. 0 \in A BY <1>4, <1>5
<1>8. ASSUME NEW k \in 0 .. K - 1, k \in A PROVE k + 1 \in A
  <2>1. L[k] \in SUBSET N BY <1>8
  <2>2. L[k + 1] \in SUBSET N /\ \A n : n \in L[k + 1] <=>
          n \in L[k] \/ (n # stop /\ \E m \in L[k] : n \in edges[m])
    BY <1>3, <1>6, <2>1, FromNextIs
  <2> QED BY <1>3, <1>8, <2>2
<1>9. \A k \in 0 .. K : k \in A
  <2> HIDE DEF A
  <2> QED BY <1>2, <1>7, <1>8, Climb
<1> QED BY <1>1, <1>4, <1>9

\* On every graph, the steps that executionDominators leaves to a step are its
\* dominators: the step itself, and those it cannot be reached without.
THEOREM DominatorsDominate ==
  ASSUME NEW edges, Graph(edges), NEW entry \in DOMAIN edges
  PROVE  \A n, d \in DOMAIN edges :
           d \in Dominators(edges, entry)[n] <=> d = n \/ n \notin From(edges, entry, d)
<1> DEFINE N == DOMAIN edges
           dom == Dominators(edges, entry)
<1>1. /\ dom \in [N -> SUBSET N] /\ dom[entry] = {entry}
      /\ \A n \in N : n \in dom[n]
      /\ \A m \in N : \A n \in edges[m] : dom[n] \subseteq {n} \cup dom[m]
  BY Dominance
<1>2. \A n \in N : edges[n] \subseteq N BY DEF Graph
<1>3. ASSUME NEW n \in N, NEW d \in N, d \in dom[n], d # n PROVE n \notin From(edges, entry, d)
  <2> HIDE DEF dom
  <2> DEFINE G == {m \in N : d \notin dom[m]}
  <2>1. entry # d => entry \in G BY <1>1
  <2>2. \A m \in G \cap N : edges[m] \ {d} \subseteq G BY <1>1, <1>2
  <2>3. From(edges, entry, d) \subseteq G
    <3> HIDE DEF G
    <3> QED BY <2>1, <2>2, FromIsLeast
  <2> QED BY <1>3, <2>3
<1>4. ASSUME NEW n \in N, NEW d \in N, n \notin From(edges, entry, d) PROVE d \in dom[n]
  <2> DEFINE G == {pair \in N \X N : pair[1] \in From(edges, entry, pair[2])}
  <2>1. \A x \in N : /\ entry # x => entry \in From(edges, entry, x)
                     /\ \A m \in From(edges, entry, x) : edges[m] \ {x} \subseteq From(edges, entry, x)
    BY FromIsClosed
  <2>2. \A m, x \in N : <<m, x>> \in G <=> m \in From(edges, entry, x) OBVIOUS
  <2> HIDE DEF G
  <2>3. \A x \in N : x # entry => <<entry, x>> \in G BY <2>1, <2>2
  <2>4. \A m, l, x \in N : l \in edges[m] /\ <<m, x>> \in G /\ l # x /\ l # entry => <<l, x>> \in G
    BY <2>1, <2>2
  <2>5. <<n, d>> \notin G BY <1>4, <2>2
  <2> QED BY <2>3, <2>4, <2>5, DominatorsLeast
<1> QED BY <1>1, <1>3, <1>4

-----------------------------------------------------------------------------
(* What is counted.                                                         *)

\* What a round of each loop is worth.
Worth(plan) ==
  [l \in OfKind(plan, "loop") |-> plan[l].max * (Cardinality(LoopBody(plan, l)) + 1)]

LEMMA MaxTransitionsIs ==
  ASSUME NEW plan, IsFiniteSet(OfKind(plan, "loop"))
  PROVE  \E h : /\ SumsOn(SUBSET OfKind(plan, "loop"), h, Worth(plan))
                /\ MaxTransitions(plan) = Cardinality(DOMAIN plan) + h[OfKind(plan, "loop")]
<1> DEFINE S == OfKind(plan, "loop")
           E(l) == plan[l].max * (Cardinality(LoopBody(plan, l)) + 1)
           Adds(h) == h = [s \in SUBSET S |->
                            IF s = {} THEN 0 ELSE E(First(s)) + h[s \ {First(s)}]]
<1>1. PICK h : SumsOn(SUBSET S, h, Worth(plan)) BY SumsExist
<1>2. \A l \in S : Worth(plan)[l] = E(l) BY DEF Worth
<1>3. \A s \in SUBSET S : s # {} => Worth(plan)[First(s)] = E(First(s))
  <2> HIDE DEF E
  <2> QED BY <1>2, FirstIsIn
<1>4. \A k : Adds(k) <=> SumsOn(SUBSET S, k, Worth(plan))
  <2> HIDE DEF E
  <2> QED BY <1>3 DEF SumsOn
<1>5. MapThenSumSet(LAMBDA l : plan[l].max * (Cardinality(LoopBody(plan, l)) + 1), S)
        = (CHOOSE k : Adds(k))[S]
  BY DEF MapThenSumSet, MapThenFoldSet, First
<1>6. Adds(CHOOSE k : Adds(k)) BY <1>1, <1>4
<1> QED BY <1>4, <1>5, <1>6 DEF MaxTransitions

\* A product grows with its second factor.
LEMMA Products ==
  ASSUME NEW a \in Nat, NEW b \in Nat, NEW c \in Nat, b <= c
  PROVE  a * b \in Nat /\ a * c \in Nat /\ a * b <= a * c
<1>1. a * (c - b) >= 0 OBVIOUS
<1>2. a * (c - b) = a * c - a * b OBVIOUS
<1>3. a * b \in Nat /\ a * c \in Nat OBVIOUS
<1> QED BY <1>1, <1>2, <1>3

\* The loops of a plan: a body each, and a number of rounds.
LoopsResolve(plan) ==
  /\ IsFiniteSet(DOMAIN plan) /\ Graph(Edges(plan, FALSE))
  /\ \A l \in OfKind(plan, "loop") : plan[l].max \in Nat /\ plan[l].body \in DOMAIN plan

LEMMA RoundsCount ==
  ASSUME NEW plan, LoopsResolve(plan), NEW l \in OfKind(plan, "loop")
  PROVE  /\ IsFiniteSet(Rounds(plan, l)) /\ Worth(plan)[l] \in Nat
         /\ Cardinality(Rounds(plan, l)) <= Worth(plan)[l]
<1> DEFINE B == LoopBody(plan, l)
           b == Cardinality(B)
           m == plan[l].max
<1>1. m \in Nat /\ DOMAIN Edges(plan, FALSE) = DOMAIN plan BY DEF LoopsResolve, Edges
<1>2. IsFiniteSet(B)
  <2>1. B \in SUBSET DOMAIN plan BY <1>1, FromIsClosed DEF LoopsResolve, LoopBody
  <2> QED BY <2>1, FS_Subset DEF LoopsResolve
<1>3. b \in Nat BY <1>2, FS_CardinalityType
<1>4. /\ IsFiniteSet({l} \X (1 .. m)) /\ Cardinality({l} \X (1 .. m)) = m
  <2>1. IsFiniteSet(1 .. m) /\ Cardinality(1 .. m) = m
    <3> HIDE DEF m
    <3>1. m \in Int /\ (1 > m => m = 0) /\ m - 1 + 1 = m BY <1>1
    <3>2. /\ IsFiniteSet(1 .. m)
          /\ Cardinality(1 .. m) = IF 1 > m THEN 0 ELSE m - 1 + 1
      BY <3>1, FS_Interval
    <3> QED BY <3>1, <3>2
  <2>2. IsFiniteSet({l}) /\ Cardinality({l}) = 1 BY FS_Singleton
  <2>3. /\ IsFiniteSet({l} \X (1 .. m))
        /\ Cardinality({l} \X (1 .. m)) = Cardinality({l}) * Cardinality(1 .. m)
    BY <2>1, <2>2, FS_Product
  <2> HIDE DEF m
  <2> QED BY <1>1, <2>1, <2>2, <2>3
<1>5. IsFiniteSet(B \cup {l}) /\ Cardinality(B \cup {l}) \in Nat /\ Cardinality(B \cup {l}) <= b + 1
  <2>1. /\ IsFiniteSet(B \cup {l})
        /\ Cardinality(B \cup {l}) = IF l \in B THEN b ELSE b + 1
    BY <1>2, FS_AddElement
  <2> HIDE DEF B, b
  <2> QED BY <1>3, <2>1
<1>6. /\ IsFiniteSet(({l} \X (1 .. m)) \X (B \cup {l}))
      /\ Cardinality(({l} \X (1 .. m)) \X (B \cup {l})) = m * Cardinality(B \cup {l})
  <2>1. /\ IsFiniteSet(({l} \X (1 .. m)) \X (B \cup {l}))
        /\ Cardinality(({l} \X (1 .. m)) \X (B \cup {l}))
             = Cardinality({l} \X (1 .. m)) * Cardinality(B \cup {l})
    BY <1>4, <1>5, FS_Product
  <2> QED BY <1>4, <2>1
<1>7. Rounds(plan, l) = ({l} \X (1 .. m)) \X (B \cup {l}) BY DEF Rounds
<1>8. Worth(plan)[l] = m * (b + 1) BY DEF Worth
<1> HIDE DEF B, b, m
<1>9. b + 1 \in Nat BY <1>3
<1> QED BY <1>1, <1>5, <1>6, <1>7, <1>8, <1>9, Products

\* The rounds of all loops are no more than what the bound counts for them.
LEMMA BoundCounts ==
  ASSUME NEW plan, LoopsResolve(plan)
  PROVE  LET found == OfKind(plan, "loop") IN
         /\ IsFiniteSet(AllRounds(plan, found)) /\ MaxTransitions(plan) \in Nat
         /\ Cardinality(DOMAIN plan) + Cardinality(AllRounds(plan, found)) <= MaxTransitions(plan)
<1> DEFINE S == OfKind(plan, "loop")
           f == Worth(plan)
<1>1. IsFiniteSet(S) BY FS_Subset DEF OfKind, LoopsResolve
<1>2. PICK h : SumsOn(SUBSET S, h, f) /\ MaxTransitions(plan) = Cardinality(DOMAIN plan) + h[S]
  BY <1>1, MaxTransitionsIs
<1>3. \A s \in SUBSET S : h[s] = IF s = {} THEN 0 ELSE f[First(s)] + h[s \ {First(s)}]
  BY <1>2 DEF SumsOn
<1>4. \A l \in S : /\ IsFiniteSet(Rounds(plan, l)) /\ f[l] \in Nat
                   /\ Cardinality(Rounds(plan, l)) <= f[l]
  BY RoundsCount
<1> DEFINE G == {s \in SUBSET S : /\ h[s] \in Nat /\ IsFiniteSet(AllRounds(plan, s))
                                /\ Cardinality(AllRounds(plan, s)) <= h[s]}
<1>5. {} \in G
  <2>1. AllRounds(plan, {}) = {} BY DEF AllRounds
  <2>2. h[{}] = 0 BY <1>3
  <2>3. IsFiniteSet({}) /\ Cardinality({}) = 0 BY FS_EmptySet
  <2> QED BY <2>1, <2>2, <2>3
<1>6. ASSUME NEW s \in SUBSET S, s # {}, \A y \in s : s \ {y} \in G PROVE s \in G
  <2> DEFINE x == First(s)
             t == s \ {x}
  <2>1. x \in s BY <1>6, FirstIsIn
  <2>2. h[s] = f[x] + h[t] BY <1>3, <1>6
  <2> HIDE DEF x
  <2>3. h[t] \in Nat /\ IsFiniteSet(AllRounds(plan, t)) /\ Cardinality(AllRounds(plan, t)) <= h[t]
    BY <1>6, <2>1
  <2>4. AllRounds(plan, s) = AllRounds(plan, t) \cup Rounds(plan, x)
    BY <2>1 DEF AllRounds
  <2>5. /\ IsFiniteSet(Rounds(plan, x)) /\ f[x] \in Nat /\ Cardinality(Rounds(plan, x)) <= f[x]
    BY <1>4, <2>1
  <2> DEFINE P == AllRounds(plan, t)
             Q == Rounds(plan, x)
  <2>6. /\ IsFiniteSet(P \cup Q)
        /\ Cardinality(P \cup Q) = Cardinality(P) + Cardinality(Q) - Cardinality(P \cap Q)
    BY <2>3, <2>5, FS_Union
  <2>7. IsFiniteSet(P \cap Q) BY <2>3, FS_Subset
  <2>8. Cardinality(P) \in Nat /\ Cardinality(Q) \in Nat /\ Cardinality(P \cap Q) \in Nat
    BY <2>3, <2>5, <2>7, FS_CardinalityType
  <2> HIDE DEF P, Q, t, f
  <2>9. h[s] \in Nat /\ Cardinality(P \cup Q) <= h[s]
    BY <2>2, <2>3, <2>5, <2>6, <2>8 DEF P, Q
  <2> QED BY <2>4, <2>6, <2>9 DEF P, Q
<1>7. \A s \in SUBSET S : s \in G
  <2> HIDE DEF G
  <2> QED BY <1>1, <1>5, <1>6, SubsetInduction
<1>8. S \in G BY <1>7
<1>9. Cardinality(DOMAIN plan) \in Nat BY FS_CardinalityType DEF LoopsResolve
<1>10. Cardinality(AllRounds(plan, S)) \in Nat BY <1>8, FS_CardinalityType
<1> QED BY <1>2, <1>8, <1>9, <1>10

-----------------------------------------------------------------------------
(* What is left to do.                                                       *)

\* A graph without cycles, such as a plan without the edges into loop bodies.
Forward(edges) ==
  Graph(edges) /\ Acyclic(edges) /\ \A n \in DOMAIN edges : None \notin edges[n]

\* Going on leaves less to be reached.
LEMMA ForwardShrinks ==
  ASSUME NEW edges, Forward(edges), NEW n \in DOMAIN edges, NEW m \in edges[n],
         NEW stop, n # stop, m # stop
  PROVE  /\ From(edges, m, stop) \subseteq From(edges, n, stop) \ {n}
         /\ m \in From(edges, m, stop) /\ n \in From(edges, n, stop)
<1>1. Graph(edges) /\ m \in DOMAIN edges /\ m # None BY DEF Forward, Graph
<1>2. /\ n \in From(edges, n, stop) /\ m \in From(edges, m, stop)
      /\ \A x \in From(edges, n, stop) : edges[x] \ {stop} \subseteq From(edges, n, stop)
  BY <1>1, FromIsClosed
<1>3. From(edges, m, stop) \subseteq From(edges, n, stop)
  <2> DEFINE G == From(edges, n, stop)
  <2>1. m \in G /\ \A x \in G \cap DOMAIN edges : edges[x] \ {stop} \subseteq G BY <1>2
  <2> HIDE DEF G
  <2>2. From(edges, m, stop) \subseteq G BY <1>1, <2>1, FromIsLeast
  <2> QED BY <2>2 DEF G
<1>4. From(edges, m, stop) \subseteq From(edges, m, None)
  <2> DEFINE G == From(edges, m, None)
  <2>1. m \in G /\ \A x \in G \cap DOMAIN edges : edges[x] \ {stop} \subseteq G
    BY <1>1, FromIsClosed DEF Forward
  <2> HIDE DEF G
  <2>2. From(edges, m, stop) \subseteq G BY <1>1, <2>1, FromIsLeast
  <2> QED BY <2>2 DEF G
<1>5. n \notin From(edges, m, None) BY DEF Forward, Acyclic
<1> QED BY <1>2, <1>3, <1>4, <1>5

\* Nothing is reached from a start that is to be avoided.
LEMMA NothingFromStop ==
  ASSUME NEW edges, Graph(edges), NEW n \in DOMAIN edges
  PROVE  From(edges, n, n) = {}
<1> DEFINE G == {}
<1>1. \A m \in G \cap DOMAIN edges : edges[m] \ {n} \subseteq G OBVIOUS
<1>2. From(edges, n, n) \subseteq G
  <2> HIDE DEF G
  <2> QED BY <1>1, FromIsLeast
<1> QED BY <1>2

\* The edges of a plan, without those into bodies.
EdgesOf(plan, edges) ==
  \A n \in DOMAIN plan :
    /\ plan[n].kind = "loop" => edges[n] = {plan[n].exit} \ {None}
    /\ plan[n].kind # "loop" => edges[n] = Successors(plan[n], TRUE) \ {None}

\* The plan of a program the engine accepts, without the edges into bodies.
LEMMA SoundIsForward ==
  ASSUME NEW p, ProgramSound(p), ProgramBounded(p), NEW plan, plan = p.plan,
         NEW edges, edges = Edges(plan, FALSE)
  PROVE  /\ LoopsResolve(plan) /\ Forward(edges) /\ DOMAIN edges = DOMAIN plan
         /\ EdgesOf(plan, edges)
<1>1. DOMAIN edges = DOMAIN plan /\ edges = [n \in DOMAIN edges |-> edges[n]] BY DEF Edges
<1>2. \A n \in DOMAIN plan :
        /\ plan[n].kind = "loop" => edges[n] = {plan[n].exit} \ {None}
        /\ plan[n].kind # "loop" => edges[n] = Successors(plan[n], TRUE) \ {None}
        /\ edges[n] \subseteq Edges(plan, TRUE)[n] /\ None \notin edges[n]
  BY DEF Edges, Successors
<1>3. IsFiniteSet(DOMAIN plan) /\ \A n \in DOMAIN plan : Edges(plan, TRUE)[n] \subseteq DOMAIN plan
  BY DEF ProgramSound
<1>4. Graph(edges) BY <1>1, <1>2, <1>3 DEF Graph
<1>5. Forward(edges) BY <1>1, <1>2, <1>4 DEF Forward, ProgramBounded
<1>6. LoopsResolve(plan) BY <1>3, <1>4 DEF LoopsResolve, ProgramBounded
<1>7. EdgesOf(plan, edges) BY <1>2 DEF EdgesOf
<1> QED BY <1>1, <1>5, <1>6, <1>7

\* The steps and rounds ahead are finitely many, and fewer further on.
LEMMA AheadIs ==
  ASSUME NEW plan, LoopsResolve(plan), NEW edges, edges = Edges(plan, FALSE), Forward(edges),
         NEW n
  PROVE  /\ IsFiniteSet(Ahead(plan, n)) /\ IsFiniteSet(AllRounds(plan, Ahead(plan, n)))
         /\ n \in DOMAIN plan /\ n # None => n \in Ahead(plan, n)
         /\ n \in DOMAIN plan => \A m \in edges[n] : n # None =>
              /\ Ahead(plan, m) \subseteq Ahead(plan, n) \ {n}
              /\ AllRounds(plan, Ahead(plan, m)) \subseteq AllRounds(plan, Ahead(plan, n))
<1>1. DOMAIN edges = DOMAIN plan /\ Graph(edges) BY DEF Edges, Forward
<1>2. Ahead(plan, n) \subseteq DOMAIN plan BY <1>1, FromIsClosed DEF Ahead
<1>3. IsFiniteSet(Ahead(plan, n)) BY <1>2, FS_Subset DEF LoopsResolve
<1>4. \A S, T : S \subseteq T => AllRounds(plan, S) \subseteq AllRounds(plan, T) BY DEF AllRounds
<1>5. IsFiniteSet(AllRounds(plan, Ahead(plan, n)))
  <2>1. AllRounds(plan, Ahead(plan, n)) \subseteq AllRounds(plan, OfKind(plan, "loop"))
    BY DEF AllRounds
  <2>2. IsFiniteSet(AllRounds(plan, OfKind(plan, "loop"))) BY BoundCounts
  <2> QED BY <2>1, <2>2, FS_Subset
<1>6. ASSUME n \in DOMAIN plan, n # None PROVE n \in Ahead(plan, n)
  BY <1>1, <1>6, FromIsClosed DEF Ahead
<1>7. ASSUME n \in DOMAIN plan, n # None, NEW m \in edges[n]
      PROVE  /\ Ahead(plan, m) \subseteq Ahead(plan, n) \ {n}
             /\ AllRounds(plan, Ahead(plan, m)) \subseteq AllRounds(plan, Ahead(plan, n))
  <2>1. m # None /\ m \in DOMAIN plan BY <1>1, <1>7 DEF Forward, Graph
  <2>2. From(edges, m, None) \subseteq From(edges, n, None) \ {n}
    BY <1>1, <1>7, <2>1, ForwardShrinks
  <2>3. Ahead(plan, m) \subseteq Ahead(plan, n) \ {n} BY <1>7, <2>1, <2>2 DEF Ahead
  <2> QED BY <1>4, <2>3
<1> QED BY <1>3, <1>5, <1>6, <1>7

\* A loop is not ahead of its exit.
LEMMA LoopIsBehind ==
  ASSUME NEW plan, LoopsResolve(plan), NEW edges, edges = Edges(plan, FALSE), Forward(edges),
         NEW l \in DOMAIN plan, edges[l] = {plan[l].exit} \ {None}, l # None
  PROVE  /\ Ahead(plan, plan[l].exit) \subseteq Ahead(plan, l) \ {l}
         /\ AllRounds(plan, Ahead(plan, plan[l].exit)) \subseteq AllRounds(plan, Ahead(plan, l))
<1> DEFINE exit == plan[l].exit
<1>1. CASE exit = None
  <2>1. Ahead(plan, exit) = {}
    <3>1. DOMAIN edges = DOMAIN plan /\ Graph(edges) BY DEF Edges, Forward
    <3> QED BY <1>1, <3>1, NothingFromStop DEF Ahead
  <2> QED BY <2>1 DEF AllRounds
<1>2. CASE exit # None
  <2>1. exit \in edges[l] BY <1>2
  <2>2. \A m \in edges[l] :
          /\ Ahead(plan, m) \subseteq Ahead(plan, l) \ {l}
          /\ AllRounds(plan, Ahead(plan, m)) \subseteq AllRounds(plan, Ahead(plan, l))
    BY AheadIs
  <2> QED BY <2>1, <2>2
<1> QED BY <1>1, <1>2

\* What is left of a loop.
LEMMA RoundIs ==
  ASSUME NEW plan, NEW l, NEW k, NEW n
  PROVE  /\ \A r \in RoundsLeft(plan, l, k, n) :
              r = <<<<l, r[1][2]>>, r[2]>>
         /\ \A b, c : <<<<l, b>>, c>> \in RoundsLeft(plan, l, k, n) <=>
              /\ b \in 1 .. plan[l].max /\ c \in LoopBody(plan, l) \cup {l}
              /\ b > k \/ (b = k /\ c \in From(Edges(plan, FALSE), n, l) \cup {l})
<1> DEFINE later == From(Edges(plan, FALSE), n, l) \cup {l}
           steps == LoopBody(plan, l) \cup {l}
           all == ({l} \X (1 .. plan[l].max)) \X steps
<1>1. RoundsLeft(plan, l, k, n) =
        {r \in all : r[1][2] > k \/ (r[1][2] = k /\ r[2] \in later)}
  BY DEF RoundsLeft, Rounds
<1>2. \A r \in all : r = <<<<l, r[1][2]>>, r[2]>>
  <2> HIDE DEF steps
  <2> QED OBVIOUS
<1>3. \A b, c : <<<<l, b>>, c>> \in all <=> b \in 1 .. plan[l].max /\ c \in steps
  <2> HIDE DEF steps
  <2> QED OBVIOUS
<1> HIDE DEF all, later, steps
<1>4. \A b, c : /\ <<<<l, b>>, c>>[1][2] = b
                /\ <<<<l, b>>, c>>[2] = c
  OBVIOUS
<1>5. \A b, c : <<<<l, b>>, c>> \in RoundsLeft(plan, l, k, n) <=>
        /\ b \in 1 .. plan[l].max /\ c \in steps
        /\ b > k \/ (b = k /\ c \in later)
  BY <1>1, <1>3, <1>4
<1>6. \A r \in RoundsLeft(plan, l, k, n) : r = <<<<l, r[1][2]>>, r[2]>> BY <1>1, <1>2
<1> QED BY <1>5, <1>6 DEF later, steps

\* What is left of the loop l at step n of its round k, and after it.
Left(plan, l, k, n) ==
  RoundsLeft(plan, l, k, n) \cup AllRounds(plan, Ahead(plan, plan[l].exit))

LEMMA BodyIs ==
  ASSUME NEW plan, LoopsResolve(plan), NEW l \in OfKind(plan, "loop")
  PROVE  /\ LoopBody(plan, l) \subseteq DOMAIN plan
         /\ plan[l].body # l => plan[l].body \in LoopBody(plan, l)
         /\ \A m \in LoopBody(plan, l) :
              m # l /\ Edges(plan, FALSE)[m] \ {l} \subseteq LoopBody(plan, l)
<1> DEFINE edges == Edges(plan, FALSE)
           body == plan[l].body
<1>1. Graph(edges) /\ DOMAIN edges = DOMAIN plan /\ body \in DOMAIN edges
  BY DEF LoopsResolve, Edges
<1>2. LoopBody(plan, l) = From(edges, body, l) BY DEF LoopBody
<1> HIDE DEF edges, body
<1>3. /\ From(edges, body, l) \in SUBSET DOMAIN edges
      /\ body # l => body \in From(edges, body, l)
      /\ \A m \in From(edges, body, l) : edges[m] \ {l} \subseteq From(edges, body, l)
  BY <1>1, FromIsClosed
<1>4. l \notin From(edges, body, l)
  <2> DEFINE G == DOMAIN edges \ {l}
  <2>1. (body # l => body \in G) /\ \A m \in G \cap DOMAIN edges : edges[m] \ {l} \subseteq G
    BY <1>1 DEF Graph
  <2> HIDE DEF G
  <2>2. From(edges, body, l) \subseteq G BY <1>1, <2>1, FromIsLeast
  <2> QED BY <2>2 DEF G
<1> QED BY <1>1, <1>2, <1>3, <1>4 DEF edges, body

LEMMA LeftIs ==
  ASSUME NEW plan, LoopsResolve(plan), NEW edges, edges = Edges(plan, FALSE), Forward(edges),
         NEW l \in OfKind(plan, "loop"), edges[l] = {plan[l].exit} \ {None}, l # None,
         NEW k \in 1 .. plan[l].max, NEW n \in LoopBody(plan, l) \cup {l}
  PROVE  /\ IsFiniteSet(Left(plan, l, k, n))
         /\ <<<<l, k>>, l>> \in Left(plan, l, k, n)
         /\ <<<<l, k>>, n>> \in Left(plan, l, k, n)
<1>1. l \in DOMAIN plan /\ DOMAIN edges = DOMAIN plan /\ Graph(edges)
  BY DEF OfKind, Edges, Forward
<1>2. IsFiniteSet(RoundsLeft(plan, l, k, n))
  <2>1. IsFiniteSet(Rounds(plan, l)) BY RoundsCount
  <2> QED BY <2>1, FS_Subset DEF RoundsLeft
<1>3. IsFiniteSet(AllRounds(plan, Ahead(plan, plan[l].exit)))
  <2>1. \A x : IsFiniteSet(AllRounds(plan, Ahead(plan, x))) BY AheadIs
  <2> QED BY <2>1
<1>4. IsFiniteSet(Left(plan, l, k, n)) BY <1>2, <1>3, FS_Union DEF Left
<1>5. n # l => n \in From(edges, n, l)
  <2>1. LoopBody(plan, l) \subseteq DOMAIN edges BY <1>1, BodyIs
  <2> QED BY <1>1, <2>1, FromIsClosed
<1>6. \A c \in {l, n} : <<<<l, k>>, c>> \in RoundsLeft(plan, l, k, n)
  <2>1. \A b, c : <<<<l, b>>, c>> \in RoundsLeft(plan, l, k, n) <=>
          /\ b \in 1 .. plan[l].max /\ c \in LoopBody(plan, l) \cup {l}
          /\ b > k \/ (b = k /\ c \in From(edges, n, l) \cup {l})
    BY RoundIs
  <2> QED BY <1>5, <2>1
<1> QED BY <1>4, <1>6 DEF Left

\* No round of a loop is left after it.
LEMMA NoRoundAfter ==
  ASSUME NEW plan, LoopsResolve(plan), NEW edges, edges = Edges(plan, FALSE), Forward(edges),
         NEW l \in DOMAIN plan, edges[l] = {plan[l].exit} \ {None}, l # None, NEW k, NEW n
  PROVE  <<<<l, k>>, n>> \notin AllRounds(plan, Ahead(plan, plan[l].exit))
<1>1. l \notin Ahead(plan, plan[l].exit) BY LoopIsBehind
<1>2. \A m : <<<<l, k>>, n>> \in Rounds(plan, m) => l = m BY DEF Rounds
<1> QED BY <1>1, <1>2 DEF AllRounds

\* A later round, or a later step of the round, leaves less.
LEMMA LeftShrinks ==
  ASSUME NEW plan, LoopsResolve(plan), NEW edges, edges = Edges(plan, FALSE), Forward(edges),
         NEW l \in OfKind(plan, "loop"), edges[l] = {plan[l].exit} \ {None}, l # None,
         NEW k \in 1 .. plan[l].max, NEW n \in LoopBody(plan, l) \cup {l},
         NEW j \in 1 .. plan[l].max, NEW m,
         \/ j = k /\ n # l /\ m \in edges[n]
         \/ j > k
  PROVE  Left(plan, l, j, m) \subseteq Left(plan, l, k, n) \ {<<<<l, k>>, n>>}
<1>1. l \in DOMAIN plan /\ DOMAIN edges = DOMAIN plan /\ Graph(edges)
  BY DEF OfKind, Edges, Forward
<1>2. \A i, x : /\ \A r \in RoundsLeft(plan, l, i, x) : r = <<<<l, r[1][2]>>, r[2]>>
                /\ \A b, c : <<<<l, b>>, c>> \in RoundsLeft(plan, l, i, x) <=>
                     /\ b \in 1 .. plan[l].max /\ c \in LoopBody(plan, l) \cup {l}
                     /\ b > i \/ (b = i /\ c \in From(edges, x, l) \cup {l})
  BY RoundIs
<1>5. j \in Int /\ k \in Int OBVIOUS
<1>7. j = k => ~(j > k) BY ONLY <1>5
<1>4. j = k => n # l /\ m \in edges[n] BY <1>7
<1>3. j = k => From(edges, m, l) \subseteq From(edges, n, l) \ {n}
  <2> SUFFICES ASSUME j = k PROVE From(edges, m, l) \subseteq From(edges, n, l) \ {n}
    OBVIOUS
  <2>1. n # l /\ m \in edges[n] BY <1>4
  <2>2. n \in DOMAIN edges
    <3>1. LoopBody(plan, l) \subseteq DOMAIN edges BY <1>1, BodyIs
    <3> QED BY <2>1, <3>1
  <2>3. CASE m = l
    <3>1. From(edges, m, l) = {} BY <1>1, <2>3, NothingFromStop
    <3> QED BY <3>1
  <2>4. CASE m # l BY <2>1, <2>2, <2>4, ForwardShrinks
  <2> QED BY <2>3, <2>4
<1>6. \A b, c : <<<<l, b>>, c>> \in RoundsLeft(plan, l, j, m) =>
        /\ <<<<l, b>>, c>> \in RoundsLeft(plan, l, k, n)
        /\ ~(b = k /\ c = n)
  <2> SUFFICES ASSUME NEW b, NEW c, <<<<l, b>>, c>> \in RoundsLeft(plan, l, j, m)
               PROVE  /\ <<<<l, b>>, c>> \in RoundsLeft(plan, l, k, n)
                      /\ ~(b = k /\ c = n)
    OBVIOUS
  <2>1. /\ b \in 1 .. plan[l].max /\ c \in LoopBody(plan, l) \cup {l}
        /\ b > j \/ (b = j /\ c \in From(edges, m, l) \cup {l})
    BY <1>2
  <2>2. b \in Int BY <2>1
  <2>3. CASE j = k
    <3>1. b > k \/ (b = k /\ c \in From(edges, n, l) \cup {l} /\ c # n)
      BY <1>3, <1>4, <2>1, <2>3
    <3>2. ~(b = k /\ c = n) BY ONLY <1>5, <2>2, <3>1
    <3> QED BY <1>2, <2>1, <3>1, <3>2
  <2>4. CASE j > k
    <3>1. b > k /\ b # k
      <4>1. b > j \/ b = j BY <2>1
      <4> QED BY ONLY <1>5, <2>2, <2>4, <4>1
    <3> QED BY <1>2, <2>1, <3>1
  <2> QED BY <2>3, <2>4
<1>9. \A r \in RoundsLeft(plan, l, j, m) :
        r \in RoundsLeft(plan, l, k, n) /\ r # <<<<l, k>>, n>>
  <2> SUFFICES ASSUME NEW r \in RoundsLeft(plan, l, j, m)
               PROVE  r \in RoundsLeft(plan, l, k, n) /\ r # <<<<l, k>>, n>>
    OBVIOUS
  <2>1. r = <<<<l, r[1][2]>>, r[2]>> BY <1>2
  <2> DEFINE b == r[1][2]
             c == r[2]
  <2>2. r = <<<<l, b>>, c>> BY <2>1
  <2> HIDE DEF b, c
  <2>3. r \in RoundsLeft(plan, l, k, n) /\ ~(b = k /\ c = n) BY <1>6, <2>2
  <2> QED BY <2>2, <2>3
<1>8. <<<<l, k>>, n>> \notin AllRounds(plan, Ahead(plan, plan[l].exit)) BY <1>1, NoRoundAfter
<1> QED BY <1>9, <1>8 DEF Left

\* Fewer of one and no more of the other are fewer together.
LEMMA CountsLess ==
  ASSUME NEW A, NEW B, IsFiniteSet(A), IsFiniteSet(B),
         NEW C \in SUBSET A, NEW D \in SUBSET B, C # A \/ D # B
  PROVE  /\ Cardinality(C) \in Nat /\ Cardinality(D) \in Nat
         /\ Cardinality(A) \in Nat /\ Cardinality(B) \in Nat
         /\ Cardinality(C) + Cardinality(D) + 1 <= Cardinality(A) + Cardinality(B)
<1>1. /\ IsFiniteSet(C) /\ IsFiniteSet(D)
      /\ Cardinality(C) <= Cardinality(A) /\ Cardinality(D) <= Cardinality(B)
      /\ Cardinality(A) = Cardinality(C) => A = C
      /\ Cardinality(B) = Cardinality(D) => B = D
  BY FS_Subset
<1>2. /\ Cardinality(C) \in Nat /\ Cardinality(D) \in Nat
      /\ Cardinality(A) \in Nat /\ Cardinality(B) \in Nat
  BY <1>1, FS_CardinalityType
<1>3. Cardinality(C) # Cardinality(A) \/ Cardinality(D) # Cardinality(B) BY <1>1
<1> QED BY <1>1, <1>2, <1>3

LEMMA CountsSome ==
  ASSUME NEW A, IsFiniteSet(A), NEW x \in A
  PROVE  Cardinality(A) \in Nat /\ Cardinality(A) >= 1
BY FS_CardinalityType, FS_EmptySet

\* An iteration that has a step of its bound left for the next is not cut.
LEMMA NotCut ==
  ASSUME NEW next, Advance(next), transitions \in Nat, program.max \in Nat,
         next # None => transitions + 1 < program.max
  PROVE  /\ pc' = next /\ transitions' = transitions + 1 /\ ended' # "cut"
<1>1. ~(next # None /\ transitions + 1 >= program.max) OBVIOUS
<1>2. pc' = next /\ ended' = CASE FALSE -> "cut" [] next = None -> "done" [] OTHER -> None
  BY <1>1 DEF Advance
<1>3. ended' \in {"done", None} BY <1>2
<1> QED BY <1>2, <1>3 DEF Advance, None

\* What has been done and what is left make no more than the bound, outside of
\* loop bodies and at step n of the round k of the loop l.
OutsideOK(plan, n, done, max) ==
  done + Cardinality(Ahead(plan, n)) + Cardinality(AllRounds(plan, Ahead(plan, n))) <= max
InsideOK(plan, l, k, n, done, max) ==
  done + Cardinality(Ahead(plan, plan[l].exit)) + Cardinality(Left(plan, l, k, n)) <= max

\* A plan whose loops are bounded.
Bounded(plan, edges) ==
  /\ LoopsResolve(plan) /\ edges = Edges(plan, FALSE) /\ Forward(edges)
  /\ \A l \in OfKind(plan, "loop") :
       edges[l] = {plan[l].exit} \ {None} /\ plan[l].max \in Nat \ {0}

LEMMA StepOutside ==
  ASSUME NEW plan, NEW edges, Bounded(plan, edges), NEW done \in Nat, NEW max \in Nat,
         NEW n \in DOMAIN plan, n # None, OutsideOK(plan, n, done, max), NEW m \in edges[n]
  PROVE  OutsideOK(plan, m, done + 1, max) /\ done + 1 < max
<1> DEFINE A == Ahead(plan, n)
           B == AllRounds(plan, A)
           C == Ahead(plan, m)
           D == AllRounds(plan, C)
<1>1. IsFiniteSet(A) /\ IsFiniteSet(B) /\ n \in A /\ C \subseteq A \ {n} /\ D \subseteq B
  BY AheadIs DEF Bounded
<1>2. m \in C /\ IsFiniteSet(C)
  <2>1. m \in DOMAIN plan /\ m # None
    <3>1. Forward(edges) /\ DOMAIN edges = DOMAIN plan BY DEF Bounded, Edges
    <3> QED BY <3>1 DEF Forward, Graph
  <2> QED BY <2>1, AheadIs DEF Bounded
<1> HIDE DEF A, B, C, D
<1>3. C # A BY <1>1
<1>4. /\ Cardinality(C) \in Nat /\ Cardinality(D) \in Nat
      /\ Cardinality(A) \in Nat /\ Cardinality(B) \in Nat
      /\ Cardinality(C) + Cardinality(D) + 1 <= Cardinality(A) + Cardinality(B)
  BY <1>1, <1>3, CountsLess
<1>5. Cardinality(C) >= 1 BY <1>2, CountsSome
<1>6. done + Cardinality(A) + Cardinality(B) <= max BY DEF OutsideOK, A, B
<1>7. done + 1 + Cardinality(C) + Cardinality(D) <= max /\ done + 1 < max
  BY ONLY <1>4, <1>5, <1>6, done \in Nat, max \in Nat
<1> QED BY <1>7 DEF OutsideOK, C, D

LEMMA StepInside ==
  ASSUME NEW plan, NEW edges, Bounded(plan, edges), NEW done \in Nat, NEW max \in Nat,
         NEW l \in OfKind(plan, "loop"), l # None, NEW k \in 1 .. plan[l].max,
         NEW n \in LoopBody(plan, l), InsideOK(plan, l, k, n, done, max), NEW m \in edges[n]
  PROVE  /\ m \in LoopBody(plan, l) \cup {l} /\ InsideOK(plan, l, k, m, done + 1, max)
         /\ done + 1 < max
<1> DEFINE A == Ahead(plan, plan[l].exit)
           B == Left(plan, l, k, n)
           D == Left(plan, l, k, m)
<1>1. n # l /\ m \in LoopBody(plan, l) \cup {l} BY BodyIs DEF Bounded
<1>2. IsFiniteSet(A) BY AheadIs DEF Bounded
<1>3. /\ IsFiniteSet(B) /\ <<<<l, k>>, n>> \in B
      /\ IsFiniteSet(D) /\ <<<<l, k>>, l>> \in D
  BY <1>1, LeftIs DEF Bounded
<1>4. D \subseteq B \ {<<<<l, k>>, n>>} BY <1>1, LeftShrinks DEF Bounded
<1> HIDE DEF A, B, D
<1>5. D # B BY <1>3, <1>4
<1>6. /\ Cardinality(A) \in Nat /\ Cardinality(D) \in Nat /\ Cardinality(B) \in Nat
      /\ Cardinality(A) + Cardinality(D) + 1 <= Cardinality(A) + Cardinality(B)
  BY <1>2, <1>3, <1>4, <1>5, CountsLess
<1>7. Cardinality(D) >= 1 BY <1>3, CountsSome
<1>8. done + Cardinality(A) + Cardinality(B) <= max BY DEF InsideOK, A, B
<1>9. done + 1 + Cardinality(A) + Cardinality(D) <= max /\ done + 1 < max
  BY ONLY <1>6, <1>7, <1>8, done \in Nat, max \in Nat
<1> QED BY <1>1, <1>9 DEF InsideOK, A, D

LEMMA StepIntoLoop ==
  ASSUME NEW plan, NEW edges, Bounded(plan, edges), NEW done \in Nat, NEW max \in Nat,
         NEW l \in OfKind(plan, "loop"), l # None, OutsideOK(plan, l, done, max)
  PROVE  /\ plan[l].body \in LoopBody(plan, l) \cup {l} /\ 1 \in 1 .. plan[l].max
         /\ InsideOK(plan, l, 1, plan[l].body, done + 1, max) /\ done + 1 < max
<1> DEFINE A == Ahead(plan, l)
           B == AllRounds(plan, A)
           C == Ahead(plan, plan[l].exit)
           D == Left(plan, l, 1, plan[l].body)
<1>1. plan[l].body \in LoopBody(plan, l) \cup {l} /\ 1 \in 1 .. plan[l].max
  <2>1. plan[l].body \in LoopBody(plan, l) \cup {l} BY BodyIs DEF Bounded
  <2>2. plan[l].max \in Nat \ {0} BY DEF Bounded
  <2> QED BY <2>1, <2>2
<1>2. l \in DOMAIN plan BY DEF OfKind
<1>3. IsFiniteSet(A) /\ IsFiniteSet(B) /\ l \in A BY <1>2, AheadIs DEF Bounded
<1>4. C \subseteq A \ {l} /\ AllRounds(plan, C) \subseteq B BY <1>2, LoopIsBehind DEF Bounded
<1>5. RoundsLeft(plan, l, 1, plan[l].body) \subseteq B BY <1>3 DEF RoundsLeft, AllRounds
<1>6. D \subseteq B BY <1>4, <1>5 DEF Left
<1>7. <<<<l, 1>>, l>> \in D /\ IsFiniteSet(D) BY <1>1, LeftIs DEF Bounded
<1> HIDE DEF A, B, C, D
<1>8. C # A BY <1>3, <1>4
<1>9. /\ Cardinality(C) \in Nat /\ Cardinality(D) \in Nat
      /\ Cardinality(A) \in Nat /\ Cardinality(B) \in Nat
      /\ Cardinality(C) + Cardinality(D) + 1 <= Cardinality(A) + Cardinality(B)
  BY <1>3, <1>4, <1>6, <1>8, CountsLess
<1>10. Cardinality(D) >= 1 BY <1>7, CountsSome
<1>11. done + Cardinality(A) + Cardinality(B) <= max BY DEF OutsideOK, A, B
<1>12. done + 1 + Cardinality(C) + Cardinality(D) <= max /\ done + 1 < max
  BY ONLY <1>9, <1>10, <1>11, done \in Nat, max \in Nat
<1> QED BY <1>1, <1>12 DEF InsideOK, C, D

LEMMA StepToNextRound ==
  ASSUME NEW plan, NEW edges, Bounded(plan, edges), NEW done \in Nat, NEW max \in Nat,
         NEW l \in OfKind(plan, "loop"), l # None, NEW k \in 1 .. plan[l].max,
         InsideOK(plan, l, k, l, done, max), k < plan[l].max
  PROVE  /\ plan[l].body \in LoopBody(plan, l) \cup {l} /\ k + 1 \in 1 .. plan[l].max
         /\ InsideOK(plan, l, k + 1, plan[l].body, done + 1, max) /\ done + 1 < max
<1> DEFINE A == Ahead(plan, plan[l].exit)
           B == Left(plan, l, k, l)
           D == Left(plan, l, k + 1, plan[l].body)
<1>1. plan[l].body \in LoopBody(plan, l) \cup {l} BY BodyIs DEF Bounded
<1>2. k + 1 \in 1 .. plan[l].max /\ k + 1 > k
  <2>1. plan[l].max \in Nat BY DEF Bounded
  <2> QED BY <2>1
<1>3. IsFiniteSet(A) BY AheadIs DEF Bounded
<1>4. /\ IsFiniteSet(B) /\ <<<<l, k>>, l>> \in B
      /\ IsFiniteSet(D) /\ <<<<l, k + 1>>, l>> \in D
  BY <1>1, <1>2, LeftIs DEF Bounded
<1>5. D \subseteq B \ {<<<<l, k>>, l>>}
  <2> DEFINE j == k + 1
  <2>1. j \in 1 .. plan[l].max /\ j > k BY <1>2
  <2> HIDE DEF j
  <2>2. LoopsResolve(plan) /\ edges = Edges(plan, FALSE) /\ Forward(edges)
    BY DEF Bounded
  <2>3. edges[l] = {plan[l].exit} \ {None} BY DEF Bounded
  <2>4. \A m : Left(plan, l, j, m) \subseteq Left(plan, l, k, l) \ {<<<<l, k>>, l>>}
    BY <2>1, <2>2, <2>3, LeftShrinks
  <2>5. Left(plan, l, j, plan[l].body) \subseteq Left(plan, l, k, l) \ {<<<<l, k>>, l>>}
    BY <2>4
  <2> QED BY <2>5 DEF j
<1> HIDE DEF A, B, D
<1>6. D # B BY <1>4, <1>5
<1>7. /\ Cardinality(A) \in Nat /\ Cardinality(D) \in Nat /\ Cardinality(B) \in Nat
      /\ Cardinality(A) + Cardinality(D) + 1 <= Cardinality(A) + Cardinality(B)
  BY <1>3, <1>4, <1>5, <1>6, CountsLess
<1>8. Cardinality(D) >= 1 BY <1>4, CountsSome
<1>9. done + Cardinality(A) + Cardinality(B) <= max BY DEF InsideOK, A, B
<1>10. done + 1 + Cardinality(A) + Cardinality(D) <= max /\ done + 1 < max
  BY ONLY <1>7, <1>8, <1>9, done \in Nat, max \in Nat
<1> QED BY <1>1, <1>2, <1>10 DEF InsideOK, A, D

LEMMA StepOutOfLoop ==
  ASSUME NEW plan, NEW edges, Bounded(plan, edges), NEW done \in Nat, NEW max \in Nat,
         NEW l \in OfKind(plan, "loop"), l # None, NEW k \in 1 .. plan[l].max,
         InsideOK(plan, l, k, l, done, max)
  PROVE  /\ OutsideOK(plan, plan[l].exit, done + 1, max)
         /\ plan[l].exit # None => done + 1 < max
<1> DEFINE exit == plan[l].exit
           A == Ahead(plan, exit)
           B == Left(plan, l, k, l)
           D == AllRounds(plan, A)
<1>1. l \in DOMAIN plan BY DEF OfKind
<1>2. IsFiniteSet(A) BY AheadIs DEF Bounded
<1>3. IsFiniteSet(B) /\ <<<<l, k>>, l>> \in B BY LeftIs DEF Bounded
<1>4. <<<<l, k>>, l>> \notin D BY <1>1, NoRoundAfter DEF Bounded
<1>5. D \subseteq B BY DEF Left
<1>6. exit # None => exit \in A
  <2> SUFFICES ASSUME exit # None PROVE exit \in A OBVIOUS
  <2>1. exit \in edges[l] BY DEF Bounded
  <2>2. DOMAIN edges = DOMAIN plan /\ Forward(edges) BY DEF Bounded, Edges
  <2>3. exit \in DOMAIN plan BY <1>1, <2>1, <2>2 DEF Forward, Graph
  <2> HIDE DEF exit
  <2> QED BY <2>3, AheadIs DEF Bounded
<1> HIDE DEF exit, A, B, D
<1>7. D # B BY <1>3, <1>4
<1>8. /\ Cardinality(A) \in Nat /\ Cardinality(D) \in Nat /\ Cardinality(B) \in Nat
      /\ Cardinality(A) + Cardinality(D) + 1 <= Cardinality(A) + Cardinality(B)
  BY <1>2, <1>3, <1>5, <1>7, CountsLess
<1>9. exit # None => Cardinality(A) >= 1 BY <1>2, <1>6, CountsSome
<1>10. done + Cardinality(A) + Cardinality(B) <= max BY DEF InsideOK, exit, A, B
<1>11. /\ done + 1 + Cardinality(A) + Cardinality(D) <= max
       /\ exit # None => done + 1 < max
  BY ONLY <1>8, <1>9, <1>10, done \in Nat, max \in Nat
<1> QED BY <1>11 DEF OutsideOK, exit, A, D

-----------------------------------------------------------------------------
(* What is compiled.                                                         *)

IsSequence(s) == Len(s) \in Nat /\ DOMAIN s = 1 .. Len(s)

LEMMA SequencesAre == ASSUME NEW S, NEW s \in Seq(S) PROVE IsSequence(s)
BY DEF IsSequence

\* A function on the indices of a sequence is a sequence as long.
LEMMA MappedIsSequence ==
  ASSUME NEW s, IsSequence(s), NEW t, t = [i \in DOMAIN s |-> t[i]]
  PROVE  IsSequence(t) /\ Len(t) = Len(s)
<1>1. t \in Seq({t[i] : i \in DOMAIN s}) BY DEF IsSequence
<1>2. IsSequence(t) BY <1>1 DEF IsSequence
<1> QED BY <1>2 DEF IsSequence

\* Preflight leaves the plan as it is, and the number of steps.
LEMMA NormalKeeps ==
  ASSUME NEW c \in RequestRecord
  PROVE  /\ NormalConfig(c).steps = NormalSteps(c.steps, Method(c))
         /\ NormalConfig(c).plan = c.plan
<1>1. c = [f \in DOMAIN c |-> c[f]] /\ "steps" \in DOMAIN c /\ "plan" \in DOMAIN c
  BY DEF RequestRecord
<1>2. /\ NormalLoad(c).steps = c.steps /\ NormalLoad(c).plan = c.plan
      /\ DOMAIN NormalLoad(c) = DOMAIN c
  BY <1>1, Zenon DEF NormalLoad
<1> QED BY <1>1, <1>2, Zenon DEF NormalConfig

LEMMA StepsAreSequences ==
  ASSUME NEW r \in RequestRecord, NEW c, c = NormalConfig(r)
  PROVE  IsSequence(StepsToRun(c)) /\ IsSequence(c.plan.steps)
<1>1. c.steps = NormalSteps(r.steps, Method(r)) /\ c.plan = r.plan BY NormalKeeps
<1>2. IsSequence(r.steps) /\ IsSequence(c.plan.steps)
  BY <1>1, SequencesAre DEF RequestRecord, PlanRecord
<1>3. IsSequence(c.steps) BY <1>1, <1>2, MappedIsSequence DEF NormalSteps
<1>4. IsSequence(<<OwnRequest(c)>>) BY DEF IsSequence
<1> QED BY <1>2, <1>3, <1>4 DEF StepsToRun

\* The steps of a sequence by their ids.
LEMMA IdsOfSequence ==
  ASSUME NEW s, IsSequence(s)
  PROVE  /\ IsFiniteSet(Ids(s)) /\ DOMAIN ById(s) = Ids(s)
         /\ \A n \in Ids(s) : \E i \in DOMAIN s : s[i].id = n /\ ById(s)[n] = s[i]
<1>1. IsFiniteSet(DOMAIN s) BY FS_Interval DEF IsSequence
<1>2. IsFiniteSet({s[i].id : i \in DOMAIN s})
  <2> DEFINE f == [i \in DOMAIN s |-> s[i].id]
  <2>1. f \in Surjection(DOMAIN s, {s[i].id : i \in DOMAIN s}) BY DEF Surjection
  <2> QED BY <1>1, <2>1, FS_Surjection
<1>3. ASSUME NEW n \in Ids(s) PROVE \E i \in DOMAIN s : s[i].id = n /\ ById(s)[n] = s[i]
  <2>1. \E x \in {s[i] : i \in DOMAIN s} : x.id = n BY DEF Ids
  <2>2. ById(s)[n] = CHOOSE x \in {s[i] : i \in DOMAIN s} : x.id = n BY DEF ById
  <2>3. ById(s)[n] \in {s[i] : i \in DOMAIN s} /\ ById(s)[n].id = n BY <2>1, <2>2
  <2> QED BY <2>3
<1> QED BY <1>2, <1>3 DEF Ids, ById

UniqueIds(s) == \A i, j \in DOMAIN s : s[i].id = s[j].id => i = j

LEMMA IdOfStep ==
  ASSUME NEW s, IsSequence(s), UniqueIds(s), NEW i \in DOMAIN s
  PROVE  s[i].id \in Ids(s) /\ ById(s)[s[i].id] = s[i]
<1>1. s[i].id \in Ids(s) BY DEF Ids
<1> QED BY <1>1, IdsOfSequence DEF UniqueIds

LEMMA CompiledAre ==
  ASSUME NEW steps, IsSequence(steps), NEW bindings, StepsAccepted(steps, bindings),
         NEW compiled, compiled = CompiledSteps(steps)
  PROVE  IsSequence(compiled) /\ UniqueIds(compiled) /\ Len(compiled) >= 1
<1>1. IsSequence(compiled) /\ Len(compiled) = Len(steps) BY MappedIsSequence DEF CompiledSteps
<1>2. Len(steps) >= 1 BY DEF StepsAccepted
<1>3. DOMAIN compiled = DOMAIN steps BY DEF CompiledSteps
<1>4. UniqueIds(compiled) BY <1>3 DEF StepsAccepted, UniqueIds
<1> QED BY <1>1, <1>2, <1>4

\* Targets resolve, so that the edges of a plan are a graph.
LEMMA PlanIsGraph ==
  ASSUME NEW plan, IsFiniteSet(DOMAIN plan), NEW compiled, StepsResolve(plan, compiled)
  PROVE  Graph(Edges(plan, TRUE)) /\ DOMAIN Edges(plan, TRUE) = DOMAIN plan
<1> DEFINE edges == Edges(plan, TRUE)
<1>1. DOMAIN edges = DOMAIN plan /\ edges = [n \in DOMAIN edges |-> edges[n]] BY DEF Edges
<1>2. ASSUME NEW n \in DOMAIN plan PROVE edges[n] \subseteq DOMAIN plan
  <2>1. edges[n] = Successors(plan[n], TRUE) \ {None} BY DEF Edges
  <2>2. CASE plan[n].kind \in {"step", "join"} /\ Optional(plan, plan[n].next)
    BY <2>1, <2>2 DEF Successors, Optional
  <2>3. CASE plan[n].kind = "branch" /\ BranchResolves(plan, plan[n])
    <3>1. Successors(plan[n], TRUE) = RouteTargets(plan[n]) BY <2>3 DEF Successors
    <3>2. RouteTargets(plan[n]) \subseteq DOMAIN plan BY <2>3 DEF RouteTargets, BranchResolves
    <3> QED BY <2>1, <3>1, <3>2
  <2>4. CASE plan[n].kind = "loop" /\ plan[n].body \in DOMAIN plan /\ Optional(plan, plan[n].exit)
    BY <2>1, <2>4 DEF Successors, Optional
  <2> QED BY <2>2, <2>3, <2>4 DEF StepsResolve
<1> QED BY <1>1, <1>2 DEF Graph

LEMMA PlanProgramIsSound ==
  ASSUME NEW c, c.plan # NoPlan, EngineAccepts(c),
         IsSequence(StepsToRun(c)), IsSequence(c.plan.steps)
  PROVE  ProgramSound(Program(c))
<1> DEFINE compiled == CompiledSteps(StepsToRun(c))
           plan == ById(c.plan.steps)
           step == ById(compiled)
           edges == Edges(plan, TRUE)
           asserts == {i \in DOMAIN compiled : compiled[i].kind = "assert"}
           p == Program(c)
<1>1. /\ p.plan = plan /\ p.step = step /\ p.entry = c.plan.entry
      /\ p.request = [n \in {compiled[i].id : i \in asserts} |-> plan[n].request]
  BY DEF Program
<1>2. IsSequence(compiled) /\ UniqueIds(compiled)
  BY CompiledAre DEF EngineAccepts
<1>3. /\ StepsResolve(plan, compiled)
      /\ c.plan.entry \in DOMAIN step
      /\ \A n \in DOMAIN step :
           step[n].kind = "assert" =>
             AssertionAttached(plan, step, n, Dominators(edges, c.plan.entry))
  BY DEF EngineAccepts, PlanAccepted, FlowAccepted
<1> HIDE DEF compiled, plan, step, p
<1>4. IsFiniteSet(DOMAIN plan) BY IdsOfSequence DEF plan
<1>5. Graph(edges) /\ DOMAIN edges = DOMAIN plan BY <1>3, <1>4, PlanIsGraph
<1>6. DOMAIN step = Ids(compiled) /\ \A i \in DOMAIN compiled : step[compiled[i].id] = compiled[i]
  BY <1>2, IdsOfSequence, IdOfStep DEF step
<1>7. \A n \in DOMAIN step : n \in DOMAIN plan /\ plan[n].kind = "step"
  BY <1>3, <1>6 DEF StepsResolve, OfKind
<1>8. \A n \in DOMAIN plan : plan[n].kind = "step" => n \in DOMAIN step
  BY <1>3, <1>6 DEF StepsResolve, OfKind
<1>9. \A n \in DOMAIN step : step[n].kind = "assert" => n \in DOMAIN p.request
  BY <1>1, <1>6 DEF Ids
<1>10. ASSUME NEW a \in DOMAIN p.request
       PROVE  LET r == p.request[a] IN
              /\ a \in DOMAIN plan /\ r # a /\ r \in Dominators(edges, c.plan.entry)[a]
              /\ plan[r].kind = "step" /\ step[r].kind = "request"
  <2>1. PICK i \in asserts : a = compiled[i].id BY <1>1, <1>10
  <2>2. a \in DOMAIN step /\ step[a].kind = "assert" BY <1>6, <2>1 DEF Ids
  <2>3. AssertionAttached(plan, step, a, Dominators(edges, c.plan.entry)) BY <1>3, <2>2
  <2>4. p.request[a] = plan[a].request BY <1>1, <1>10
  <2> QED BY <1>7, <2>2, <2>3, <2>4 DEF AssertionAttached
<1>11. \A n \in DOMAIN plan :
          /\ edges[n] \subseteq DOMAIN plan
          /\ plan[n].kind = "step" /\ step[n].kind = "assert" => n \in DOMAIN p.request
  BY <1>5, <1>8, <1>9 DEF Graph
<1>12. c.plan.entry \in DOMAIN plan BY <1>3, <1>7
<1>13. ProgramSound(p) BY ONLY <1>1, <1>4, <1>10, <1>11, <1>12 DEF ProgramSound
<1> QED BY <1>13 DEF p

\* There is a last request before a step, or none.
LEMMA RequestBeforeIs ==
  ASSUME NEW compiled, NEW i \in Nat, i > 0
  PROVE  /\ RequestBefore(compiled, i) \in 0 .. i - 1
         /\ RequestBefore(compiled, i) > 0 =>
              compiled[RequestBefore(compiled, i)].kind = "request"
<1> DEFINE IsLast(j) == /\ j > 0 => compiled[j].kind = "request"
                        /\ \A k \in j + 1 .. i - 1 : compiled[k].kind # "request"
           Back == {b \in 0 .. i - 1 : i - 1 - b > 0 => compiled[i - 1 - b].kind = "request"}
<1>1. Back \in SUBSET Nat /\ i - 1 \in Back OBVIOUS
<1>2. PICK b \in Back : \A d \in Back : b <= d
  <2> HIDE DEF Back
  <2> QED BY <1>1, LeastNumber
<1>3. i - 1 - b \in 0 .. i - 1 /\ (i - 1 - b > 0 => compiled[i - 1 - b].kind = "request")
  OBVIOUS
<1>4. ASSUME NEW k \in (i - 1 - b) + 1 .. i - 1, compiled[k].kind = "request" PROVE FALSE
  <2>1. i - 1 - k \in 0 .. i - 1 /\ i - 1 - (i - 1 - k) = k /\ i - 1 - k < b BY <1>1
  <2>2. i - 1 - k \in Back BY <1>4, <2>1
  <2> QED BY <1>2, <2>1, <2>2
<1>5. \E j \in 0 .. i - 1 : IsLast(j) BY <1>3, <1>4
<1>6. RequestBefore(compiled, i) = CHOOSE j \in 0 .. i - 1 : IsLast(j) BY DEF RequestBefore
<1> HIDE DEF IsLast
<1>7. RequestBefore(compiled, i) \in 0 .. i - 1 /\ IsLast(RequestBefore(compiled, i))
  BY <1>5, <1>6
<1> QED BY <1>7 DEF IsLast

\* Steps in order are a plan in which each has one edge, to the next.
LEMMA InOrderIs ==
  ASSUME NEW compiled, IsSequence(compiled), UniqueIds(compiled)
  PROVE  LET plan == InOrder(compiled)
             edges == Edges(plan, TRUE)
         IN /\ DOMAIN plan = Ids(compiled) /\ IsFiniteSet(DOMAIN plan)
            /\ Graph(edges) /\ DOMAIN edges = DOMAIN plan
            /\ \A n \in DOMAIN plan : plan[n].kind = "step"
            /\ \A i \in DOMAIN compiled : \A m \in edges[compiled[i].id] :
                 i + 1 \in DOMAIN compiled /\ m = compiled[i + 1].id
<1> DEFINE s == [i \in DOMAIN compiled |->
                  [id |-> compiled[i].id, kind |-> "step",
                   next |-> IF i = Len(compiled) THEN None ELSE compiled[i + 1].id]]
           plan == InOrder(compiled)
           edges == Edges(plan, TRUE)
<1>1. plan = ById(s) BY DEF InOrder
<1>2. IsSequence(s) BY MappedIsSequence
<1>3. DOMAIN s = DOMAIN compiled OBVIOUS
<1>4. \A i \in DOMAIN s :
        /\ s[i].id = compiled[i].id /\ s[i].kind = "step"
        /\ s[i].next = IF i = Len(compiled) THEN None ELSE compiled[i + 1].id
  OBVIOUS
<1> HIDE DEF s, plan
<1>5. Ids(s) = Ids(compiled) BY <1>3, <1>4 DEF Ids
<1>6. UniqueIds(s) BY <1>3, <1>4 DEF UniqueIds
<1>7. IsFiniteSet(DOMAIN plan) /\ DOMAIN plan = Ids(compiled)
  BY <1>1, <1>2, <1>5, IdsOfSequence
<1>8. \A i \in DOMAIN compiled : plan[compiled[i].id] = s[i] /\ compiled[i].id \in DOMAIN plan
  BY <1>1, <1>2, <1>3, <1>4, <1>6, <1>5, <1>7, IdOfStep
<1>9. \A n \in DOMAIN plan : \E i \in DOMAIN compiled : n = compiled[i].id
  BY <1>7 DEF Ids
<1>10. \A n \in DOMAIN plan : plan[n].kind = "step" BY <1>3, <1>4, <1>8, <1>9
<1>11. \A n \in DOMAIN plan : edges[n] = {plan[n].next} \ {None}
  BY <1>10 DEF Edges, Successors
<1>14. DOMAIN edges = DOMAIN plan /\ edges = [n \in DOMAIN edges |-> edges[n]] BY DEF Edges
<1> HIDE DEF edges
<1>12. ASSUME NEW i \in DOMAIN compiled, NEW m \in edges[compiled[i].id]
       PROVE  i + 1 \in DOMAIN compiled /\ m = compiled[i + 1].id
  <2>1. m = s[i].next /\ m # None
    <3>1. edges[compiled[i].id] = {s[i].next} \ {None} BY <1>8, <1>11
    <3> QED BY <1>12, <3>1
  <2>2. i # Len(compiled) /\ m = compiled[i + 1].id BY <1>3, <1>4, <2>1
  <2> QED BY <2>2 DEF IsSequence
<1>13. \A n \in DOMAIN plan : edges[n] \subseteq DOMAIN plan
  <2> SUFFICES ASSUME NEW n \in DOMAIN plan, NEW m \in edges[n] PROVE m \in DOMAIN plan
    OBVIOUS
  <2>1. PICK i \in DOMAIN compiled : n = compiled[i].id BY <1>9
  <2>2. i + 1 \in DOMAIN compiled /\ m = compiled[i + 1].id BY <1>12, <2>1
  <2> QED BY <1>8, <2>2
<1>15. Graph(edges) BY <1>7, <1>13, <1>14 DEF Graph
<1> QED BY <1>7, <1>10, <1>12, <1>14, <1>15 DEF plan, edges

\* Every step before another, or it, dominates it.
LEMMA EarlierDominate ==
  ASSUME NEW compiled, IsSequence(compiled), UniqueIds(compiled), Len(compiled) >= 1,
         NEW edges, edges = Edges(InOrder(compiled), TRUE)
  PROVE  \A i \in DOMAIN compiled : \A j \in 1 .. i :
           compiled[j].id \in Dominators(edges, compiled[1].id)[compiled[i].id]
<1> DEFINE id(i) == compiled[i].id
           G == {<<id(i), id(j)>> : i \in DOMAIN compiled, j \in DOMAIN compiled}
           Later == {pair \in G : \E i, j \in DOMAIN compiled : pair = <<id(i), id(j)>> /\ j > i}
<1>1. /\ DOMAIN edges = Ids(compiled) /\ Graph(edges)
      /\ \A i \in DOMAIN compiled : \A m \in edges[id(i)] :
           i + 1 \in DOMAIN compiled /\ m = id(i + 1)
  BY InOrderIs
<1>2. DOMAIN compiled = 1 .. Len(compiled) /\ Len(compiled) \in Nat BY DEF IsSequence
<1>3. \A n \in DOMAIN edges : \E i \in DOMAIN compiled : n = id(i) BY <1>1 DEF Ids
<1>4. \A i \in DOMAIN compiled : id(i) \in DOMAIN edges BY <1>1 DEF Ids
<1>5. \A i, j \in DOMAIN compiled : <<id(i), id(j)>> \in Later <=> j > i
  BY DEF UniqueIds
<1> HIDE DEF Later
<1>6. \A d \in DOMAIN edges : d # id(1) => <<id(1), d>> \in Later
  <2> SUFFICES ASSUME NEW d \in DOMAIN edges, d # id(1) PROVE <<id(1), d>> \in Later
    OBVIOUS
  <2>1. PICK j \in DOMAIN compiled : d = id(j) BY <1>3
  <2>2. j # 1 /\ 1 \in DOMAIN compiled BY <1>2, <2>1
  <2>3. j > 1 BY <1>2, <2>2
  <2> QED BY <1>5, <2>1, <2>2, <2>3
<1>7. ASSUME NEW m \in DOMAIN edges, NEW n \in DOMAIN edges, NEW d \in DOMAIN edges,
             n \in edges[m], <<m, d>> \in Later, n # d
      PROVE  <<n, d>> \in Later
  <2>1. PICK i \in DOMAIN compiled, j \in DOMAIN compiled : m = id(i) /\ d = id(j) BY <1>3
  <2>2. i + 1 \in DOMAIN compiled /\ n = id(i + 1) BY <1>1, <1>7, <2>1
  <2>3. j > i /\ j # i + 1 BY <1>5, <1>7, <2>1, <2>2
  <2>4. j > i + 1 BY <1>2, <2>3
  <2> QED BY <1>5, <2>1, <2>2, <2>4
<1>8. 1 \in DOMAIN compiled /\ id(1) \in DOMAIN edges
  <2>1. 1 \in DOMAIN compiled BY <1>2
  <2> QED BY <1>4, <2>1
<1>9. \A n, d \in DOMAIN edges : <<n, d>> \notin Later => d \in Dominators(edges, id(1))[n]
  <2>1. \A m, n, d \in DOMAIN edges :
          n \in edges[m] /\ <<m, d>> \in Later /\ n # d /\ n # id(1) => <<n, d>> \in Later
    BY <1>7
  <2> DEFINE entry == id(1)
  <2> HIDE DEF entry
  <2>2. entry \in DOMAIN edges /\ \A d \in DOMAIN edges : d # entry => <<entry, d>> \in Later
    BY <1>6, <1>8 DEF entry
  <2>3. \A m, n, d \in DOMAIN edges :
          n \in edges[m] /\ <<m, d>> \in Later /\ n # d /\ n # entry => <<n, d>> \in Later
    BY <2>1 DEF entry
  <2>4. \A n, d \in DOMAIN edges : <<n, d>> \notin Later => d \in Dominators(edges, entry)[n]
    BY <1>1, <2>2, <2>3, DominatorsLeast
  <2> QED BY <2>4 DEF entry
<1>10. ASSUME NEW i \in DOMAIN compiled, NEW j \in 1 .. i
       PROVE  id(j) \in Dominators(edges, id(1))[id(i)]
  <2>1. j \in DOMAIN compiled /\ ~(j > i) BY <1>2
  <2> QED BY <1>4, <1>5, <1>9, <2>1
<1> QED BY <1>10

LEMMA LinearProgramIsSound ==
  ASSUME NEW c, c.plan = NoPlan, EngineAccepts(c), IsSequence(StepsToRun(c))
  PROVE  ProgramSound(Program(c))
<1> DEFINE compiled == CompiledSteps(StepsToRun(c))
           plan == InOrder(compiled)
           step == ById(compiled)
           edges == Edges(plan, TRUE)
           asserts == {i \in DOMAIN compiled : compiled[i].kind = "assert"}
           index(n) == CHOOSE j \in asserts : compiled[j].id = n
           p == Program(c)
<1>1. /\ p.plan = plan /\ p.step = step /\ p.entry = compiled[1].id
      /\ p.request = [n \in {compiled[i].id : i \in asserts} |->
                       compiled[RequestBefore(compiled, index(n))].id]
  BY DEF Program
<1>2. IsSequence(compiled) /\ UniqueIds(compiled) /\ Len(compiled) >= 1
  BY CompiledAre DEF EngineAccepts
<1>3. \A i \in DOMAIN compiled : compiled[i].kind = "assert" => RequestBefore(compiled, i) > 0
  BY DEF EngineAccepts, LinearAccepted
<1> HIDE DEF compiled, step, p
<1>4. /\ DOMAIN plan = Ids(compiled) /\ IsFiniteSet(DOMAIN plan)
      /\ Graph(edges) /\ DOMAIN edges = DOMAIN plan
      /\ \A n \in DOMAIN plan : plan[n].kind = "step"
  BY <1>2, InOrderIs
<1>5. \A i \in DOMAIN compiled : \A j \in 1 .. i :
        compiled[j].id \in Dominators(edges, compiled[1].id)[compiled[i].id]
  BY <1>2, EarlierDominate
<1>6. /\ \A i \in DOMAIN compiled : compiled[i].id \in Ids(compiled)
      /\ \A i \in DOMAIN compiled : step[compiled[i].id] = compiled[i]
  BY <1>2, IdOfStep DEF step
<1>7. DOMAIN compiled = 1 .. Len(compiled) /\ Len(compiled) \in Nat BY <1>2 DEF IsSequence
<1> HIDE DEF plan
<1>8. \A n \in DOMAIN plan : step[n].kind = "assert" => n \in DOMAIN p.request
  BY <1>1, <1>4, <1>6 DEF Ids
<1>9. ASSUME NEW a \in DOMAIN p.request
      PROVE  LET r == p.request[a] IN
             /\ a \in DOMAIN plan /\ r # a /\ r \in Dominators(edges, compiled[1].id)[a]
             /\ plan[r].kind = "step" /\ step[r].kind = "request"
  <2>1. \E i \in asserts : a = compiled[i].id BY <1>1, <1>9
  <2> DEFINE i == index(a)
             j == RequestBefore(compiled, i)
  <2>2. i \in asserts /\ compiled[i].id = a BY <2>1
  <2>3. p.request[a] = compiled[j].id BY <1>1, <1>9
  <2> HIDE DEF i
  <2>4. i \in DOMAIN compiled /\ i \in Nat /\ i > 0 /\ compiled[i].kind = "assert" BY <1>7, <2>2
  <2>5. j \in 0 .. i - 1 /\ j > 0 /\ compiled[j].kind = "request"
    BY <1>3, <2>4, RequestBeforeIs
  <2> HIDE DEF j
  <2>6. j \in 1 .. i /\ j \in DOMAIN compiled /\ j # i BY <1>7, <2>4, <2>5
  <2>7. compiled[j].id # a BY <1>2, <2>2, <2>4, <2>6 DEF UniqueIds
  <2>8. compiled[j].id \in Dominators(edges, compiled[1].id)[a] BY <1>5, <2>2, <2>4, <2>6
  <2>9. /\ a \in DOMAIN plan /\ compiled[j].id \in DOMAIN plan
        /\ step[compiled[j].id].kind = "request"
    BY <1>4, <1>6, <2>2, <2>4, <2>5, <2>6
  <2> QED BY <1>4, <2>3, <2>7, <2>8, <2>9
<1>10. \A n \in DOMAIN plan :
         /\ edges[n] \subseteq DOMAIN plan
         /\ plan[n].kind = "step" /\ step[n].kind = "assert" => n \in DOMAIN p.request
  BY <1>4, <1>8 DEF Graph
<1>11. compiled[1].id \in DOMAIN plan
  <2>1. 1 \in DOMAIN compiled BY <1>2, <1>7
  <2> QED BY <1>4, <1>6, <2>1
<1>12. ProgramSound(p) BY ONLY <1>1, <1>4, <1>9, <1>10, <1>11 DEF ProgramSound
<1> QED BY <1>12 DEF p

LEMMA PlanProgramIsBounded ==
  ASSUME NEW c, c.plan # NoPlan, EngineAccepts(c), IsSequence(c.plan.steps)
  PROVE  ProgramBounded(Program(c))
<1> DEFINE compiled == CompiledSteps(StepsToRun(c))
           plan == ById(c.plan.steps)
           found == OfKind(plan, "loop")
           edges == Edges(plan, FALSE)
           p == Program(c)
<1>1. p.plan = plan /\ p.max = MaxTransitions(plan) BY DEF Program
<1>2. StepsResolve(plan, compiled) /\ LoopsBounded(plan) /\ \A n \in DOMAIN plan : Given(n)
  BY DEF EngineAccepts, PlanAccepted, FlowAccepted
<1> HIDE DEF compiled, plan, p
<1>3. IsFiniteSet(DOMAIN plan) BY IdsOfSequence DEF plan
<1>4. Graph(edges)
  <2>1. Graph(Edges(plan, TRUE)) BY <1>2, <1>3, PlanIsGraph
  <2>2. DOMAIN edges = DOMAIN plan /\ edges = [n \in DOMAIN edges |-> edges[n]] BY DEF Edges
  <2>3. \A n \in DOMAIN plan : edges[n] \subseteq Edges(plan, TRUE)[n]
    BY DEF Edges, Successors
  <2>4. \A n \in DOMAIN plan : Edges(plan, TRUE)[n] \subseteq DOMAIN plan
    BY <2>1 DEF Graph, Edges
  <2> QED BY <1>3, <2>2, <2>3, <2>4 DEF Graph
<1>5. ASSUME NEW l \in found
      PROVE  /\ plan[l].max \in Nat \ {0} /\ plan[l].body \in DOMAIN plan
             /\ LoopBody(plan, l) \cap found = {} /\ l # None
  <2>1. l \in DOMAIN plan /\ plan[l].kind = "loop" BY DEF OfKind
  <2>2. plan[l].body \in DOMAIN plan /\ plan[l].max \in 1 .. MaxLoopIterations
    BY <1>2, <2>1 DEF StepsResolve
  <2>3. LoopBody(plan, l) \cap found = {} BY <1>2 DEF LoopsBounded
  <2> QED BY <1>2, <2>1, <2>2, <2>3 DEF Given
<1>6. Acyclic(edges) BY <1>2 DEF LoopsBounded
<1>7. LoopsResolve(plan) BY <1>3, <1>4, <1>5 DEF LoopsResolve
<1>8. /\ MaxTransitions(plan) \in Nat
      /\ Cardinality(DOMAIN plan) + Cardinality(AllRounds(plan, found)) <= MaxTransitions(plan)
  BY <1>7, BoundCounts
<1>9. None \notin found BY <1>5
<1>10. \A l \in found :
         /\ plan[l].max \in Nat \ {0} /\ plan[l].body \in DOMAIN plan
         /\ LoopBody(plan, l) \cap found = {}
  BY <1>5
<1>11. ProgramBounded(p) BY ONLY <1>1, <1>6, <1>8, <1>9, <1>10 DEF ProgramBounded
<1> QED BY <1>11 DEF p

\* Steps in order do not come back.
LEMMA InOrderIsAcyclic ==
  ASSUME NEW compiled, IsSequence(compiled), UniqueIds(compiled),
         NEW edges, edges = Edges(InOrder(compiled), TRUE)
  PROVE  Acyclic(edges)
<1> DEFINE id(i) == compiled[i].id
<1>1. /\ DOMAIN edges = Ids(compiled) /\ Graph(edges)
      /\ \A i \in DOMAIN compiled : \A m \in edges[id(i)] :
           i + 1 \in DOMAIN compiled /\ m = id(i + 1)
  BY InOrderIs
<1>2. DOMAIN compiled = 1 .. Len(compiled) /\ Len(compiled) \in Nat BY DEF IsSequence
<1> SUFFICES ASSUME NEW n \in DOMAIN edges, NEW m \in edges[n] PROVE n \notin From(edges, m, None)
  BY DEF Acyclic
<1>3. PICK i \in DOMAIN compiled : n = id(i) BY <1>1 DEF Ids
<1>4. i + 1 \in DOMAIN compiled /\ m = id(i + 1) BY <1>1, <1>3
<1> DEFINE G == {id(j) : j \in {k \in DOMAIN compiled : k > i}}
<1>5. m \in G BY <1>2, <1>4
<1>6. \A x \in G \cap DOMAIN edges : edges[x] \ {None} \subseteq G
  <2> SUFFICES ASSUME NEW x \in G, NEW y \in edges[x] PROVE y \in G OBVIOUS
  <2>1. PICK j \in DOMAIN compiled : j > i /\ x = id(j) OBVIOUS
  <2>2. j + 1 \in DOMAIN compiled /\ y = id(j + 1) BY <1>1, <2>1
  <2>3. j + 1 > i BY <1>2, <2>1
  <2> QED BY <2>2, <2>3
<1>7. n \notin G BY <1>2, <1>3 DEF UniqueIds
<1>8. m \in DOMAIN edges BY <1>1 DEF Graph
<1> HIDE DEF G
<1>9. From(edges, m, None) \subseteq G BY <1>1, <1>5, <1>6, <1>8, FromIsLeast
<1> QED BY <1>7, <1>9

LEMMA LinearProgramIsBounded ==
  ASSUME NEW c, c.plan = NoPlan, EngineAccepts(c), IsSequence(StepsToRun(c))
  PROVE  ProgramBounded(Program(c))
<1> DEFINE compiled == CompiledSteps(StepsToRun(c))
           plan == InOrder(compiled)
           p == Program(c)
<1>1. p.plan = plan /\ p.max = Len(compiled) BY DEF Program
<1>2. IsSequence(compiled) /\ UniqueIds(compiled) BY CompiledAre DEF EngineAccepts
<1> HIDE DEF compiled, p
<1>3. DOMAIN plan = Ids(compiled) /\ \A n \in DOMAIN plan : plan[n].kind = "step"
  BY <1>2, InOrderIs
<1>4. Acyclic(Edges(plan, TRUE)) BY <1>2, InOrderIsAcyclic
<1>5. Cardinality(DOMAIN plan) \in Nat /\ Cardinality(DOMAIN plan) <= Len(compiled)
  <2> DEFINE f == [i \in DOMAIN compiled |-> compiled[i].id]
  <2>1. f \in Surjection(DOMAIN compiled, Ids(compiled)) BY DEF Surjection, Ids
  <2>2. IsFiniteSet(DOMAIN compiled) /\ Cardinality(DOMAIN compiled) = Len(compiled)
    <3>1. DOMAIN compiled = 1 .. Len(compiled) /\ Len(compiled) \in Nat
      BY <1>2 DEF IsSequence
    <3> DEFINE len == Len(compiled)
    <3> HIDE DEF len
    <3>2. IsFiniteSet(1 .. len) /\ Cardinality(1 .. len) = IF 1 > len THEN 0 ELSE len - 1 + 1
      BY <3>1, FS_Interval DEF len
    <3>3. len \in Nat BY <3>1 DEF len
    <3>4. Cardinality(1 .. len) = len BY ONLY <3>2, <3>3
    <3> QED BY <3>1, <3>2, <3>4 DEF len
  <2> HIDE DEF f
  <2>3. /\ IsFiniteSet(Ids(compiled))
        /\ Cardinality(Ids(compiled)) <= Cardinality(DOMAIN compiled)
    BY <2>1, <2>2, FS_Surjection
  <2> QED BY <1>3, <2>2, <2>3, FS_CardinalityType
<1> HIDE DEF plan
<1>6. Edges(plan, FALSE) = Edges(plan, TRUE)
  <2>1. \A n \in DOMAIN plan : Successors(plan[n], FALSE) = Successors(plan[n], TRUE)
    BY <1>3 DEF Successors
  <2> QED BY <2>1 DEF Edges
<1>7. OfKind(plan, "loop") = {} BY <1>3 DEF OfKind
<1>8. AllRounds(plan, {}) = {} BY DEF AllRounds
<1>9. Cardinality({}) = 0 BY FS_EmptySet
<1>10. Len(compiled) \in Nat BY <1>2 DEF IsSequence
<1>11. Cardinality(DOMAIN plan) + 0 <= Len(compiled) BY <1>5, <1>10
<1>12. ProgramBounded(p)
  BY ONLY <1>1, <1>4, <1>6, <1>7, <1>8, <1>9, <1>10, <1>11 DEF ProgramBounded
<1> QED BY <1>12 DEF p

\* A program the engine accepts is sound, and bounded.
LEMMA AcceptedIsSound ==
  ASSUME NEW r \in RequestRecord, EngineAccepts(NormalConfig(r))
  PROVE  ProgramSound(Program(NormalConfig(r))) /\ ProgramBounded(Program(NormalConfig(r)))
<1> DEFINE c == NormalConfig(r)
<1>1. IsSequence(StepsToRun(c)) /\ IsSequence(c.plan.steps) BY StepsAreSequences
<1> HIDE DEF c
<1>2. EngineAccepts(c) BY DEF c
<1>3. ProgramSound(Program(c)) BY <1>1, <1>2, LinearProgramIsSound, PlanProgramIsSound
<1>4. ProgramBounded(Program(c))
  BY <1>1, <1>2, LinearProgramIsBounded, PlanProgramIsBounded
<1> QED BY <1>3, <1>4 DEF c

-----------------------------------------------------------------------------
(* What is done and what is left.                                           *)

\* BoundOK of a step about to run.
InBound(p, counts, n, done) ==
  LET plan == p.plan IN
  /\ done \in Nat /\ counts \in [OfKind(plan, "loop") -> Nat]
  /\ \/ (\A l \in DOMAIN counts : counts[l] = 0) /\ OutsideOK(plan, n, done, p.max)
     \/ \E l \in DOMAIN counts :
          /\ \A m \in DOMAIN counts \ {l} : counts[m] = 0
          /\ counts[l] \in 1 .. plan[l].max
          /\ n \in LoopBody(plan, l) \cup {l}
          /\ InsideOK(plan, l, counts[l], n, done, p.max)

LEMMA BoundOKIs ==
  /\ BoundOK <=> ended # "cut" /\ (pc # None => InBound(program, loops, pc, transitions))
  /\ BoundOK' <=>
       ended' # "cut" /\ (pc' # None => InBound(program', loops', pc', transitions'))
BY DEF BoundOK, InBound, OutsideOK, InsideOK, Left

\* The program of an iteration that runs.
LEMMA SoundIsBounded ==
  ASSUME NEW p, ProgramSound(p), ProgramBounded(p), NEW plan, plan = p.plan,
         NEW edges, edges = Edges(plan, FALSE)
  PROVE  /\ Bounded(plan, edges) /\ DOMAIN edges = DOMAIN plan /\ p.max \in Nat
         /\ EdgesOf(plan, edges)
         /\ \A l \in OfKind(plan, "loop") :
              /\ l # None /\ l \in DOMAIN plan
              /\ \A m \in OfKind(plan, "loop") : m \notin LoopBody(plan, l)
<1>1. /\ LoopsResolve(plan) /\ Forward(edges) /\ DOMAIN edges = DOMAIN plan
      /\ EdgesOf(plan, edges)
  BY SoundIsForward
<1>2. \A l \in OfKind(plan, "loop") : l \in DOMAIN plan /\ plan[l].kind = "loop" BY DEF OfKind
<1>4. /\ p.max \in Nat
      /\ \A l \in OfKind(plan, "loop") :
           /\ l # None /\ plan[l].max \in Nat \ {0}
           /\ LoopBody(plan, l) \cap OfKind(plan, "loop") = {}
  BY DEF ProgramBounded
<1>5. \A l \in OfKind(plan, "loop") :
        edges[l] = {plan[l].exit} \ {None} /\ plan[l].max \in Nat \ {0}
  BY <1>1, <1>2, <1>4 DEF EdgesOf
<1>6. Bounded(plan, edges) BY <1>1, <1>5 DEF Bounded
<1> QED BY <1>1, <1>2, <1>4, <1>6

\* A step that is no loop goes on to one that follows it.
LEMMA GoOnKeeps ==
  ASSUME NEW p, ProgramSound(p), ProgramBounded(p), NEW counts, NEW done, NEW n,
         InBound(p, counts, n, done), n # None, n \in DOMAIN p.plan, p.plan[n].kind # "loop",
         NEW next \in Successors(p.plan[n], TRUE), next # None
  PROVE  InBound(p, counts, next, done + 1) /\ done + 1 < p.max
<1> DEFINE plan == p.plan
           edges == Edges(plan, FALSE)
           max == p.max
<1>1. /\ Bounded(plan, edges) /\ max \in Nat
      /\ \A l \in OfKind(plan, "loop") : l # None
      /\ EdgesOf(plan, edges)
  BY SoundIsBounded
<1>2. n \in DOMAIN plan \ OfKind(plan, "loop") BY DEF OfKind
<1>3. next \in edges[n] BY <1>1 DEF EdgesOf
<1>4. done \in Nat /\ counts \in [OfKind(plan, "loop") -> Nat] BY DEF InBound
<1> HIDE DEF edges
<1>5. CASE (\A l \in DOMAIN counts : counts[l] = 0) /\ OutsideOK(plan, n, done, max)
  <2>1. OutsideOK(plan, next, done + 1, max) /\ done + 1 < max
    BY <1>1, <1>2, <1>3, <1>4, <1>5, StepOutside
  <2> QED BY <1>4, <1>5, <2>1 DEF InBound
<1>6. CASE \E l \in DOMAIN counts :
             /\ \A m \in DOMAIN counts \ {l} : counts[m] = 0
             /\ counts[l] \in 1 .. plan[l].max
             /\ n \in LoopBody(plan, l) \cup {l}
             /\ InsideOK(plan, l, counts[l], n, done, max)
  <2>1. PICK l \in DOMAIN counts :
          /\ \A m \in DOMAIN counts \ {l} : counts[m] = 0
          /\ counts[l] \in 1 .. plan[l].max
          /\ n \in LoopBody(plan, l) \cup {l}
          /\ InsideOK(plan, l, counts[l], n, done, max)
    BY <1>6
  <2>2. l \in OfKind(plan, "loop") /\ l # None BY <1>1, <1>4
  <2>3. n \in LoopBody(plan, l) BY <1>2, <2>1, <2>2
  <2>4. /\ next \in LoopBody(plan, l) \cup {l}
        /\ InsideOK(plan, l, counts[l], next, done + 1, max) /\ done + 1 < max
    BY <1>1, <1>3, <1>4, <2>1, <2>2, <2>3, StepInside
  <2>5. done + 1 \in Nat BY <1>4
  <2> QED BY <1>4, <2>1, <2>4, <2>5 DEF InBound
<1> QED BY <1>5, <1>6 DEF InBound

\* A loop goes into its body for its first round or the next, or on after the last.
LEMMA LoopKeeps ==
  ASSUME NEW p, ProgramSound(p), ProgramBounded(p), NEW counts, NEW done, NEW l,
         InBound(p, counts, l, done), l # None, l \in OfKind(p.plan, "loop")
  PROVE  /\ counts[l] < p.plan[l].max =>
              /\ InBound(p, [counts EXCEPT ![l] = @ + 1], p.plan[l].body, done + 1)
              /\ done + 1 < p.max
         /\ ~(counts[l] < p.plan[l].max) =>
              /\ InBound(p, [counts EXCEPT ![l] = 0], p.plan[l].exit, done + 1)
              /\ p.plan[l].exit # None => done + 1 < p.max
<1> DEFINE plan == p.plan
           edges == Edges(plan, FALSE)
           max == p.max
           up == [counts EXCEPT ![l] = @ + 1]
           zero == [counts EXCEPT ![l] = 0]
<1>1. /\ Bounded(plan, edges) /\ max \in Nat
      /\ \A m \in OfKind(plan, "loop") : m # None /\ l \notin LoopBody(plan, m)
  BY SoundIsBounded
<1>2. done \in Nat /\ done + 1 \in Nat /\ counts \in [OfKind(plan, "loop") -> Nat] BY DEF InBound
<1>3. plan[l].max \in Nat \ {0} BY <1>1 DEF Bounded
<1>4. counts[l] \in Nat /\ DOMAIN counts = OfKind(plan, "loop") BY <1>2
<1>5. /\ up \in [OfKind(plan, "loop") -> Nat] /\ zero \in [OfKind(plan, "loop") -> Nat]
      /\ DOMAIN up = OfKind(plan, "loop") /\ DOMAIN zero = OfKind(plan, "loop")
      /\ up[l] = counts[l] + 1 /\ zero[l] = 0
      /\ \A m \in OfKind(plan, "loop") \ {l} : up[m] = counts[m] /\ zero[m] = counts[m]
  BY <1>2
<1> HIDE DEF edges, up, zero
<1>6. CASE (\A m \in DOMAIN counts : counts[m] = 0) /\ OutsideOK(plan, l, done, max)
  <2>1. counts[l] = 0 /\ counts[l] < plan[l].max BY <1>3, <1>4, <1>6
  <2>2. /\ plan[l].body \in LoopBody(plan, l) \cup {l} /\ 1 \in 1 .. plan[l].max
        /\ InsideOK(plan, l, 1, plan[l].body, done + 1, max) /\ done + 1 < max
    BY <1>1, <1>2, <1>6, StepIntoLoop
  <2>3. up[l] = 1 /\ \A m \in DOMAIN up \ {l} : up[m] = 0 BY <1>4, <1>5, <1>6, <2>1
  <2>4. InBound(p, up, plan[l].body, done + 1) BY <1>2, <1>5, <2>2, <2>3 DEF InBound
  <2> QED BY <2>1, <2>2, <2>4 DEF up
<1>7. CASE \E b \in DOMAIN counts :
             /\ \A m \in DOMAIN counts \ {b} : counts[m] = 0
             /\ counts[b] \in 1 .. plan[b].max
             /\ l \in LoopBody(plan, b) \cup {b}
             /\ InsideOK(plan, b, counts[b], l, done, max)
  <2>1. PICK b \in DOMAIN counts :
             /\ \A m \in DOMAIN counts \ {b} : counts[m] = 0
             /\ counts[b] \in 1 .. plan[b].max
             /\ l \in LoopBody(plan, b) \cup {b}
             /\ InsideOK(plan, b, counts[b], l, done, max)
    BY <1>7
  <2>2. b = l BY <1>1, <1>4, <2>1
  <2>3. /\ counts[l] \in 1 .. plan[l].max /\ InsideOK(plan, l, counts[l], l, done, max)
        /\ \A m \in DOMAIN counts \ {l} : counts[m] = 0
    BY <2>1, <2>2
  <2>4. ASSUME counts[l] < plan[l].max
        PROVE  InBound(p, up, plan[l].body, done + 1) /\ done + 1 < max
    <3>1. /\ plan[l].body \in LoopBody(plan, l) \cup {l} /\ counts[l] + 1 \in 1 .. plan[l].max
          /\ InsideOK(plan, l, counts[l] + 1, plan[l].body, done + 1, max) /\ done + 1 < max
      BY <1>1, <1>2, <2>3, <2>4, StepToNextRound
    <3>2. \A m \in DOMAIN up \ {l} : up[m] = 0 BY <1>4, <1>5, <2>3
    <3> QED BY <1>2, <1>5, <3>1, <3>2 DEF InBound
  <2>5. InBound(p, zero, plan[l].exit, done + 1) /\ (plan[l].exit # None => done + 1 < max)
    <3>1. /\ OutsideOK(plan, plan[l].exit, done + 1, max)
          /\ plan[l].exit # None => done + 1 < max
      BY <1>1, <1>2, <2>3, StepOutOfLoop
    <3>2. \A m \in DOMAIN zero : zero[m] = 0 BY <1>4, <1>5, <2>3
    <3> QED BY <1>2, <1>5, <3>1, <3>2 DEF InBound
  <2> QED BY <2>4, <2>5 DEF up, zero
<1> QED BY <1>6, <1>7 DEF InBound

\* An iteration begins with all of its bound left.
LEMMA BeginInBound ==
  ASSUME NEW p, ProgramSound(p), ProgramBounded(p)
  PROVE  InBound(p, [l \in OfKind(p.plan, "loop") |-> 0], p.entry, 0)
<1> DEFINE plan == p.plan
           all == OfKind(plan, "loop")
           A == Ahead(plan, p.entry)
           B == AllRounds(plan, A)
           counts == [l \in all |-> 0]
<1>1. Bounded(plan, Edges(plan, FALSE)) /\ p.max \in Nat BY SoundIsBounded
<1>2. IsFiniteSet(DOMAIN plan) /\ IsFiniteSet(AllRounds(plan, all))
  BY <1>1, BoundCounts DEF Bounded, LoopsResolve
<1>3. A \subseteq DOMAIN plan
  <2>1. Graph(Edges(plan, FALSE)) /\ DOMAIN Edges(plan, FALSE) = DOMAIN plan
    BY <1>1 DEF Bounded, Forward, Edges
  <2> QED BY <2>1, FromIsClosed DEF Ahead
<1>4. B \subseteq AllRounds(plan, all) BY DEF AllRounds
<1> HIDE DEF A, B
<1>5. /\ Cardinality(A) \in Nat /\ Cardinality(DOMAIN plan) \in Nat
      /\ Cardinality(A) <= Cardinality(DOMAIN plan)
      /\ Cardinality(B) \in Nat /\ Cardinality(AllRounds(plan, all)) \in Nat
      /\ Cardinality(B) <= Cardinality(AllRounds(plan, all))
  BY <1>2, <1>3, <1>4, FS_Subset, FS_CardinalityType
<1>6. Cardinality(DOMAIN plan) + Cardinality(AllRounds(plan, all)) <= p.max BY DEF ProgramBounded
<1>7. 0 + Cardinality(A) + Cardinality(B) <= p.max BY ONLY <1>1, <1>5, <1>6
<1>8. OutsideOK(plan, p.entry, 0, p.max) BY <1>7 DEF OutsideOK, A, B
<1>9. counts \in [all -> Nat] /\ \A l \in DOMAIN counts : counts[l] = 0 OBVIOUS
<1>10. InBound(p, counts, p.entry, 0) BY <1>8, <1>9 DEF InBound
<1> QED BY <1>10

-----------------------------------------------------------------------------
(* The iteration.                                                            *)

\* The edges of a sound program are a graph.
LEMMA SoundIsGraph ==
  ASSUME NEW p, ProgramSound(p)
  PROVE  /\ Graph(Edges(p.plan, TRUE)) /\ DOMAIN Edges(p.plan, TRUE) = DOMAIN p.plan
         /\ p.entry \in DOMAIN p.plan
BY DEF ProgramSound, Graph, Edges

\* A step that is no loop goes on within the bound.
LEMMA GoesOnInBound ==
  ASSUME IInv, pc # None, program.plan[pc].kind # "loop",
         NEW next \in Successors(program.plan[pc], TRUE), Advance(next),
         UNCHANGED <<program, loops>>
  PROVE  BoundOK'
<1>1. /\ pc \in DOMAIN program.plan /\ ProgramSound(program) /\ ProgramBounded(program)
      /\ InBound(program, loops, pc, transitions)
  BY BoundOKIs DEF IInv, FreshOK
<1>2. transitions \in Nat /\ program.max \in Nat BY <1>1 DEF InBound, ProgramBounded
<1>3. next # None =>
        /\ InBound(program, loops, next, transitions + 1)
        /\ transitions + 1 < program.max
  BY <1>1, GoOnKeeps
<1>4. pc' = next /\ transitions' = transitions + 1 /\ ended' # "cut" BY <1>2, <1>3, NotCut
<1> QED BY <1>3, <1>4, BoundOKIs

LEMMA LoopInBound == ASSUME IInv, Loop PROVE BoundOK'
<1>1. pc # None /\ program.plan[pc].kind = "loop" /\ UNCHANGED program BY DEF Loop, Running
<1>2. /\ pc \in DOMAIN program.plan /\ ProgramSound(program) /\ ProgramBounded(program)
      /\ InBound(program, loops, pc, transitions)
  BY <1>1, BoundOKIs DEF IInv, FreshOK
<1>3. transitions \in Nat /\ program.max \in Nat BY <1>2 DEF InBound, ProgramBounded
<1>4. pc \in OfKind(program.plan, "loop") BY <1>1, <1>2 DEF OfKind
<1> DEFINE body == program.plan[pc].body
           exit == program.plan[pc].exit
           up == [loops EXCEPT ![pc] = @ + 1]
           zero == [loops EXCEPT ![pc] = 0]
<1>5. CASE loops[pc] < program.plan[pc].max
  <2>1. loops' = up /\ Advance(body) BY <1>5 DEF Loop
  <2>2. InBound(program, up, body, transitions + 1) /\ transitions + 1 < program.max
    BY <1>1, <1>2, <1>4, <1>5, LoopKeeps
  <2> HIDE DEF body, up
  <2>3. pc' = body /\ transitions' = transitions + 1 /\ ended' # "cut"
    BY <1>3, <2>1, <2>2, NotCut
  <2> QED BY <1>1, <2>1, <2>2, <2>3, BoundOKIs
<1>6. CASE ~(loops[pc] < program.plan[pc].max)
  <2>1. loops' = zero /\ Advance(exit) BY <1>6 DEF Loop
  <2>2. /\ InBound(program, zero, exit, transitions + 1)
        /\ exit # None => transitions + 1 < program.max
    BY <1>1, <1>2, <1>4, <1>6, LoopKeeps
  <2> HIDE DEF exit, zero
  <2>3. pc' = exit /\ transitions' = transitions + 1 /\ ended' # "cut"
    BY <1>3, <2>1, <2>2, NotCut
  <2> QED BY <1>1, <2>1, <2>2, <2>3, BoundOKIs
<1> QED BY <1>5, <1>6

\* A step that goes on to a successor, and has evaluated the assertions of the
\* request it was, if it was one, keeps the invariant.
LEMMA AdvanceKeeps ==
  ASSUME IInv, pc # None, NEW next \in Successors(program.plan[pc], TRUE), Advance(next),
         UNCHANGED <<request, phase, program>>, fresh \subseteq fresh',
         RunningStep("request") => Attached(pc) \subseteq fresh', BoundOK'
  PROVE  IInv'
<1> DEFINE edges == Edges(program.plan, TRUE)
           dom == Dominators(edges, program.entry)
<1>1. phase = "accepted" /\ pc \in DOMAIN program.plan /\ ProgramSound(program)
  BY DEF IInv, FreshOK
<1>2. pc' = None \/ pc' = next BY DEF Advance
<1>3. ASSUME pc' # None
      PROVE  /\ pc' \in DOMAIN program.plan
             /\ \A a \in DOMAIN program.request : program.request[a] \in dom[pc'] \ {pc'} => a \in fresh'
  <2>1. Graph(edges) /\ DOMAIN edges = DOMAIN program.plan /\ program.entry \in DOMAIN edges
    BY <1>1, SoundIsGraph
  <2>2. pc' \in edges[pc] BY <1>1, <1>2, <1>3 DEF Edges
  <2>3. dom[pc'] \subseteq {pc'} \cup dom[pc] BY <1>1, <2>1, <2>2, Dominance
  <2>4. pc' \in DOMAIN program.plan BY <1>1, <2>1, <2>2 DEF Graph
  <2>5. ASSUME NEW a \in DOMAIN program.request, program.request[a] \in dom[pc'] \ {pc'}
        PROVE  a \in fresh'
    <3>1. program.request[a] \in dom[pc] BY <2>3, <2>5
    <3>2. CASE program.request[a] = pc
      <4>1. RunningStep("request")
        BY <1>1, <3>2 DEF ProgramSound, RunningStep, Running
      <4> QED BY <3>2, <4>1 DEF Attached
    <3>3. CASE program.request[a] # pc BY <3>1, <3>3 DEF IInv, FreshOK
    <3> QED BY <3>2, <3>3
  <2> QED BY <2>4, <2>5
<1> QED BY <1>1, <1>3 DEF IInv, FreshOK

\* So does the end of an iteration.
LEMMA EndKeeps ==
  ASSUME IInv, pc' = None, phase = "accepted", phase' \in {"accepted", "canceled"},
         UNCHANGED <<request, program>>, ended' # "cut"
  PROVE  IInv'
BY DEF IInv, FreshOK, BoundOK

LEMMA InitIInv == Init => IInv
BY RequestsAssumption DEF Init, IInv, FreshOK, BoundOK, None

LEMMA PreflightKeeps == ASSUME IInv, Preflight PROVE IInv'
<1>1. phase = "submitted" /\ request \in RequestRecord /\ pc = None /\ pc' = None
      /\ BoundOK'
  BY DEF Preflight, IInv, FreshOK, BoundOK, iteration
<1>2. CASE PreflightAccepts(request)
  <2>1. phase' = "accepted" /\ program' = Program(NormalConfig(request))
    BY <1>2 DEF Preflight
  <2>2. EngineAccepts(NormalConfig(request)) BY <1>2 DEF PreflightAccepts
  <2>3. ProgramSound(program') /\ ProgramBounded(program') BY <1>1, <2>1, <2>2, AcceptedIsSound
  <2> QED BY <1>1, <2>1, <2>3 DEF IInv, FreshOK
<1>3. CASE ~PreflightAccepts(request)
  <2>1. phase' = "rejected" BY <1>3 DEF Preflight
  <2> QED BY <1>1, <2>1 DEF IInv, FreshOK
<1> QED BY <1>2, <1>3

LEMMA BeginIterationKeeps == ASSUME IInv, BeginIteration PROVE IInv'
<1> DEFINE dom == Dominators(Edges(program.plan, TRUE), program.entry)
<1>1. /\ phase = "accepted" /\ UNCHANGED <<request, phase, program>>
      /\ pc' = program.entry
  BY DEF BeginIteration
<1>2. ProgramSound(program) /\ ProgramBounded(program) BY <1>1 DEF IInv
<1>3. program.entry \in DOMAIN program.plan /\ dom[program.entry] = {program.entry}
  BY <1>2, SoundIsGraph, Dominance
<1>4. BoundOK'
  <2>1. /\ loops' = [l \in OfKind(program.plan, "loop") |-> 0] /\ transitions' = 0
        /\ ended' = None
    BY DEF BeginIteration
  <2>2. InBound(program', loops', pc', transitions') BY <1>1, <1>2, <2>1, BeginInBound
  <2> QED BY <2>1, <2>2, BoundOKIs DEF None
<1> QED BY <1>1, <1>2, <1>3, <1>4 DEF IInv, FreshOK

LEMMA StepKeeps == ASSUME IInv, FailRequest \/ Respond \/ Delay \/ CheckAssertion PROVE IInv'
<1>1. pc # None /\ program.plan[pc].kind = "step"
      /\ UNCHANGED <<request, phase, program>> /\ UNCHANGED loops
  BY DEF FailRequest, Respond, Delay, CheckAssertion, RunningStep, Running
<1>2. Following \in Successors(program.plan[pc], TRUE) BY <1>1 DEF Following, Successors
<1>5. Advance(Following) => BoundOK' BY <1>1, <1>2, GoesOnInBound
<1>3. CASE FailRequest \/ Respond
  <2>1. Advance(Following) /\ fresh' = fresh \cup Attached(pc)
    BY <1>3 DEF FailRequest, Respond
  <2> QED BY <1>1, <1>2, <1>5, <2>1, AdvanceKeeps
<1>4. CASE Delay \/ CheckAssertion
  <2>1. ~RunningStep("request") /\ fresh' = fresh
    BY <1>4 DEF Delay, CheckAssertion, RunningStep, history
  <2>2. Advance(Following) \/ End("stopped") BY <1>4 DEF Delay, CheckAssertion
  <2>3. CASE Advance(Following) BY <1>1, <1>2, <1>5, <2>1, <2>3, AdvanceKeeps
  <2>4. CASE End("stopped") BY <1>1, <2>4, EndKeeps DEF End, IInv, FreshOK
  <2> QED BY <2>2, <2>3, <2>4
<1> QED BY <1>3, <1>4

LEMMA CancelKeeps == ASSUME IInv, Cancel PROVE IInv'
<1>1. pc # None /\ pc' = None /\ ended' # "cut" /\ phase' = "canceled" /\ UNCHANGED <<request, program>>
  BY DEF Cancel, End, RunningStep, Running
<1> QED BY <1>1, EndKeeps DEF IInv, FreshOK

LEMMA ControlKeeps == ASSUME IInv, Branch \/ Join \/ Loop PROVE IInv'
<1>1. /\ pc # None /\ program.plan[pc].kind \in {"branch", "join", "loop"}
      /\ UNCHANGED <<request, phase, program>> /\ fresh' = fresh
  BY DEF Branch, Join, Loop, Running, history
<1>2. ~RunningStep("request") BY <1>1 DEF RunningStep, Running
<1>3. CASE Branch
  <2>1. PICK i \in DOMAIN program.plan[pc].routes : Advance(program.plan[pc].routes[i].target)
    BY <1>3 DEF Branch
  <2>2. program.plan[pc].routes[i].target \in Successors(program.plan[pc], TRUE)
    BY <1>3 DEF Branch, Running, Successors, RouteTargets
  <2>3. program.plan[pc].kind # "loop" /\ UNCHANGED <<program, loops>>
    BY <1>3 DEF Branch, Running
  <2>4. BoundOK' BY <1>1, <2>1, <2>2, <2>3, GoesOnInBound
  <2> QED BY <1>1, <1>2, <2>1, <2>2, <2>4, AdvanceKeeps
<1>4. CASE Join
  <2>1. Following \in Successors(program.plan[pc], TRUE)
    BY <1>4 DEF Join, Running, Following, Successors
  <2>2. Advance(Following) \/ End("lost") BY <1>4 DEF Join
  <2>3. CASE Advance(Following)
    <3>1. program.plan[pc].kind # "loop" /\ UNCHANGED <<program, loops>>
      BY <1>4 DEF Join, Running
    <3>2. BoundOK' BY <1>1, <2>1, <2>3, <3>1, GoesOnInBound
    <3> QED BY <1>1, <1>2, <2>1, <2>3, <3>2, AdvanceKeeps
  <2>4. CASE End("lost") BY <1>1, <2>4, EndKeeps DEF End, IInv, FreshOK
  <2> QED BY <2>2, <2>3, <2>4
<1>5. CASE Loop
  <2>1. PICK next \in {program.plan[pc].body, program.plan[pc].exit} : Advance(next)
    BY <1>5 DEF Loop
  <2>2. next \in Successors(program.plan[pc], TRUE)
    BY <1>5, <2>1 DEF Loop, Running, Successors
  <2> QED BY <1>1, <1>2, <1>5, <2>1, <2>2, LoopInBound, AdvanceKeeps
<1> QED BY <1>3, <1>4, <1>5

\* Whatever is requested, the program that is compiled is sound and bounded, each
\* step finds the assertions of the requests that dominate it evaluated, and the
\* steps and rounds left to it are within the bound.
THEOREM ScenarioInvariant == Spec => []IInv
<1>1. IInv /\ [Next]_vars => IInv'
  <2> SUFFICES ASSUME IInv, [Next]_vars PROVE IInv' OBVIOUS
  <2>1. CASE Next
    BY <2>1, PreflightKeeps, BeginIterationKeeps, StepKeeps, CancelKeeps, ControlKeeps DEF Next
  <2>2. CASE UNCHANGED vars
    BY <2>2 DEF vars, iteration, history, IInv, FreshOK, BoundOK
  <2> QED BY <2>1, <2>2
<1> QED BY <1>1, InitIInv, PTL DEF Spec

\* An assertion is counted by a result of the iteration that counts it: its
\* request ran before it on the path taken (attachPlannedAssertions).
THEOREM CountsAreFresh == Spec => []AssertionsAreFresh
<1>1. IInv => AssertionsAreFresh
  <2> SUFFICES ASSUME IInv, RunningStep("assert") PROVE pc \in fresh
    BY DEF AssertionsAreFresh
  <2>1. /\ pc # None /\ program.plan[pc].kind = "step" /\ program.step[pc].kind = "assert"
    BY DEF RunningStep, Running
  <2>2. pc \in DOMAIN program.plan /\ ProgramSound(program) BY <2>1 DEF IInv, FreshOK
  <2>3. pc \in DOMAIN program.request BY <2>1, <2>2 DEF ProgramSound
  <2>4. program.request[pc] \in Dominators(Edges(program.plan, TRUE), program.entry)[pc] \ {pc}
    BY <2>2, <2>3 DEF ProgramSound
  <2> QED BY <2>1, <2>3, <2>4 DEF IInv, FreshOK
<1> QED BY <1>1, ScenarioInvariant, PTL

\* No iteration is cut short: the steps, and the rounds of loops, that an accepted
\* plan can still take are counted by the bound of compileExecutionPlan, whatever
\* the routes taken (maxTransitions in execution_runtime.go).
THEOREM BoundSuffices == Spec => []BoundIsEnough
<1>1. IInv => BoundIsEnough BY DEF IInv, BoundOK, BoundIsEnough
<1> QED BY <1>1, ScenarioInvariant, PTL

-----------------------------------------------------------------------------
(* ShardConfigs. A share is a quotient and perhaps one more, and what has to *)
(* be shown of it is that every check of the load passes on it.              *)

LEMMA CountTo ==
  ASSUME NEW n \in Nat
  PROVE  IsFiniteSet(1 .. n) /\ Cardinality(1 .. n) = n
<1>1. n \in Int /\ (1 > n => n = 0) /\ n - 1 + 1 = n OBVIOUS
<1>2. IsFiniteSet(1 .. n) /\ Cardinality(1 .. n) = IF 1 > n THEN 0 ELSE n - 1 + 1
  BY <1>1, FS_Interval
<1> QED BY <1>1, <1>2

\* The quotient and the remainder, and who gets one more.
LEMMA SplitIs ==
  ASSUME NEW total \in Nat, NEW count \in Nat \ {0}
  PROVE  \E q \in Nat, r \in 0 .. count - 1 :
           /\ count * q + r = total
           /\ \A i \in Int : SplitInteger(total, i, count) = q + (IF i < r THEN 1 ELSE 0)
<1> DEFINE q == total \div count
           r == total % count
<1>1. /\ q \in Int /\ r \in 0 .. count - 1 /\ count * q + r = total OBVIOUS
<1>2. \A i \in Int : SplitInteger(total, i, count) = q + (IF i < r THEN 1 ELSE 0)
  BY DEF SplitInteger
<1> HIDE DEF q, r
<1>3. q \in Nat
  <2> SUFFICES ASSUME q < 0 PROVE FALSE BY <1>1
  <2>1. count * q <= -count
    <3>1. q + 1 <= 0 BY <1>1
    <3>2. count * (q + 1) <= 0 BY <1>1, <3>1
    <3>3. count * (q + 1) = count * q + count BY <1>1
    <3> QED BY <1>1, <3>2, <3>3
  <2> QED BY <1>1, <2>1
<1> QED BY <1>1, <1>2, <1>3

\* A share is a part of the whole, and of at least one unit where there are as
\* many units as shares; a larger whole has no smaller shares.
LEMMA ShareIs ==
  ASSUME NEW total \in Nat, NEW count \in Nat \ {0}, NEW i \in 0 .. count - 1
  PROVE  /\ SplitInteger(total, i, count) \in Nat
         /\ SplitInteger(total, i, count) <= total
         /\ total >= count => SplitInteger(total, i, count) >= 1
<1>1. PICK q \in Nat, r \in 0 .. count - 1 :
        /\ count * q + r = total
        /\ \A j \in Int : SplitInteger(total, j, count) = q + (IF j < r THEN 1 ELSE 0)
  BY SplitIs
<1> DEFINE s == SplitInteger(total, i, count)
<1>2. s = q + (IF i < r THEN 1 ELSE 0) BY <1>1
<1> HIDE DEF s
<1>3. s \in Nat /\ q <= s /\ s <= q + 1 /\ (i < r => r >= 1) BY <1>2
<1>4. count * q >= q
  <2>1. (count - 1) * q >= 0 OBVIOUS
  <2>2. (count - 1) * q = count * q - q OBVIOUS
  <2> QED BY <2>1, <2>2
<1>5. s <= total BY <1>1, <1>2, <1>3, <1>4
<1>6. ASSUME total >= count PROVE q >= 1
  <2> SUFFICES ASSUME q = 0 PROVE FALSE OBVIOUS
  <2>1. count * q = 0 OBVIOUS
  <2> QED BY <1>1, <1>6, <2>1
<1> QED BY <1>3, <1>5, <1>6 DEF s

LEMMA SharesGrow ==
  ASSUME NEW a \in Nat, NEW b \in Nat, a <= b, NEW count \in Nat \ {0}, NEW i \in 0 .. count - 1
  PROVE  SplitInteger(a, i, count) <= SplitInteger(b, i, count)
<1>1. PICK q \in Nat, r \in 0 .. count - 1 :
        /\ count * q + r = a
        /\ \A j \in Int : SplitInteger(a, j, count) = q + (IF j < r THEN 1 ELSE 0)
  BY SplitIs
<1>2. PICK p \in Nat, s \in 0 .. count - 1 :
        /\ count * p + s = b
        /\ \A j \in Int : SplitInteger(b, j, count) = p + (IF j < s THEN 1 ELSE 0)
  BY SplitIs
<1>3. /\ SplitInteger(a, i, count) = q + (IF i < r THEN 1 ELSE 0)
      /\ SplitInteger(b, i, count) = p + (IF i < s THEN 1 ELSE 0)
  BY <1>1, <1>2
<1>4. q <= p
  <2> SUFFICES ASSUME q >= p + 1 PROVE FALSE OBVIOUS
  <2>1. count * (p + 1) <= count * q BY Products
  <2>2. count * (p + 1) = count * p + count OBVIOUS
  <2>3. count * p \in Nat /\ count * q \in Nat OBVIOUS
  <2> QED BY <1>1, <1>2, <2>1, <2>2, <2>3
<1>5. CASE q = p
  <2>1. count * p \in Nat OBVIOUS
  <2>2. r <= s BY <1>1, <1>2, <1>5, <2>1
  <2> QED BY <1>3, <1>5, <2>2
<1>6. CASE q + 1 <= p BY <1>3, <1>6
<1> QED BY <1>4, <1>5, <1>6

\* The recursion of FoldFunction.
LEMMA FoldIs ==
  ASSUME NEW S, IsFiniteSet(S), NEW f, DOMAIN f = S
  PROVE  \E h : SumsOn(SUBSET S, h, f) /\ FoldFunction(+, 0, f) = h[S]
<1> DEFINE Adds(h) == h = [s \in SUBSET S |->
                            IF s = {} THEN 0 ELSE f[First(s)] + h[s \ {First(s)}]]
<1>1. PICK h : SumsOn(SUBSET S, h, f) BY SumsExist
<1>2. \A k : Adds(k) <=> SumsOn(SUBSET S, k, f) BY DEF SumsOn
<1>3. FoldFunction(+, 0, f) = (CHOOSE k : Adds(k))[S]
  BY DEF FoldFunction, FoldFunctionOnSet, MapThenFoldSet, First
<1>4. Adds(CHOOSE k : Adds(k)) BY <1>1, <1>2
<1> QED BY <1>2, <1>3, <1>4

\* The shares add up to the whole.
LEMMA SharesAddUp ==
  ASSUME NEW total \in Nat, NEW count \in Nat \ {0},
         NEW f, f = [i \in 1 .. count |-> SplitInteger(total, i - 1, count)]
  PROVE  FoldFunction(+, 0, f) = total
<1> DEFINE S == 1 .. count
<1>1. PICK q \in Nat, r \in 0 .. count - 1 :
        /\ count * q + r = total
        /\ \A j \in Int : SplitInteger(total, j, count) = q + (IF j < r THEN 1 ELSE 0)
  BY SplitIs
<1>2. \A i \in S : f[i] = q + Cardinality({i} \cap (1 .. r))
  <2> SUFFICES ASSUME NEW i \in S PROVE f[i] = q + Cardinality({i} \cap (1 .. r)) OBVIOUS
  <2>1. f[i] = q + (IF i - 1 < r THEN 1 ELSE 0) BY <1>1
  <2>2. CASE i \in 1 .. r
    <3>1. {i} \cap (1 .. r) = {i} BY <2>2
    <3>2. Cardinality({i} \cap (1 .. r)) = 1 BY <3>1, FS_Singleton
    <3>3. i - 1 < r BY <2>2
    <3>4. f[i] = q + 1 BY <2>1, <3>3
    <3> QED BY <3>2, <3>4
  <2>3. CASE i \notin 1 .. r
    <3>1. {i} \cap (1 .. r) = {} BY <2>3
    <3>2. Cardinality({i} \cap (1 .. r)) = 0 BY <3>1, FS_EmptySet
    <3>3. ~(i - 1 < r) BY <2>3
    <3>4. f[i] = q + 0 BY <2>1, <3>3
    <3> QED BY <3>2, <3>4
  <2> QED BY <2>2, <2>3
<1>3. IsFiniteSet(S) /\ Cardinality(S) = count /\ IsFiniteSet(1 .. r) /\ Cardinality(1 .. r) = r
  BY CountTo
<1>4. PICK h : SumsOn(SUBSET S, h, f) /\ FoldFunction(+, 0, f) = h[S] BY <1>3, FoldIs
<1>5. \A s \in SUBSET S : h[s] = IF s = {} THEN 0 ELSE f[First(s)] + h[s \ {First(s)}]
  BY <1>4 DEF SumsOn
<1> HIDE DEF S
<1> DEFINE G == {s \in SUBSET S : h[s] = q * Cardinality(s) + Cardinality(s \cap (1 .. r))}
<1>6. {} \in G
  <2>1. h[{}] = 0 BY <1>5
  <2>2. Cardinality({}) = 0 /\ {} \cap (1 .. r) = {} BY FS_EmptySet
  <2>3. q * 0 = 0 OBVIOUS
  <2> QED BY <2>1, <2>2, <2>3
<1>7. ASSUME NEW s \in SUBSET S, s # {}, \A y \in s : s \ {y} \in G PROVE s \in G
  <2> DEFINE x == First(s)
             t == s \ {x}
             low(z) == z \cap (1 .. r)
  <2>1. x \in s BY <1>7, FirstIsIn
  <2>2. h[s] = f[x] + h[t] BY <1>5, <1>7
  <2> HIDE DEF x
  <2>3. h[t] = q * Cardinality(t) + Cardinality(low(t)) BY <1>7, <2>1
  <2>4. IsFiniteSet(s) /\ Cardinality(s) \in Nat BY <1>3, FS_Subset, FS_CardinalityType
  <2>5. Cardinality(t) = Cardinality(s) - 1 BY <2>1, <2>4, FS_RemoveElement
  <2>6. f[x] = q + Cardinality(low({x})) BY <1>2, <2>1
  <2>7. Cardinality(low(s)) = Cardinality(low(t)) + Cardinality(low({x}))
    <3>1. low(s) = low(t) \cup low({x}) /\ low(t) \cap low({x}) = {} BY <2>1
    <3>2. low(t) \subseteq s /\ low({x}) \subseteq s BY <2>1
    <3> DEFINE P == low(t)
               Q == low({x})
    <3>3. IsFiniteSet(P) /\ IsFiniteSet(Q) BY <2>4, <3>2, FS_Subset
    <3> HIDE DEF P, Q
    <3>4. Cardinality(P \cup Q) = Cardinality(P) + Cardinality(Q) - Cardinality(P \cap Q)
      BY <3>3, FS_Union
    <3>5. Cardinality(P \cap Q) = 0
      <4>1. P \cap Q = {} BY <3>1 DEF P, Q
      <4> QED BY <4>1, FS_EmptySet
    <3>6. Cardinality(P) \in Nat /\ Cardinality(Q) \in Nat BY <3>3, FS_CardinalityType
    <3>8. Cardinality(P \cup Q) = Cardinality(P) + Cardinality(Q)
      BY ONLY <3>4, <3>5, <3>6
    <3> QED BY <3>1, <3>8 DEF P, Q
  <2>8. q * (Cardinality(s) - 1) = q * Cardinality(s) - q BY <2>4
  <2>9. Cardinality(low(t)) \in Nat /\ Cardinality(low({x})) \in Nat
    <3>1. low(t) \subseteq s /\ low({x}) \subseteq s BY <2>1
    <3>2. IsFiniteSet(low(t)) /\ IsFiniteSet(low({x})) BY <2>4, <3>1, FS_Subset
    <3> QED BY <3>2, FS_CardinalityType
  <2>10. q * Cardinality(s) \in Int BY <2>4
  <2> HIDE DEF t, low
  <2>11. h[s] = q * Cardinality(s) + Cardinality(low(s))
    BY <2>2, <2>3, <2>5, <2>6, <2>7, <2>8, <2>9, <2>10
  <2> QED BY <2>11 DEF low
<1>8. \A s \in SUBSET S : s \in G
  <2> HIDE DEF G
  <2> QED BY <1>3, <1>6, <1>7, SubsetInduction
<1>9. h[S] = q * Cardinality(S) + Cardinality(S \cap (1 .. r)) BY <1>8
<1>10. S \cap (1 .. r) = 1 .. r BY DEF S
<1>11. q * count = count * q OBVIOUS
<1> QED BY <1>1, <1>3, <1>4, <1>9, <1>10, <1>11

LEMMA LeastIs ==
  ASSUME NEW S \in SUBSET Nat, S # {}
  PROVE  Least(S) \in S /\ \A n \in S : Least(S) <= n
<1>1. \E m \in S : \A n \in S : m <= n BY LeastNumber
<1> QED BY <1>1 DEF Least

LEMMA GreatestIs ==
  ASSUME NEW S \in SUBSET Nat, S # {}, NEW bound \in Nat, \A n \in S : n <= bound
  PROVE  Greatest(S) \in S /\ \A n \in S : n <= Greatest(S)
<1> DEFINE A == {bound - n : n \in S}
<1>1. A \in SUBSET Nat /\ A # {}
  <2>1. \A n \in S : bound - n \in Nat OBVIOUS
  <2> QED BY <2>1
<1>2. PICK a \in A : \A b \in A : a <= b
  <2> HIDE DEF A
  <2> QED BY <1>1, LeastNumber
<1>3. PICK m \in S : a = bound - m OBVIOUS
<1>4. \A n \in S : n <= m
  <2> SUFFICES ASSUME NEW n \in S PROVE n <= m OBVIOUS
  <2>1. bound - n \in A OBVIOUS
  <2>2. bound - m <= bound - n BY <1>2, <1>3, <2>1
  <2>3. n \in Nat /\ m \in Nat OBVIOUS
  <2> QED BY ONLY <2>2, <2>3, bound \in Nat
<1>5. \E x \in S : \A n \in S : n <= x BY <1>4
<1> QED BY <1>5 DEF Greatest

\* The recursion of TotalDuration.
Through(stages, f) ==
  f = [i \in 0 .. Len(stages) |-> IF i = 0 THEN 0 ELSE f[i - 1] + stages[i].duration]

LEMMA ThroughExists ==
  ASSUME NEW stages, Len(stages) \in Nat
  PROVE  \E f : Through(stages, f)
<1> DEFINE N == Len(stages)
           On(n, f) == f = [i \in 0 .. n |-> IF i = 0 THEN 0 ELSE f[i - 1] + stages[i].duration]
           Sizes == {n \in 0 .. N : \E f : On(n, f)}
<1>1. 0 \in Sizes
  <2>1. On(0, [i \in 0 .. 0 |-> 0]) OBVIOUS
  <2>2. 0 \in 0 .. N OBVIOUS
  <2> HIDE DEF On
  <2> QED BY <2>1, <2>2
<1>2. ASSUME NEW n \in 0 .. N - 1, n \in Sizes PROVE n + 1 \in Sizes
  <2>1. PICK f : On(n, f) BY <1>2
  <2> DEFINE g == [i \in 0 .. n + 1 |-> IF i = 0 THEN 0 ELSE f[i - 1] + stages[i].duration]
  <2>2. n \in Nat /\ n + 1 \in 0 .. N OBVIOUS
  <2>3. \A i \in 0 .. n : g[i] = f[i] BY <2>1
  <2>4. \A i \in 0 .. n + 1 : i # 0 => i - 1 \in 0 .. n BY <2>2
  <2>5. \A i \in 0 .. n + 1 : i # 0 => g[i - 1] = f[i - 1]
    <3> HIDE DEF g
    <3> QED BY <2>3, <2>4
  <2>6. On(n + 1, g) BY <2>5
  <2> HIDE DEF g, On
  <2> QED BY <2>2, <2>6
<1>3. \A n \in 0 .. N : n \in Sizes
  <2> HIDE DEF Sizes
  <2> QED BY <1>1, <1>2, Climb
<1>4. N \in Sizes
  <2>1. N \in 0 .. N OBVIOUS
  <2> HIDE DEF Sizes
  <2> QED BY <1>3, <2>1
<1>5. \E f : On(N, f) BY <1>4
<1>6. \A f : On(N, f) <=> Through(stages, f) BY DEF Through
<1> HIDE DEF On
<1> QED BY <1>5, <1>6

LEMMA TotalDurationIs ==
  ASSUME NEW stages, Len(stages) \in Nat
  PROVE  \E f : Through(stages, f) /\ TotalDuration(stages) = f[Len(stages)]
<1> DEFINE f == CHOOSE g : Through(stages, g)
<1>1. Through(stages, f) BY ThroughExists
<1>2. TotalDuration(stages) = f[Len(stages)] BY DEF TotalDuration, Through
<1> QED BY <1>1, <1>2

\* Stages that last as long as others, one by one, last as long together.
LEMMA SameDuration ==
  ASSUME NEW s, NEW t, Len(s) \in Nat, Len(t) = Len(s),
         \A i \in 1 .. Len(s) : t[i].duration = s[i].duration
  PROVE  TotalDuration(t) = TotalDuration(s)
<1>1. PICK f : Through(s, f) /\ TotalDuration(s) = f[Len(s)] BY TotalDurationIs
<1>2. PICK g : Through(t, g) /\ TotalDuration(t) = g[Len(s)] BY TotalDurationIs
<1> DEFINE N == Len(s)
           Same == {i \in 0 .. N : f[i] = g[i]}
<1>3. /\ \A i \in 0 .. N : f[i] = IF i = 0 THEN 0 ELSE f[i - 1] + s[i].duration
      /\ \A i \in 0 .. N : g[i] = IF i = 0 THEN 0 ELSE g[i - 1] + t[i].duration
  BY <1>1, <1>2 DEF Through
<1>4. 0 \in Same BY <1>3
<1>5. ASSUME NEW i \in 0 .. N - 1, i \in Same PROVE i + 1 \in Same
  <2>1. i + 1 \in 0 .. N /\ i + 1 # 0 /\ (i + 1) - 1 = i /\ i + 1 \in 1 .. N OBVIOUS
  <2>2. f[i + 1] = f[i] + s[i + 1].duration /\ g[i + 1] = g[i] + t[i + 1].duration
    BY <1>3, <2>1
  <2> QED BY <1>5, <2>1, <2>2
<1>6. \A i \in 0 .. N : i \in Same
  <2> HIDE DEF Same
  <2> QED BY <1>4, <1>5, Climb
<1>7. N \in 0 .. N OBVIOUS
<1> QED BY <1>1, <1>2, <1>6, <1>7

\* The shares of a profile.
LEMMA ShardProfileIs ==
  ASSUME NEW p \in ProfileRecord, NEW i, NEW n, NEW s, s = ShardProfile(p, i, n)
  PROVE  /\ s.mode = p.mode /\ s.graceful = p.graceful
         /\ s.start = SplitInteger(p.start, i, n)
         /\ DOMAIN s.stages = DOMAIN p.stages /\ Len(s.stages) = Len(p.stages)
         /\ \A j \in DOMAIN p.stages :
              /\ s.stages[j].duration = p.stages[j].duration
              /\ s.stages[j].target = SplitInteger(p.stages[j].target, i, n)
         /\ p.mode \in ArrivalModes =>
              s.pre = SplitInteger(p.pre, i, n) /\ s.max = SplitInteger(p.max, i, n)
<1> DEFINE stages == [j \in DOMAIN p.stages |->
                       [p.stages[j] EXCEPT !.target = SplitInteger(@, i, n)]]
<1>1. /\ p = [f \in DOMAIN p |-> p[f]]
      /\ {"mode", "start", "stages", "pre", "max", "graceful"} \subseteq DOMAIN p
  BY DEF ProfileRecord
<1>2. /\ s.mode = p.mode /\ s.graceful = p.graceful
      /\ s.start = SplitInteger(p.start, i, n) /\ s.stages = stages
      /\ s.pre = IF p.mode \in ArrivalModes THEN SplitInteger(p.pre, i, n) ELSE p.pre
      /\ s.max = IF p.mode \in ArrivalModes THEN SplitInteger(p.max, i, n) ELSE p.max
  <2>1. s.mode = p.mode /\ s.graceful = p.graceful BY <1>1, Zenon DEF ShardProfile
  <2>2. s.start = SplitInteger(p.start, i, n) BY <1>1, Zenon DEF ShardProfile
  <2>3. s.stages = stages BY <1>1, Zenon DEF ShardProfile
  <2>4. s.pre = IF p.mode \in ArrivalModes THEN SplitInteger(p.pre, i, n) ELSE p.pre
    BY <1>1, Zenon DEF ShardProfile
  <2>5. s.max = IF p.mode \in ArrivalModes THEN SplitInteger(p.max, i, n) ELSE p.max
    BY <1>1, Zenon DEF ShardProfile
  <2> QED BY <2>1, <2>2, <2>3, <2>4, <2>5
<1>3. IsSequence(p.stages) /\ \A j \in DOMAIN p.stages : p.stages[j] \in StageRecord
  BY SequencesAre DEF ProfileRecord
<1>4. Len(stages) = Len(p.stages) BY <1>3, MappedIsSequence
<1>5. DOMAIN stages = DOMAIN p.stages OBVIOUS
<1>6. \A j \in DOMAIN p.stages :
        /\ stages[j].duration = p.stages[j].duration
        /\ stages[j].target = SplitInteger(p.stages[j].target, i, n)
  BY <1>3 DEF StageRecord
<1> HIDE DEF stages
<1> QED BY <1>2, <1>4, <1>5, <1>6

Fields == {"users", "conns", "timeout", "duration", "ramp", "sample", "rate", "profile", "url",
           "method", "headers", "uses", "steps", "plan", "bindings"}
IsRequest(c) == c = [f \in DOMAIN c |-> c[f]] /\ Fields \subseteq DOMAIN c

\* What runs, the load left aside.
SameScenario(d, c) ==
  /\ d.url = c.url /\ d.method = c.method /\ d.headers = c.headers /\ d.uses = c.uses
  /\ d.steps = c.steps /\ d.plan = c.plan /\ d.bindings = c.bindings

LEMMA EngineAcceptsLoad ==
  ASSUME NEW c, NEW d, EngineAccepts(c), SameScenario(d, c), ValidLoad(d)
  PROVE  EngineAccepts(d)
<1>1. StepsToRun(d) = StepsToRun(c) BY DEF StepsToRun, OwnRequest, SameScenario
<1>2. d.url = c.url /\ d.bindings = c.bindings /\ d.plan = c.plan BY DEF SameScenario
<1> QED BY <1>1, <1>2 DEF EngineAccepts

\* The targets of a profile that is accepted, and the highest.
LEMMA PeakIs ==
  ASSUME NEW p \in ProfileRecord, NEW rate, ValidProfile(p, rate)
  PROVE  /\ Targets(p) \in SUBSET Nat /\ Peak(p) \in Targets(p)
         /\ \A t \in Targets(p) : t <= Peak(p)
         /\ Peak(p) >= 1 /\ p.start \in Targets(p)
         /\ \A i \in DOMAIN p.stages : p.stages[i].target \in Targets(p)
<1>1. /\ p.start \in Int /\ p.start \in Targets(p)
      /\ \A i \in DOMAIN p.stages : p.stages[i].target \in Targets(p) /\ p.stages[i] \in StageRecord
  BY DEF ProfileRecord, Targets
<1>2. Targets(p) \subseteq Int
  <2>1. \A i \in DOMAIN p.stages : p.stages[i].target \in Int BY <1>1 DEF StageRecord
  <2> QED BY <1>1, <2>1 DEF Targets
<1>3. Targets(p) \in SUBSET Nat /\ Targets(p) # {} BY <1>1, <1>2 DEF ValidProfile
<1>4. \A t \in Targets(p) : t <= MaxRateLimitRPS
  <2>1. CASE p.mode \in ArrivalModes BY <2>1 DEF ValidProfile
  <2>2. CASE p.mode \notin ArrivalModes
    <3>1. \A t \in Targets(p) : t <= MaxLoadProfileVirtualUsers BY <2>2 DEF ValidProfile
    <3> QED BY <1>3, <3>1 DEF MaxLoadProfileVirtualUsers, MaxRateLimitRPS
  <2> QED BY <2>1, <2>2
<1>5. MaxRateLimitRPS \in Nat BY DEF MaxRateLimitRPS
<1>6. Peak(p) \in Targets(p) /\ \A t \in Targets(p) : t <= Peak(p)
  BY <1>3, <1>4, <1>5, GreatestIs DEF Peak
<1>7. Peak(p) >= 1
  <2>1. PICK t \in Targets(p) : t > 0 BY DEF ValidProfile
  <2>2. t \in Nat /\ Peak(p) \in Nat /\ t <= Peak(p) BY <1>3, <1>6
  <2> QED BY <2>1, <2>2
<1> QED BY <1>1, <1>3, <1>6, <1>7

\* An accepted request as the engine gets it: defaults filled in.
Ready(c) ==
  /\ IsRequest(c) /\ EngineAccepts(c)
  /\ c.users \in Nat \ {0} /\ c.conns \in Nat \ {0} /\ c.timeout \in Nat \ {0}
  /\ c.rate \in Nat /\ c.duration = Duration(c) /\ c.users = MaxWorkers(c)
  /\ HasProfile(c) => c.profile \in ProfileRecord /\ c.profile.graceful \in Nat \ {0}

LEMMA NormalFields ==
  ASSUME NEW r \in RequestRecord, NEW c, c = NormalConfig(r), NEW p, p = r.profile
  PROVE  /\ IsRequest(c)
         /\ c.profile = IF p = NoProfile THEN p ELSE NormalProfile(p, r.timeout)
         /\ c.users = IF p = NoProfile THEN r.users
                      ELSE IF p.mode \in ArrivalModes THEN p.max ELSE Peak(p)
         /\ c.duration = IF p = NoProfile THEN r.duration ELSE TotalDuration(p.stages)
         /\ c.ramp = IF p = NoProfile THEN r.ramp ELSE 0
         /\ c.conns = IfZero(r.conns, DefaultMaxConnsPerHost)
         /\ c.sample = IfZero(r.sample, DefaultLatencySampleRate)
         /\ c.rate = r.rate /\ c.timeout = r.timeout
         /\ c.users = NormalLoad(r).users /\ c.duration = NormalLoad(r).duration
<1>1. r = [f \in DOMAIN r |-> r[f]] /\ DOMAIN r = Fields BY DEF RequestRecord, Fields
<1> DEFINE l == NormalLoad(r)
<1>2. DOMAIN l = DOMAIN r /\ l = [f \in DOMAIN l |-> l[f]]
  BY <1>1, Zenon DEF NormalLoad
<1>3. c = [l EXCEPT !.method = Method(r), !.steps = NormalSteps(l.steps, Method(r))]
  BY DEF NormalConfig
<1>4. {"users", "conns", "timeout", "duration", "ramp", "sample", "rate", "profile"} \subseteq DOMAIN r
  BY <1>1 DEF Fields
<1>5. l.profile = IF p = NoProfile THEN p ELSE NormalProfile(p, r.timeout)
  BY <1>1, <1>4, Zenon DEF NormalLoad
<1>6. l.users = IF p = NoProfile THEN r.users
                ELSE IF p.mode \in ArrivalModes THEN p.max ELSE Peak(p)
  BY <1>1, <1>4, Zenon DEF NormalLoad
<1>7. l.duration = IF p = NoProfile THEN r.duration ELSE TotalDuration(p.stages)
  BY <1>1, <1>4, Zenon DEF NormalLoad
<1>8. l.ramp = IF p = NoProfile THEN r.ramp ELSE 0 BY <1>1, <1>4, Zenon DEF NormalLoad
<1>9. l.conns = IfZero(r.conns, DefaultMaxConnsPerHost) BY <1>1, <1>4, Zenon DEF NormalLoad
<1>10. l.sample = IfZero(r.sample, DefaultLatencySampleRate) BY <1>1, <1>4, Zenon DEF NormalLoad
<1>11. l.rate = r.rate /\ l.timeout = r.timeout BY <1>1, <1>4, Zenon DEF NormalLoad
<1> HIDE DEF l
<1>12. /\ c.profile = l.profile /\ c.users = l.users /\ c.duration = l.duration /\ c.ramp = l.ramp
       /\ c.conns = l.conns /\ c.sample = l.sample /\ c.rate = l.rate /\ c.timeout = l.timeout
       /\ DOMAIN c = DOMAIN l /\ c = [f \in DOMAIN c |-> c[f]]
  <2>1. /\ c.profile = l.profile /\ c.users = l.users /\ c.duration = l.duration
        /\ c.ramp = l.ramp
    BY <1>1, <1>2, <1>3, <1>4, Zenon
  <2>2. /\ c.conns = l.conns /\ c.sample = l.sample /\ c.rate = l.rate
        /\ c.timeout = l.timeout
    BY <1>1, <1>2, <1>3, <1>4, Zenon
  <2>3. DOMAIN c = DOMAIN l /\ c = [f \in DOMAIN c |-> c[f]] BY <1>2, <1>3, Zenon
  <2> QED BY <2>1, <2>2, <2>3
<1>13. IsRequest(c) BY <1>1, <1>2, <1>12 DEF IsRequest
<1>14. c.users = NormalLoad(r).users /\ c.duration = NormalLoad(r).duration
  BY <1>12 DEF l
<1> QED BY <1>5, <1>6, <1>7, <1>8, <1>9, <1>10, <1>11, <1>12, <1>13, <1>14

\* A profile with the defaults filled in.
IsNormal(s, p, timeout) ==
  /\ s \in ProfileRecord /\ s.mode = p.mode /\ s.start = p.start /\ s.stages = p.stages
  /\ s.graceful = IfZero(p.graceful, timeout)
  /\ p.mode \in ArrivalModes => s.max = p.max

LEMMA NormalProfileIs ==
  ASSUME NEW p \in ProfileRecord, NEW timeout \in Int
  PROVE  IsNormal(NormalProfile(p, timeout), p, timeout)
<1> DEFINE s == NormalProfile(p, timeout)
<1>1. /\ p = [f \in DOMAIN p |-> p[f]] /\ p.graceful \in Int /\ p.pre \in Int /\ p.max \in Int
      /\ DOMAIN p = {"mode", "start", "stages", "pre", "max", "graceful"}
  BY DEF ProfileRecord
<1> DEFINE graceful == IfZero(p.graceful, timeout)
           pre == IF p.mode \in ArrivalModes THEN p.pre ELSE 0
           max == IF p.mode \in ArrivalModes THEN p.max ELSE 0
<1>2. s = [p EXCEPT !.graceful = graceful, !.pre = pre, !.max = max] BY DEF NormalProfile
<1> HIDE DEF s
<1>3. graceful \in Int /\ pre \in Int /\ max \in Int BY <1>1 DEF IfZero
<1>4. p.mode \in ArrivalModes => max = p.max OBVIOUS
<1> HIDE DEF graceful, pre, max
<1>5. s \in ProfileRecord BY <1>2, <1>3 DEF ProfileRecord
<1>6. /\ s.mode = p.mode /\ s.start = p.start /\ s.stages = p.stages
      /\ s.graceful = graceful /\ s.max = max
  BY <1>1, <1>2, Zenon
<1>7. IsNormal(s, p, timeout) BY <1>4, <1>5, <1>6 DEF graceful, IsNormal
<1> QED BY <1>7 DEF s

LEMMA AcceptedIsReady ==
  ASSUME NEW r \in RequestRecord, PreflightAccepts(r), NEW c, c = NormalConfig(r)
  PROVE  Ready(c)
<1> DEFINE p == r.profile
<1>1. LoadAccepted(r) /\ EngineAccepts(c) BY DEF PreflightAccepts
<1>2. /\ r.users \in Int /\ r.conns \in Int /\ r.timeout \in Int /\ r.duration \in Int
      /\ r.ramp \in Int /\ r.sample \in Int /\ r.rate \in Int /\ p \in ProfileRecord
  BY DEF RequestRecord
<1> HIDE DEF p
<1>3. /\ IsRequest(c)
      /\ c.profile = IF p = NoProfile THEN p ELSE NormalProfile(p, r.timeout)
      /\ c.users = IF p = NoProfile THEN r.users
                   ELSE IF p.mode \in ArrivalModes THEN p.max ELSE Peak(p)
      /\ c.duration = IF p = NoProfile THEN r.duration ELSE TotalDuration(p.stages)
      /\ c.ramp = IF p = NoProfile THEN r.ramp ELSE 0
      /\ c.conns = IfZero(r.conns, DefaultMaxConnsPerHost)
      /\ c.sample = IfZero(r.sample, DefaultLatencySampleRate)
      /\ c.rate = r.rate /\ c.timeout = r.timeout
      /\ c.users = NormalLoad(r).users /\ c.duration = NormalLoad(r).duration
  BY NormalFields DEF p
<1>4. /\ Within(r.timeout, 1, MaxRequestDelay) /\ Within(c.users, 1, MaxVirtualUsers)
      /\ Within(c.duration, 1, Hour) /\ WithinOrZero(r.conns, 1, 100000)
      /\ Within(r.rate, 0, MaxRateLimitRPS)
      /\ p # NoProfile => NormalProfileAccepted(p, r.timeout)
  BY <1>1, <1>3 DEF LoadAccepted, p
<1>5. /\ c.timeout \in Nat \ {0} /\ c.rate \in Nat /\ c.conns \in Nat \ {0}
  BY <1>2, <1>3, <1>4 DEF Within, WithinOrZero, IfZero, DefaultMaxConnsPerHost
<1>7. CASE p = NoProfile
  <2>1. c.profile.mode = "nil" /\ ~HasProfile(c) BY <1>3, <1>7 DEF NoProfile, HasProfile
  <2>2. c.users \in Nat \ {0} BY <1>2, <1>3, <1>4, <1>7 DEF Within
  <2>3. c.duration = Duration(c) /\ c.users = MaxWorkers(c)
    BY <2>1, <2>2 DEF Duration, MaxWorkers, IfZero
  <2> QED BY <1>1, <1>3, <1>5, <2>1, <2>2, <2>3 DEF Ready
<1>8. CASE p # NoProfile
  <2>1. /\ c.profile \in ProfileRecord /\ c.profile.mode = p.mode
        /\ c.profile.start = p.start /\ c.profile.stages = p.stages
        /\ c.profile.graceful = IfZero(p.graceful, r.timeout)
        /\ p.mode \in ArrivalModes => c.profile.max = p.max
    <3>1. c.profile = NormalProfile(p, r.timeout) BY <1>3, <1>8
    <3>2. IsNormal(c.profile, p, r.timeout) BY <1>2, <3>1, NormalProfileIs
    <3> QED BY <3>2 DEF IsNormal
  <2>2. HasProfile(c)
    <3>1. NormalProfileAccepted(p, r.timeout) BY <1>4, <1>8
    <3>2. p.mode \in Modes BY <3>1, Zenon DEF NormalProfileAccepted
    <3> QED BY <2>1, <3>2, Zenon DEF HasProfile, Modes, ArrivalModes, ConstantModes
  <2>3. Peak(c.profile) = Peak(p) BY <2>1 DEF Peak, Targets
  <2>4. c.duration = Duration(c) /\ c.users = MaxWorkers(c)
    BY <1>3, <1>8, <2>1, <2>2, <2>3 DEF Duration, MaxWorkers
  <2>5. c.profile.graceful \in Nat \ {0}
    <3>1. c.profile.graceful \in Int BY <2>1 DEF ProfileRecord
    <3> QED BY <1>4, <1>8, <2>1, <3>1 DEF NormalProfileAccepted, Within
  <2>6. ValidProfile(c.profile, c.rate) BY <1>1, <2>2 DEF EngineAccepts, ValidLoad
  <2>7. c.users \in Int
    <3>1. CASE p.mode \in ArrivalModes BY <1>2, <1>3, <1>8, <3>1 DEF ProfileRecord
    <3>2. CASE p.mode \notin ArrivalModes
      <4>1. Peak(c.profile) \in Nat BY <2>1, <2>6, PeakIs
      <4> QED BY <1>3, <1>8, <2>3, <3>2, <4>1
    <3> QED BY <3>1, <3>2
  <2>8. c.users \in Nat \ {0} BY <1>4, <2>7 DEF Within
  <2> QED BY <1>1, <1>3, <1>5, <2>1, <2>2, <2>4, <2>5, <2>8 DEF Ready
<1> QED BY <1>7, <1>8

\* As many workers as every limit can give one unit to.
EnoughFor(c, count) ==
  /\ count \in Nat \ {0} /\ count <= c.conns
  /\ c.rate > 0 => count <= c.rate
  /\ ~HasProfile(c) => count <= c.users
  /\ HasProfile(c) =>
       /\ count <= Peak(c.profile)
       /\ c.profile.mode \in ArrivalModes => count <= c.profile.pre /\ count <= c.profile.max

LEMMA ActiveIs ==
  ASSUME NEW c, Ready(c), NEW n \in Nat \ {0}, NEW count, count = ActiveWorkers(c, n)
  PROVE  EnoughFor(c, count) /\ count <= n
<1> DEFINE p == c.profile
           R == IF c.rate > 0 THEN {c.rate} ELSE {}
           P == IF ~HasProfile(c) THEN {IfZero(c.users, DefaultVirtualUsers)}
                ELSE {Peak(p)} \cup (IF p.mode \in ArrivalModes THEN {p.pre, p.max} ELSE {})
           S == {n, IfZero(c.conns, DefaultMaxConnsPerHost)} \cup R \cup P
<1>1. count = Least(S) BY DEF ActiveWorkers
<1>2. /\ c.users \in Nat \ {0} /\ c.conns \in Nat \ {0} /\ c.rate \in Nat
      /\ HasProfile(c) => p \in ProfileRecord /\ ValidProfile(p, c.rate)
  <2>1. ValidLoad(c) BY DEF Ready, EngineAccepts
  <2> QED BY <2>1 DEF Ready, ValidLoad
<1>3. IfZero(c.conns, DefaultMaxConnsPerHost) = c.conns
      /\ IfZero(c.users, DefaultVirtualUsers) = c.users
  BY <1>2 DEF IfZero
<1>4. HasProfile(c) => /\ Peak(p) \in Nat \ {0}
                       /\ p.mode \in ArrivalModes => p.pre \in Nat \ {0} /\ p.max \in Nat \ {0}
  <2> SUFFICES ASSUME HasProfile(c)
               PROVE  /\ Peak(p) \in Nat \ {0}
                      /\ p.mode \in ArrivalModes => p.pre \in Nat \ {0} /\ p.max \in Nat \ {0}
    OBVIOUS
  <2>1. p \in ProfileRecord /\ ValidProfile(p, c.rate) BY <1>2
  <2> HIDE DEF p
  <2>2. Targets(p) \in SUBSET Nat /\ Peak(p) \in Targets(p) /\ Peak(p) >= 1 BY <2>1, PeakIs
  <2>3. Peak(p) \in Nat \ {0} BY <2>2
  <2>4. p.mode \in ArrivalModes => ValidPool(p) BY <2>1, Zenon DEF ValidProfile
  <2>5. p.pre \in Int /\ p.max \in Int BY <2>1 DEF ProfileRecord
  <2>6. ASSUME p.mode \in ArrivalModes PROVE p.pre \in Nat \ {0} /\ p.max \in Nat \ {0}
    BY <2>4, <2>5, <2>6 DEF ValidPool
  <2> QED BY <2>3, <2>6
<1> HIDE DEF p
<1>5. R \subseteq Nat \ {0} /\ P \subseteq Nat \ {0} BY <1>2, <1>3, <1>4
<1>6. n \in S /\ c.conns \in S BY <1>3
<1>7. S \in SUBSET Nat /\ S # {} BY <1>2, <1>3, <1>5
<1>8. \A x \in S : x \in Nat \ {0} BY <1>2, <1>3, <1>5
<1>9. /\ c.rate > 0 => c.rate \in S
      /\ ~HasProfile(c) => c.users \in S
      /\ HasProfile(c) => Peak(p) \in S
      /\ HasProfile(c) /\ p.mode \in ArrivalModes => p.pre \in S /\ p.max \in S
  BY <1>3
<1> HIDE DEF S, R, P
<1>10. count \in S /\ \A x \in S : count <= x BY <1>1, <1>7, LeastIs
<1>11. count \in Nat \ {0} BY <1>8, <1>10
<1> QED BY <1>6, <1>9, <1>10, <1>11 DEF EnoughFor, p

\* The shares of a profile, as a profile.
LEMMA ShardTargets ==
  ASSUME NEW p \in ProfileRecord, NEW i, NEW n, NEW s, s = ShardProfile(p, i, n)
  PROVE  Targets(s) = {SplitInteger(t, i, n) : t \in Targets(p)}
<1>1. /\ s.start = SplitInteger(p.start, i, n) /\ DOMAIN s.stages = DOMAIN p.stages
      /\ \A j \in DOMAIN p.stages : s.stages[j].target = SplitInteger(p.stages[j].target, i, n)
  BY ShardProfileIs
<1> DEFINE T == {s.stages[j].target : j \in DOMAIN s.stages}
           U == {p.stages[j].target : j \in DOMAIN p.stages}
<1>2. T = {SplitInteger(t, i, n) : t \in U} BY <1>1
<1>3. Targets(s) = {s.start} \cup T /\ Targets(p) = {p.start} \cup U BY DEF Targets
<1> HIDE DEF T, U
<1> QED BY <1>1, <1>2, <1>3

LEMMA ShardPeak ==
  ASSUME NEW p \in ProfileRecord, NEW rate, ValidProfile(p, rate),
         NEW n \in Nat \ {0}, NEW i \in 0 .. n - 1, NEW s, s = ShardProfile(p, i, n)
  PROVE  Peak(s) = SplitInteger(Peak(p), i, n)
<1> DEFINE share(t) == SplitInteger(t, i, n)
<1>1. /\ Targets(p) \in SUBSET Nat /\ Peak(p) \in Targets(p)
      /\ \A t \in Targets(p) : t <= Peak(p)
  BY PeakIs
<1>2. Targets(s) = {share(t) : t \in Targets(p)} BY ShardTargets
<1>3. \A t \in Targets(p) : share(t) \in Nat /\ share(t) <= share(Peak(p))
  <2> SUFFICES ASSUME NEW t \in Targets(p) PROVE share(t) \in Nat /\ share(t) <= share(Peak(p))
    OBVIOUS
  <2>1. t \in Nat /\ Peak(p) \in Nat /\ t <= Peak(p) BY <1>1
  <2>2. share(t) \in Nat BY <2>1, ShareIs
  <2>3. share(t) <= share(Peak(p)) BY <2>1, SharesGrow
  <2> QED BY <2>2, <2>3
<1> DEFINE m == share(Peak(p))
<1>4. m \in Targets(s) /\ m \in Nat BY <1>1, <1>2, <1>3
<1>5. Targets(s) \in SUBSET Nat /\ \A t \in Targets(s) : t <= m BY <1>2, <1>3
<1> HIDE DEF m, share
<1>6. Peak(s) \in Targets(s) /\ \A t \in Targets(s) : t <= Peak(s)
  BY <1>4, <1>5, GreatestIs DEF Peak
<1>7. Peak(s) \in Nat /\ Peak(s) <= m /\ m <= Peak(s) BY <1>4, <1>5, <1>6
<1>8. Peak(s) = m BY ONLY <1>4, <1>7
<1> QED BY <1>8 DEF m, share

\* A share of an accepted profile is accepted, with a rate that is shared too.
LEMMA ShardProfileValid ==
  ASSUME NEW p \in ProfileRecord, NEW rate, ValidProfile(p, rate),
         NEW n \in Nat \ {0}, n <= Peak(p),
         p.mode \in ArrivalModes => n <= p.pre /\ n <= p.max,
         NEW i \in 0 .. n - 1, NEW s, s = ShardProfile(p, i, n)
  PROVE  ValidProfile(s, rate)
<1> DEFINE share(t) == SplitInteger(t, i, n)
<1>1. /\ Targets(p) \in SUBSET Nat /\ Peak(p) \in Targets(p)
      /\ p.start \in Targets(p)
      /\ \A j \in DOMAIN p.stages : p.stages[j].target \in Targets(p)
  BY PeakIs
<1>2. Targets(s) = {share(t) : t \in Targets(p)} BY ShardTargets
<1>3. /\ s.mode = p.mode /\ s.graceful = p.graceful /\ s.start = share(p.start)
      /\ DOMAIN s.stages = DOMAIN p.stages /\ Len(s.stages) = Len(p.stages)
      /\ \A j \in DOMAIN p.stages : /\ s.stages[j].duration = p.stages[j].duration
                                    /\ s.stages[j].target = share(p.stages[j].target)
      /\ p.mode \in ArrivalModes => s.pre = share(p.pre) /\ s.max = share(p.max)
  BY ShardProfileIs
<1>4. \A t \in Nat : share(t) \in Nat /\ share(t) <= t /\ (t >= n => share(t) >= 1)
  BY ShareIs
<1>5. \A a, b \in Nat : a <= b => share(a) <= share(b) BY SharesGrow
<1> HIDE DEF share
<1>6. \A t \in Targets(s) : t >= 0
  BY <1>1, <1>2, <1>4
<1>7. \E t \in Targets(s) : t > 0
  <2>1. Peak(p) \in Nat /\ share(Peak(p)) \in Targets(s) BY <1>1, <1>2
  <2>2. share(Peak(p)) \in Nat /\ share(Peak(p)) >= 1 BY <1>4, <2>1
  <2>3. share(Peak(p)) > 0 BY ONLY <2>2
  <2> QED BY <2>1, <2>3
<1>8. ASSUME NEW bound \in Nat, \A t \in Targets(p) : t <= bound
      PROVE  \A t \in Targets(s) : t <= bound
  <2> SUFFICES ASSUME NEW t \in Targets(p) PROVE share(t) <= bound BY <1>2
  <2>1. t \in Nat /\ t <= bound BY <1>1, <1>8
  <2>2. share(t) \in Nat /\ share(t) <= t BY <1>4, <2>1
  <2> QED BY ONLY <2>1, <2>2, bound \in Nat
<1>9. /\ p.graceful >= 0
      /\ 1 <= Len(p.stages) /\ Len(p.stages) <= MaxLoadStages
      /\ \A j \in DOMAIN p.stages : p.stages[j].duration > 0
      /\ p.mode \in Modes
      /\ p.mode \in ConstantModes => Constant(p)
      /\ p.mode \notin ArrivalModes => \A t \in Targets(p) : t <= MaxLoadProfileVirtualUsers
      /\ p.mode \in ArrivalModes => \A t \in Targets(p) : t <= MaxRateLimitRPS
      /\ p.mode \in ArrivalModes => ValidPool(p) /\ rate = 0
  BY Zenon DEF ValidProfile
<1>10. \A j \in DOMAIN s.stages : s.stages[j].duration > 0 BY <1>3, <1>9
<1>11. ASSUME p.mode \in ConstantModes PROVE Constant(s)
  <2>1. p.start >= 1 /\ Len(p.stages) = 1 /\ p.stages[1].target = p.start
    BY <1>9, <1>11 DEF Constant
  <2>2. IsSequence(p.stages) BY SequencesAre DEF ProfileRecord
  <2>3. DOMAIN p.stages = {1} BY <2>1, <2>2 DEF IsSequence
  <2>4. Targets(p) = {p.start} BY <2>1, <2>3 DEF Targets
  <2>5. p.start \in Nat /\ n <= p.start BY <1>1, <2>4
  <2>6. share(p.start) >= 1 BY <1>4, <2>5
  <2>7. s.stages[1].target = share(p.start) BY <1>3, <2>1, <2>3
  <2> QED BY <1>3, <2>1, <2>6, <2>7 DEF Constant
<1>12. ASSUME p.mode \in ArrivalModes PROVE ValidPool(s)
  <2>1. /\ 1 <= p.pre /\ p.pre <= MaxLoadProfileVirtualUsers
        /\ p.pre <= p.max /\ p.max <= MaxLoadProfileVirtualUsers
    BY <1>9, <1>12 DEF ValidPool
  <2>2. p.pre \in Int /\ p.max \in Int BY DEF ProfileRecord
  <2>3. p.pre \in Nat /\ p.max \in Nat BY <2>1, <2>2
  <2>4. n <= p.pre /\ n <= p.max BY <1>12
  <2>5. /\ share(p.pre) \in Nat /\ share(p.pre) >= 1 /\ share(p.pre) <= p.pre
        /\ share(p.max) \in Nat /\ share(p.max) <= p.max /\ share(p.pre) <= share(p.max)
    BY <1>4, <1>5, <2>1, <2>3, <2>4
  <2>6. s.pre = share(p.pre) /\ s.max = share(p.max) BY <1>3, <1>12
  <2>7. MaxLoadProfileVirtualUsers \in Nat BY DEF MaxLoadProfileVirtualUsers
  <2> QED BY <2>1, <2>3, <2>5, <2>6, <2>7 DEF ValidPool
<1>13. /\ p.mode \notin ArrivalModes => \A t \in Targets(s) : t <= MaxLoadProfileVirtualUsers
       /\ p.mode \in ArrivalModes => \A t \in Targets(s) : t <= MaxRateLimitRPS
  BY <1>8, <1>9 DEF MaxLoadProfileVirtualUsers, MaxRateLimitRPS
<1> QED BY <1>3, <1>6, <1>7, <1>9, <1>10, <1>11, <1>12, <1>13, Zenon DEF ValidProfile

\* The share of worker i of count.
IsShareOf(s, c, i, count) ==
  /\ s.conns = SplitInteger(c.conns, i, count)
  /\ s.rate = IF c.rate > 0 THEN SplitInteger(c.rate, i, count) ELSE c.rate
  /\ s.users = IF HasProfile(c) THEN c.users ELSE SplitInteger(c.users, i, count)
  /\ s.profile = IF HasProfile(c) THEN ShardProfile(c.profile, i, count) ELSE c.profile
  /\ s.timeout = c.timeout /\ s.duration = c.duration /\ s.ramp = c.ramp /\ s.sample = c.sample

LEMMA ShardIs ==
  ASSUME NEW c, Ready(c), NEW i, NEW n, NEW s, s = Shard(c, i, n),
         NEW d, d = EngineConfig(NewPlanConfig(s), c.bindings)
  PROVE  IsShareOf(s, c, i, n) /\ IsShareOf(d, c, i, n) /\ SameScenario(d, c)
<1>1. c = [f \in DOMAIN c |-> c[f]] /\ Fields \subseteq DOMAIN c BY DEF Ready, IsRequest
<1>2. IfZero(c.conns, DefaultMaxConnsPerHost) = c.conns
      /\ IfZero(c.users, DefaultVirtualUsers) = c.users
  BY DEF Ready, IfZero
<1>3. {"conns", "rate", "users", "profile", "bindings"} \subseteq DOMAIN c BY <1>1 DEF Fields
<1>4. \A f \in DOMAIN c \ {"conns", "rate", "users", "profile"} : s[f] = c[f]
  BY <1>1, Zenon DEF Shard
<1>5. /\ s.timeout = c.timeout /\ s.duration = c.duration /\ s.ramp = c.ramp
      /\ s.sample = c.sample /\ s.url = c.url /\ s.method = c.method /\ s.headers = c.headers
      /\ s.uses = c.uses /\ s.steps = c.steps /\ s.plan = c.plan
  BY <1>1, <1>4 DEF Fields
<1>6. s.conns = SplitInteger(c.conns, i, n) BY <1>1, <1>2, <1>3, Zenon DEF Shard
<1>7. s.rate = IF c.rate > 0 THEN SplitInteger(c.rate, i, n) ELSE c.rate
  BY <1>1, <1>3, Zenon DEF Shard
<1>8. s.users = IF HasProfile(c) THEN c.users ELSE SplitInteger(c.users, i, n)
  BY <1>1, <1>2, <1>3, Zenon DEF Shard
<1>9. s.profile = IF HasProfile(c) THEN ShardProfile(c.profile, i, n) ELSE c.profile
  BY <1>1, <1>3, Zenon DEF Shard
<1>10. DOMAIN s = DOMAIN c /\ s = [f \in DOMAIN s |-> s[f]] BY <1>1, Zenon DEF Shard
<1>11. IsShareOf(s, c, i, n) BY <1>5, <1>6, <1>7, <1>8, <1>9 DEF IsShareOf
<1>12. "bindings" \in DOMAIN s BY <1>3, <1>10
<1>13. d = [[s EXCEPT !.bindings = {}] EXCEPT !.bindings = c.bindings]
  BY DEF EngineConfig, NewPlanConfig
<1>14. /\ \A f \in DOMAIN s \ {"bindings"} : d[f] = s[f]
       /\ d.bindings = c.bindings
  <2> DEFINE e == [s EXCEPT !.bindings = {}]
  <2>1. \A f \in DOMAIN s \ {"bindings"} : e[f] = s[f] BY <1>10, Zenon
  <2>2. DOMAIN e = DOMAIN s /\ e = [f \in DOMAIN e |-> e[f]] BY <1>10, Zenon
  <2>3. d = [e EXCEPT !.bindings = c.bindings] BY <1>13
  <2> HIDE DEF e
  <2>4. \A f \in DOMAIN e \ {"bindings"} : d[f] = e[f] BY <2>2, <2>3, Zenon
  <2>5. d.bindings = c.bindings BY <1>12, <2>2, <2>3, Zenon
  <2> QED BY <2>1, <2>2, <2>4, <2>5
<1>15. /\ d.conns = s.conns /\ d.rate = s.rate /\ d.users = s.users /\ d.profile = s.profile
       /\ d.timeout = s.timeout /\ d.duration = s.duration /\ d.ramp = s.ramp
       /\ d.sample = s.sample /\ d.url = s.url /\ d.method = s.method
       /\ d.headers = s.headers /\ d.uses = s.uses /\ d.steps = s.steps /\ d.plan = s.plan
  BY <1>1, <1>10, <1>14 DEF Fields
<1>16. IsShareOf(d, c, i, n) BY <1>11, <1>15 DEF IsShareOf
<1> QED BY <1>5, <1>11, <1>14, <1>15, <1>16 DEF SameScenario

\* A share carries a load the engine accepts, runs as long as the whole and has
\* its part of the users.
LEMMA ShareLoad ==
  ASSUME NEW c, Ready(c), NEW n, EnoughFor(c, n), NEW i \in 0 .. n - 1,
         NEW s, IsShareOf(s, c, i, n)
  PROVE  /\ ValidLoad(s) /\ Duration(s) = Duration(c) /\ GracefulStop(s) = GracefulStop(c)
         /\ MaxWorkers(s) = SplitInteger(MaxWorkers(c), i, n)
         /\ s.conns = SplitInteger(c.conns, i, n) /\ s.rate = SplitInteger(c.rate, i, n)
<1> DEFINE share(t) == SplitInteger(t, i, n)
           p == c.profile
<1>1. /\ n \in Nat \ {0} /\ c.users \in Nat \ {0} /\ c.conns \in Nat \ {0} /\ c.rate \in Nat
      /\ c.timeout \in Nat \ {0}
      /\ HasProfile(c) => p \in ProfileRecord
  BY DEF Ready, EnoughFor
<1>2. ValidLoad(c) BY DEF Ready, EngineAccepts
<1>3. \A t \in Nat : share(t) \in Nat /\ share(t) <= t /\ (t >= n => share(t) >= 1)
  BY <1>1, ShareIs
<1>4. share(0) = 0
  <2>1. 0 \in Nat /\ share(0) \in Nat /\ share(0) <= 0 BY <1>3
  <2> QED BY ONLY <2>1
<1>5. /\ s.conns = share(c.conns)
      /\ s.rate = IF c.rate > 0 THEN share(c.rate) ELSE c.rate
      /\ s.users = IF HasProfile(c) THEN c.users ELSE share(c.users)
      /\ s.profile = IF HasProfile(c) THEN ShardProfile(p, i, n) ELSE p
      /\ s.timeout = c.timeout /\ s.duration = c.duration /\ s.ramp = c.ramp
      /\ s.sample = c.sample
  BY DEF IsShareOf
<1> HIDE DEF share
<1>6. s.rate = share(c.rate)
  <2>1. CASE c.rate > 0 BY <1>5, <2>1
  <2>2. CASE ~(c.rate > 0)
    <3>1. c.rate = 0 BY <1>1, <2>2
    <3> QED BY <1>4, <1>5, <3>1
  <2> QED BY <2>1, <2>2
<1>7. HasProfile(c) => s.profile.mode = p.mode
  <2> SUFFICES ASSUME HasProfile(c) PROVE s.profile.mode = p.mode OBVIOUS
  <2> DEFINE t == s.profile
  <2>1. p \in ProfileRecord /\ t = ShardProfile(p, i, n) BY <1>1, <1>5
  <2> HIDE DEF t, p
  <2>2. t.mode = p.mode BY <2>1, ShardProfileIs
  <2> QED BY <2>2 DEF t
<1>8. HasProfile(s) <=> HasProfile(c)
  <2>1. s.profile.mode = p.mode
    <3>1. CASE HasProfile(c) BY <1>7, <3>1
    <3>2. CASE ~HasProfile(c) BY <1>5, <3>2
    <3> QED BY <3>1, <3>2
  <2> QED BY <2>1, Zenon DEF HasProfile
<1>9. /\ c.ramp >= 0 /\ c.sample >= 0 /\ c.duration >= 0 /\ c.rate <= MaxRateLimitRPS
      /\ HasProfile(c) => ValidProfile(p, c.rate)
  BY <1>2 DEF ValidLoad
<1>10. s.conns \in Nat /\ s.users \in Nat /\ s.rate \in Nat /\ s.rate <= c.rate
  BY <1>1, <1>3, <1>5, <1>6
<1>11. s.rate <= MaxRateLimitRPS BY <1>1, <1>9, <1>10 DEF MaxRateLimitRPS
<1>12. CASE HasProfile(c)
  <2> DEFINE t == s.profile
  <2>1. p \in ProfileRecord /\ t = ShardProfile(p, i, n) /\ ValidProfile(p, c.rate)
    BY <1>1, <1>5, <1>9, <1>12
  <2>2. /\ n <= Peak(p)
        /\ p.mode \in ArrivalModes => n <= p.pre /\ n <= p.max
    BY <1>12 DEF EnoughFor
  <2> HIDE DEF t, p
  <2>3. ValidProfile(t, c.rate) BY <1>1, <2>1, <2>2, ShardProfileValid
  <2>4. /\ t.mode = p.mode /\ t.graceful = p.graceful
        /\ DOMAIN t.stages = DOMAIN p.stages /\ Len(t.stages) = Len(p.stages)
        /\ \A j \in DOMAIN p.stages : t.stages[j].duration = p.stages[j].duration
        /\ p.mode \in ArrivalModes => t.max = share(p.max)
    BY <2>1, ShardProfileIs DEF share
  <2>5. Peak(t) = share(Peak(p)) BY <1>1, <2>1, ShardPeak DEF share
  <2>6. TotalDuration(t.stages) = TotalDuration(p.stages)
    <3>1. IsSequence(p.stages) BY <2>1, SequencesAre DEF ProfileRecord
    <3>2. Len(p.stages) \in Nat /\ DOMAIN p.stages = 1 .. Len(p.stages)
      BY <3>1 DEF IsSequence
    <3> DEFINE a == p.stages
               b == t.stages
    <3>3. Len(a) \in Nat /\ Len(b) = Len(a) /\ \A j \in 1 .. Len(a) : b[j].duration = a[j].duration
      BY <2>4, <3>2
    <3> HIDE DEF a, b
    <3>4. TotalDuration(b) = TotalDuration(a) BY <3>3, SameDuration
    <3> QED BY <3>4 DEF a, b
  <2>7. ValidProfile(t, s.rate)
    <3>1. CASE p.mode \in ArrivalModes
      <4>1. c.rate = 0 BY <2>1, <3>1, Zenon DEF ValidProfile
      <4>2. s.rate = c.rate BY <1>4, <1>6, <4>1
      <4> QED BY <2>3, <4>2
    <3>2. CASE p.mode \notin ArrivalModes
      <4>1. t.mode \notin ArrivalModes BY <2>4, <3>2
      <4> QED BY <2>3, <4>1, Zenon DEF ValidProfile
    <3> QED BY <3>1, <3>2
  <2>8. HasProfile(s) BY <1>8, <1>12
  <2>9. ValidLoad(s)
    BY <1>1, <1>5, <1>9, <1>10, <1>11, <2>7 DEF ValidLoad, t
  <2>10. Duration(s) = Duration(c) BY <1>12, <2>6, <2>8, Zenon DEF Duration, t, p
  <2>11. GracefulStop(s) = GracefulStop(c)
    BY <1>5, <1>12, <2>4, <2>8, Zenon DEF GracefulStop, t, p
  <2>12. MaxWorkers(s) = share(MaxWorkers(c))
    <3>1. MaxWorkers(s) = IF t.mode \in ArrivalModes THEN t.max ELSE Peak(t)
      BY <2>8, Zenon DEF MaxWorkers, t
    <3>2. MaxWorkers(c) = IF p.mode \in ArrivalModes THEN p.max ELSE Peak(p)
      BY <1>12, Zenon DEF MaxWorkers, p
    <3>3. CASE p.mode \in ArrivalModes BY <2>4, <3>1, <3>2, <3>3
    <3>4. CASE p.mode \notin ArrivalModes BY <2>4, <2>5, <3>1, <3>2, <3>4
    <3> QED BY <3>3, <3>4
  <2> QED BY <1>5, <1>6, <2>9, <2>10, <2>11, <2>12 DEF share
<1>13. CASE ~HasProfile(c)
  <2>1. ~HasProfile(s) BY <1>8, <1>13
  <2>2. ValidLoad(s) BY <1>1, <1>5, <1>9, <1>10, <1>11, <2>1 DEF ValidLoad
  <2>3. Duration(s) = Duration(c) BY <1>5, <1>13, <2>1 DEF Duration
  <2>4. GracefulStop(s) = GracefulStop(c) BY <1>13, <2>1 DEF GracefulStop
  <2>5. MaxWorkers(s) = share(MaxWorkers(c))
    <3>1. n <= c.users BY <1>13 DEF EnoughFor
    <3>2. share(c.users) \in Nat /\ share(c.users) >= 1 BY <1>1, <1>3, <3>1
    <3>3. s.users = share(c.users) BY <1>5, <1>13
    <3>4. MaxWorkers(s) = share(c.users) BY <2>1, <3>2, <3>3 DEF MaxWorkers, IfZero
    <3>5. MaxWorkers(c) = c.users BY <1>1, <1>13 DEF MaxWorkers, IfZero
    <3> QED BY <3>4, <3>5
  <2> QED BY <1>5, <1>6, <2>2, <2>3, <2>4, <2>5 DEF share
<1> QED BY <1>12, <1>13

\* The shards of an accepted request.
LEMMA ShardsAre ==
  ASSUME NEW c, Ready(c), NEW n \in Nat \ {0}, NEW shards, shards = Shards(c, n)
  PROVE  /\ Len(shards) \in 1 .. n
         /\ \A i \in DOMAIN shards :
              /\ EngineAccepts(EngineConfig(NewPlanConfig(shards[i]), c.bindings))
              /\ Duration(shards[i]) = Duration(c)
              /\ GracefulStop(shards[i]) = GracefulStop(c)
         /\ Total(shards, MaxWorkers) = MaxWorkers(c)
         /\ Total(shards, LAMBDA s : s.conns) = c.conns
         /\ Total(shards, LAMBDA s : s.rate) = c.rate
<1> DEFINE count == ActiveWorkers(c, n)
<1>1. EnoughFor(c, count) /\ count <= n BY ActiveIs
<1>2. shards = [i \in 1 .. count |-> Shard(c, i - 1, count)] BY DEF Shards
<1> HIDE DEF count
<1>3. count \in Nat \ {0} BY <1>1 DEF EnoughFor
<1>4. DOMAIN shards = 1 .. count BY <1>2
<1>5. Len(shards) = count
  <2>1. count \in Nat /\ DOMAIN shards = 1 .. count BY <1>3, <1>4
  <2> QED BY <1>2, <2>1
<1>6. ASSUME NEW i \in 1 .. count
      PROVE  /\ EngineAccepts(EngineConfig(NewPlanConfig(shards[i]), c.bindings))
             /\ Duration(shards[i]) = Duration(c)
             /\ GracefulStop(shards[i]) = GracefulStop(c)
             /\ MaxWorkers(shards[i]) = SplitInteger(MaxWorkers(c), i - 1, count)
             /\ shards[i].conns = SplitInteger(c.conns, i - 1, count)
             /\ shards[i].rate = SplitInteger(c.rate, i - 1, count)
  <2> DEFINE s == shards[i]
             d == EngineConfig(NewPlanConfig(s), c.bindings)
             k == i - 1
  <2>1. s = Shard(c, k, count) /\ k \in 0 .. count - 1 BY <1>2, <1>3
  <2> HIDE DEF s, k
  <2>2. d = EngineConfig(NewPlanConfig(s), c.bindings) OBVIOUS
  <2> HIDE DEF d
  <2>3. IsShareOf(s, c, k, count) /\ IsShareOf(d, c, k, count) /\ SameScenario(d, c)
    BY <2>1, <2>2, ShardIs
  <2>4. /\ Duration(s) = Duration(c) /\ GracefulStop(s) = GracefulStop(c)
        /\ MaxWorkers(s) = SplitInteger(MaxWorkers(c), k, count)
        /\ s.conns = SplitInteger(c.conns, k, count) /\ s.rate = SplitInteger(c.rate, k, count)
    BY <1>1, <2>1, <2>3, ShareLoad
  <2>5. ValidLoad(d) BY <1>1, <2>1, <2>3, ShareLoad
  <2>6. EngineAccepts(c) BY DEF Ready
  <2>7. EngineAccepts(d) BY <2>3, <2>5, <2>6, EngineAcceptsLoad
  <2> QED BY <2>4, <2>7 DEF s, d, k
<1>7. c.conns \in Nat /\ c.rate \in Nat /\ MaxWorkers(c) \in Nat BY DEF Ready
<1>8. Total(shards, MaxWorkers) = MaxWorkers(c)
  <2> DEFINE f == [i \in 1 .. count |-> MaxWorkers(shards[i])]
             total == MaxWorkers(c)
  <2>1. f = [i \in 1 .. count |-> SplitInteger(total, i - 1, count)] BY <1>6
  <2>2. Total(shards, MaxWorkers) = FoldFunction(+, 0, f) BY <1>4 DEF Total
  <2>3. total \in Nat BY <1>7
  <2> HIDE DEF f, total
  <2>4. FoldFunction(+, 0, f) = total BY <1>3, <2>1, <2>3, SharesAddUp
  <2> QED BY <2>2, <2>4 DEF total
<1>9. Total(shards, LAMBDA s : s.conns) = c.conns
  <2> DEFINE f == [i \in 1 .. count |-> shards[i].conns]
             total == c.conns
  <2>1. f = [i \in 1 .. count |-> SplitInteger(total, i - 1, count)] BY <1>6
  <2>2. Total(shards, LAMBDA s : s.conns) = FoldFunction(+, 0, f) BY <1>4 DEF Total
  <2>3. total \in Nat BY <1>7
  <2> HIDE DEF f, total
  <2>4. FoldFunction(+, 0, f) = total BY <1>3, <2>1, <2>3, SharesAddUp
  <2> QED BY <2>2, <2>4 DEF total
<1>10. Total(shards, LAMBDA s : s.rate) = c.rate
  <2> DEFINE f == [i \in 1 .. count |-> shards[i].rate]
             total == c.rate
  <2>1. f = [i \in 1 .. count |-> SplitInteger(total, i - 1, count)] BY <1>6
  <2>2. Total(shards, LAMBDA s : s.rate) = FoldFunction(+, 0, f) BY <1>4 DEF Total
  <2>3. total \in Nat BY <1>7
  <2> HIDE DEF f, total
  <2>4. FoldFunction(+, 0, f) = total BY <1>3, <2>1, <2>3, SharesAddUp
  <2> QED BY <2>2, <2>4 DEF total
<1>11. Len(shards) \in 1 .. n BY <1>1, <1>3, <1>5
<1> HIDE DEF Shards
<1> QED BY <1>4, <1>6, <1>8, <1>9, <1>10, <1>11

\* The request is as it was submitted, and once accepted as the engine gets it.
RequestOK ==
  /\ phase = "submitted" => request \in RequestRecord
  /\ phase = "accepted" => Ready(request)

LEMMA RequestStays == ASSUME RequestOK, [Next]_vars PROVE RequestOK'
<1>1. CASE Preflight
  <2>1. CASE PreflightAccepts(request)
    <3>1. phase = "submitted" /\ phase' = "accepted" /\ request' = NormalConfig(request)
      BY <1>1, <2>1 DEF Preflight
    <3> DEFINE r == request
               c == request'
    <3>2. r \in RequestRecord /\ PreflightAccepts(r) /\ c = NormalConfig(r)
      BY <2>1, <3>1 DEF RequestOK
    <3> HIDE DEF r, c
    <3>3. Ready(c) BY <3>2, AcceptedIsReady
    <3> QED BY <3>1, <3>3 DEF RequestOK, c, Ready, IsRequest, EngineAccepts
  <2>2. CASE ~PreflightAccepts(request)
    <3>1. phase' = "rejected" BY <1>1, <2>2 DEF Preflight
    <3> QED BY <3>1 DEF RequestOK
  <2> QED BY <2>1, <2>2
<1>2. CASE Cancel
  <2>1. phase' = "canceled" BY <1>2 DEF Cancel
  <2> QED BY <2>1 DEF RequestOK
<1>3. ASSUME UNCHANGED <<request, phase>> PROVE RequestOK'
  BY <1>3 DEF RequestOK, Ready
<1>4. CASE BeginIteration BY <1>3, <1>4 DEF BeginIteration
<1>5. CASE FailRequest \/ Respond \/ Delay \/ CheckAssertion
  BY <1>3, <1>5, Zenon DEF FailRequest, Respond, Delay, CheckAssertion
<1>6. CASE Branch \/ Join \/ Loop BY <1>3, <1>6, Zenon DEF Branch, Join, Loop
<1>7. CASE UNCHANGED vars BY <1>3, <1>7 DEF vars
<1> QED BY <1>1, <1>2, <1>4, <1>5, <1>6, <1>7 DEF Next

\* What preflight returns is what runs, and any number of workers can share it:
\* each shard is accepted, and they add up to the request (ShardConfigs,
\* splitInteger, normalizeLoadConfig).
THEOREM ShardsAddUp == Spec => []ShardsAgree
<1>1. Init => RequestOK BY RequestsAssumption DEF Init, RequestOK
<1>2. RequestOK /\ [Next]_vars => RequestOK' BY RequestStays
<1>3. RequestOK => ShardsAgree
  <2> SUFFICES ASSUME RequestOK, phase = "accepted", rounds = 0
               PROVE  ShardsAgree
    BY DEF ShardsAgree
  <2> DEFINE c == request
  <2>1. Ready(c) BY DEF RequestOK
  <2>2. c.users = MaxWorkers(c) /\ c.duration = Duration(c) BY <2>1 DEF Ready
  <2>3. HasProfile(c) => c.profile.graceful = GracefulStop(c)
    BY <2>1 DEF Ready, GracefulStop, IfZero
  <2>4. \A n \in 1 .. MaxShards : n \in Nat \ {0} BY BoundsAssumption
  <2>5. \A n \in 1 .. MaxShards :
          LET shards == Shards(c, n) IN
          /\ Len(shards) \in 1 .. n
          /\ \A i \in DOMAIN shards :
               /\ EngineAccepts(EngineConfig(NewPlanConfig(shards[i]), c.bindings))
               /\ Duration(shards[i]) = Duration(c)
               /\ GracefulStop(shards[i]) = GracefulStop(c)
          /\ Total(shards, MaxWorkers) = MaxWorkers(c)
          /\ Total(shards, LAMBDA s : s.conns) = c.conns
          /\ Total(shards, LAMBDA s : s.rate) = c.rate
    BY <2>1, <2>4, ShardsAre
  <2> QED BY <2>2, <2>3, <2>5, Zenon DEF ShardsAgree
<1> QED BY <1>1, <1>2, <1>3, PTL DEF Spec

-----------------------------------------------------------------------------
(* Routes. Paths first, then the regions of a plan: what a route runs before  *)
(* its join, loops with their bodies.                                         *)

\* What is avoided is not reached, and what is reached from there is reached.
LEMMA FromGoesOn ==
  ASSUME NEW edges, Graph(edges), NEW u \in DOMAIN edges, NEW stop,
         NEW v \in From(edges, u, stop)
  PROVE  v # stop /\ v \in DOMAIN edges /\ From(edges, v, stop) \subseteq From(edges, u, stop)
<1> DEFINE G == From(edges, u, stop)
<1>1. G \subseteq DOMAIN edges /\ \A x \in G \cap DOMAIN edges : edges[x] \ {stop} \subseteq G
  BY FromIsClosed
<1>2. v \in DOMAIN edges /\ v \in G BY <1>1
<1>3. v # stop
  <2> DEFINE H == DOMAIN edges \ {stop}
  <2>1. u # stop => u \in H OBVIOUS
  <2>2. \A x \in H \cap DOMAIN edges : edges[x] \ {stop} \subseteq H BY DEF Graph
  <2>3. v \in From(edges, u, stop) OBVIOUS
  <2> HIDE DEF H
  <2>4. From(edges, u, stop) \subseteq H BY <2>1, <2>2, FromIsLeast
  <2> QED BY <2>3, <2>4 DEF H
<1> HIDE DEF G
<1>4. From(edges, v, stop) \subseteq G BY <1>1, <1>2, FromIsLeast
<1> QED BY <1>2, <1>3, <1>4 DEF G

\* More is reached along more edges, and without avoiding a step.
LEMMA FromGrows ==
  ASSUME NEW fewer, Graph(fewer), NEW edges, Graph(edges), DOMAIN fewer = DOMAIN edges,
         \A n \in DOMAIN edges : fewer[n] \subseteq edges[n], NEW u \in DOMAIN edges, NEW stop
  PROVE  From(fewer, u, stop) \subseteq From(edges, u, stop)
<1> DEFINE G == From(edges, u, stop)
<1>1. /\ u # stop => u \in G
      /\ \A x \in G \cap DOMAIN edges : edges[x] \ {stop} \subseteq G
  BY FromIsClosed
<1> HIDE DEF G
<1>2. \A x \in G \cap DOMAIN fewer : fewer[x] \ {stop} \subseteq G BY <1>1
<1>3. From(fewer, u, stop) \subseteq G BY <1>1, <1>2, FromIsLeast
<1> QED BY <1>3 DEF G

LEMMA FromAvoids ==
  ASSUME NEW edges, Forward(edges), None \notin DOMAIN edges, NEW u \in DOMAIN edges, NEW stop
  PROVE  From(edges, u, stop) \subseteq From(edges, u, None)
<1> DEFINE G == From(edges, u, None)
<1>1. Graph(edges) /\ \A n \in DOMAIN edges : None \notin edges[n] BY DEF Forward
<1>2. /\ u \in G
      /\ \A x \in G \cap DOMAIN edges : edges[x] \ {None} \subseteq G
  BY <1>1, FromIsClosed
<1> HIDE DEF G
<1>3. \A x \in G \cap DOMAIN edges : edges[x] \ {stop} \subseteq G BY <1>1, <1>2
<1>4. From(edges, u, stop) \subseteq G BY <1>1, <1>2, <1>3, FromIsLeast
<1> QED BY <1>4 DEF G

\* What is reached is reached without w, or by way of w.
LEMMA FromSplits ==
  ASSUME NEW edges, Forward(edges), None \notin DOMAIN edges, NEW u \in DOMAIN edges,
         NEW w \in DOMAIN edges, NEW v \in From(edges, u, None)
  PROVE  \/ v \in From(edges, u, w)
         \/ w \in From(edges, u, None) /\ v \in From(edges, w, None)
<1>1. Graph(edges) /\ \A n \in DOMAIN edges : None \notin edges[n] BY DEF Forward
<1>2. u # None /\ w # None OBVIOUS
<1> DEFINE Before == From(edges, u, w)
           After == From(edges, w, None)
           All == From(edges, u, None)
<1>3. /\ u # w => u \in Before
      /\ \A x \in Before \cap DOMAIN edges : edges[x] \ {w} \subseteq Before
  BY <1>1, FromIsClosed
<1>4. w \in After /\ \A x \in After \cap DOMAIN edges : edges[x] \ {None} \subseteq After
  BY <1>1, <1>2, FromIsClosed
<1>5. /\ u \in All
      /\ \A x \in All \cap DOMAIN edges : edges[x] \ {None} \subseteq All
  BY <1>1, <1>2, FromIsClosed
<1>6. Before \subseteq All BY FromAvoids
<1>7. v \in All OBVIOUS
<1> HIDE DEF Before, After, All
<1>8. CASE w \in All
  <2> DEFINE G == Before \cup After
  <2>1. u \in G BY <1>3, <1>4
  <2>2. \A x \in G \cap DOMAIN edges : edges[x] \ {None} \subseteq G BY <1>1, <1>3, <1>4
  <2> HIDE DEF G
  <2>3. From(edges, u, None) \subseteq G BY <1>1, <2>1, <2>2, FromIsLeast
  <2> QED BY <1>7, <1>8, <2>3 DEF G, All, Before, After
<1>9. CASE w \notin All
  <2>1. u \in Before BY <1>3, <1>5, <1>9
  <2>2. \A x \in Before \cap DOMAIN edges : edges[x] \ {None} \subseteq Before
    BY <1>1, <1>3, <1>5, <1>6, <1>9
  <2>3. From(edges, u, None) \subseteq Before BY <1>1, <2>1, <2>2, FromIsLeast
  <2> QED BY <1>7, <2>3 DEF All, Before
<1> QED BY <1>8, <1>9

\* Two steps do not lead to each other.
LEMMA NoWayBack ==
  ASSUME NEW edges, Forward(edges), None \notin DOMAIN edges, NEW u \in DOMAIN edges,
         NEW v \in From(edges, u, None), u # v
  PROVE  u \notin From(edges, v, None)
<1>1. Graph(edges) /\ \A n \in DOMAIN edges : None \notin edges[n] BY DEF Forward
<1> DEFINE G == {u} \cup UNION {From(edges, m, None) : m \in edges[u]}
<1>2. edges[u] \subseteq DOMAIN edges BY <1>1 DEF Graph
<1>3. \A m \in edges[u] :
        /\ m \in From(edges, m, None)
        /\ \A x \in From(edges, m, None) : edges[x] \ {None} \subseteq From(edges, m, None)
  BY <1>1, <1>2, FromIsClosed
<1>4. \A x \in G \cap DOMAIN edges : edges[x] \ {None} \subseteq G BY <1>3
<1>5. From(edges, u, None) \subseteq G
  <2>1. u \in G OBVIOUS
  <2> HIDE DEF G
  <2> QED BY <1>1, <1>4, <2>1, FromIsLeast
<1>6. PICK m \in edges[u] : v \in From(edges, m, None) BY <1>5
<1>7. From(edges, v, None) \subseteq From(edges, m, None) BY <1>1, <1>2, <1>6, FromGoesOn
<1>8. u \notin From(edges, m, None) BY DEF Forward, Acyclic
<1> QED BY <1>7, <1>8

\* A plan that validateBoundedExecutionLoops and validateStructuredBranches
\* accept, with its edges without those into bodies and with them.
Structured(plan, edges, all) ==
  /\ edges = Edges(plan, FALSE) /\ all = Edges(plan, TRUE)
  /\ Forward(edges) /\ Graph(all) /\ DOMAIN edges = DOMAIN plan /\ DOMAIN all = DOMAIN plan
  /\ None \notin DOMAIN plan
  /\ \A n \in DOMAIN plan : edges[n] \subseteq all[n]
  /\ \A n \in DOMAIN plan : all[n] \subseteq edges[n] \cup {m \in {plan[n].body} : plan[n].kind = "loop"}
  /\ \A n \in OfKind(plan, "loop") : plan[n].body \in all[n]
  /\ LoopsBounded(plan) /\ BranchesStructured(plan)
  /\ \A b \in OfKind(plan, "branch") :
       /\ BranchResolves(plan, plan[b]) /\ edges[b] = RouteTargets(plan[b])
       /\ DOMAIN plan[b].routes = 1 .. Len(plan[b].routes)

\* A body leads to its loop and is left by it only, and holds no loop.
LEMMA BodyFacts ==
  ASSUME NEW plan, NEW edges, NEW all, Structured(plan, edges, all),
         NEW l \in OfKind(plan, "loop"), NEW body, body = LoopBody(plan, l)
  PROVE  /\ l \in DOMAIN edges /\ body \subseteq DOMAIN edges /\ l \notin body
         /\ plan[l].body \in body \cup {l}
         /\ body \cap OfKind(plan, "loop") = {}
         /\ \A x \in body : /\ l \in From(edges, x, None)
                            /\ From(edges, x, l) \subseteq body
                            /\ all[x] \subseteq body \cup {l}
<1>1. /\ Graph(edges) /\ DOMAIN edges = DOMAIN plan /\ edges = Edges(plan, FALSE)
      /\ Graph(all) /\ DOMAIN all = DOMAIN plan
  BY DEF Structured, Forward
<1>2. l \in DOMAIN edges /\ plan[l].kind = "loop" BY <1>1 DEF OfKind
<1>3. plan[l].body \in DOMAIN edges BY <1>1, <1>2 DEF Structured, Graph
<1>4. body = From(edges, plan[l].body, l) BY <1>1 DEF LoopBody
<1>5. /\ body \subseteq Reaching(edges, l) /\ body \cap OfKind(plan, "loop") = {}
  BY <1>1 DEF Structured, LoopsBounded
<1>6. /\ body \subseteq DOMAIN edges /\ l \notin body /\ (plan[l].body # l => plan[l].body \in body)
      /\ \A x \in body : edges[x] \ {l} \subseteq body /\ From(edges, x, l) \subseteq body
  <2> DEFINE start == plan[l].body
  <2> HIDE DEF start
  <2>1. start \in DOMAIN edges /\ body = From(edges, start, l) BY <1>3, <1>4 DEF start
  <2>2. /\ body \subseteq DOMAIN edges /\ (start # l => start \in body)
        /\ \A x \in body : edges[x] \ {l} \subseteq body
    BY <1>1, <2>1, FromIsClosed
  <2>3. \A x \in body : x # l /\ From(edges, x, l) \subseteq body
    BY <1>1, <2>1, FromGoesOn
  <2> QED BY <2>2, <2>3 DEF start
<1>7. ASSUME NEW x \in body PROVE all[x] \subseteq body \cup {l}
  <2>1. plan[x].kind # "loop" /\ x \in DOMAIN plan BY <1>1, <1>5, <1>6 DEF OfKind
  <2>2. all[x] \subseteq edges[x] BY <2>1 DEF Structured
  <2> QED BY <1>6, <2>2
<1>8. \A x \in body : l \in From(edges, x, None) BY <1>5 DEF Reaching
<1> QED BY <1>2, <1>5, <1>6, <1>7, <1>8

\* A route leads to the join and is left by it only; with a nested branch it
\* holds the join of that.
LEMMA RegionFacts ==
  ASSUME NEW plan, NEW edges, NEW all, Structured(plan, edges, all),
         NEW b \in OfKind(plan, "branch"), NEW i \in DOMAIN plan[b].routes,
         NEW join, join = plan[b].join, NEW target, target = plan[b].routes[i].target,
         NEW region, region = Region(plan, b, i)
  PROVE  /\ join \in DOMAIN edges /\ plan[join].kind = "join" /\ b \in DOMAIN edges
         /\ target \in edges[b] /\ target \in DOMAIN edges
         /\ region = From(edges, target, join)
         /\ region \subseteq DOMAIN edges /\ join \notin region /\ target \in region \cup {join}
         /\ \A x \in region : /\ join \in From(edges, x, None)
                              /\ From(edges, x, join) \subseteq region
                              /\ edges[x] \subseteq region \cup {join}
                              /\ x \in From(edges, b, None) /\ x # b
         /\ \A x \in region \cap OfKind(plan, "branch") : plan[x].join \in region
         /\ join \in From(edges, target, None)
<1>1. /\ Graph(edges) /\ DOMAIN edges = DOMAIN plan /\ edges = Edges(plan, FALSE)
      /\ Forward(edges) /\ None \notin DOMAIN edges
  BY DEF Structured, Forward
<1>2. b \in DOMAIN edges /\ b \in DOMAIN plan BY <1>1 DEF OfKind
<1>3. /\ join \in DOMAIN edges /\ plan[join].kind = "join" /\ target \in DOMAIN edges
      /\ target \in edges[b]
  <2>1. BranchResolves(plan, plan[b]) /\ edges[b] = RouteTargets(plan[b]) BY DEF Structured
  <2>2. target \in RouteTargets(plan[b]) BY DEF RouteTargets
  <2>3. join \in DOMAIN plan /\ plan[join].kind = "join" BY <2>1 DEF BranchResolves
  <2>4. edges[b] \subseteq DOMAIN edges BY <1>1, <1>2 DEF Graph
  <2> QED BY <1>1, <2>1, <2>2, <2>3, <2>4
<1>4. region = From(edges, target, join) BY <1>1 DEF Region
<1>5. /\ {target} \cup region \subseteq Reaching(edges, join)
      /\ \A x \in region \cap OfKind(plan, "branch") : plan[x].join \in region
  BY <1>1 DEF Structured, BranchesStructured, BranchStructured
<1>6. /\ region \subseteq DOMAIN edges /\ (target # join => target \in region)
      /\ \A x \in region : edges[x] \ {join} \subseteq region
  BY ONLY <1>1, <1>3, <1>4, FromIsClosed
<1>7. \A x \in region : x # join /\ From(edges, x, join) \subseteq region
  BY ONLY <1>1, <1>3, <1>4, FromGoesOn
<1>8. b \notin From(edges, target, None) BY <1>1, <1>2, <1>3 DEF Forward, Acyclic
<1>9. region \subseteq From(edges, target, None) BY <1>1, <1>3, <1>4, FromAvoids
<1>10. From(edges, target, None) \subseteq From(edges, b, None)
  <2>1. target # None /\ b # None BY <1>1, <1>2, <1>3
  <2>2. b \in From(edges, b, None)
        /\ \A x \in From(edges, b, None) : edges[x] \ {None} \subseteq From(edges, b, None)
    BY <1>1, <1>2, <2>1, FromIsClosed
  <2>3. target \in From(edges, b, None) BY <1>3, <2>1, <2>2
  <2> QED BY ONLY <1>1, <1>2, <2>3, FromGoesOn
<1>11. \A x \in {target} \cup region : join \in From(edges, x, None) BY <1>5 DEF Reaching
<1> QED BY <1>2, <1>3, <1>4, <1>5, <1>6, <1>7, <1>8, <1>9, <1>10, <1>11

\* Routes of one branch are disjoint.
LEMMA RegionsApart ==
  ASSUME NEW plan, NEW edges, NEW all, Structured(plan, edges, all),
         NEW b \in OfKind(plan, "branch"), NEW i \in DOMAIN plan[b].routes,
         NEW j \in DOMAIN plan[b].routes, i # j
  PROVE  Region(plan, b, i) \cap Region(plan, b, j) = {}
BY DEF Structured, BranchesStructured, BranchStructured

\* A body that holds a branch holds its join.
LEMMA BodyHoldsJoin ==
  ASSUME NEW plan, NEW edges, NEW all, Structured(plan, edges, all),
         NEW l \in OfKind(plan, "loop"), NEW b \in LoopBody(plan, l), plan[b].kind = "branch"
  PROVE  plan[b].join \in LoopBody(plan, l)
<1> DEFINE body == LoopBody(plan, l)
           join == plan[b].join
           targetOf(i) == plan[b].routes[i].target
<1> SUFFICES ASSUME join \notin body PROVE FALSE OBVIOUS
<1>1. Forward(edges) /\ Graph(edges) /\ DOMAIN edges = DOMAIN plan /\ None \notin DOMAIN edges
  BY DEF Structured, Forward
<1>2. /\ l \in DOMAIN edges /\ body \subseteq DOMAIN edges /\ l \notin body
      /\ \A x \in body : /\ l \in From(edges, x, None)
                         /\ From(edges, x, l) \subseteq body
                         /\ all[x] \subseteq body \cup {l}
  BY BodyFacts
<1>3. b \in OfKind(plan, "branch") /\ edges[b] \subseteq all[b] BY <1>1, <1>2 DEF OfKind, Structured
<1>4. 1 \in DOMAIN plan[b].routes /\ 2 \in DOMAIN plan[b].routes
  <2>1. /\ DOMAIN plan[b].routes = 1 .. Len(plan[b].routes)
        /\ Len(plan[b].routes) \in 2 .. MaxRoutes
    BY <1>3 DEF Structured, BranchResolves
  <2>2. \A n \in 2 .. MaxRoutes : 1 \in 1 .. n /\ 2 \in 1 .. n BY DEF MaxRoutes
  <2> QED BY ONLY <2>1, <2>2
<1>5. ASSUME NEW i \in DOMAIN plan[b].routes PROVE l \in Region(plan, b, i)
  <2> DEFINE target == targetOf(i)
             region == Region(plan, b, i)
  <2>1. /\ join \in DOMAIN edges /\ plan[join].kind = "join" /\ target \in edges[b]
        /\ target \in DOMAIN edges /\ region = From(edges, target, join)
        /\ join \in From(edges, target, None)
    BY <1>3, RegionFacts
  <2>2. target \in body \cup {l} BY <1>2, <1>3, <2>1
  <2>3. l # join /\ l # None BY <1>1, <1>2, <2>1 DEF OfKind
  <2>4. l \in From(edges, target, None)
    <3>1. target = l => l \in From(edges, target, None) BY ONLY <1>1, <1>2, <2>3, FromIsClosed
    <3> QED BY <1>2, <2>2, <3>1
  <2> HIDE DEF target, region, body, join
  <2>5. CASE join \in From(edges, l, None)
    <3>1. l \notin From(edges, join, None) BY <1>1, <1>2, <2>3, <2>5, NoWayBack
    <3>2. l \in From(edges, target, join) BY <1>1, <2>1, <2>4, <3>1, FromSplits
    <3> QED BY <2>1, <3>2 DEF region
  <2>6. CASE join \notin From(edges, l, None)
    <3>1. join \in From(edges, target, l) BY <1>1, <1>2, <2>1, <2>6, FromSplits
    <3>2. target # l
      <4>1. From(edges, l, l) = {} BY <1>1, <1>2, NothingFromStop
      <4> QED BY <3>1, <4>1
    <3>3. From(edges, target, l) \subseteq body BY <1>2, <2>2, <3>2
    <3> QED BY <3>1, <3>3 DEF body, join
  <2> QED BY <2>5, <2>6
<1>6. Region(plan, b, 1) \cap Region(plan, b, 2) = {} BY <1>3, <1>4, RegionsApart
<1> QED BY <1>4, <1>5, <1>6

\* Steps of a plan, one after the other without those into bodies, and a loop
\* with its body: what comes after the body comes after the loop.
LEMMA AfterBody ==
  ASSUME NEW plan, NEW edges, NEW all, Structured(plan, edges, all),
         NEW l \in OfKind(plan, "loop"), NEW x \in LoopBody(plan, l),
         NEW y \in From(edges, x, None)
  PROVE  y \in LoopBody(plan, l) \/ y \in From(edges, l, None)
<1>1. Forward(edges) /\ Graph(edges) /\ DOMAIN edges = DOMAIN plan /\ None \notin DOMAIN edges
  BY DEF Structured, Forward
<1>2. /\ l \in DOMAIN edges /\ LoopBody(plan, l) \subseteq DOMAIN edges
      /\ From(edges, x, l) \subseteq LoopBody(plan, l)
  BY BodyFacts
<1>3. y \in From(edges, x, l) \/ y \in From(edges, l, None)
  BY ONLY <1>1, <1>2, x \in LoopBody(plan, l), y \in From(edges, x, None), FromSplits
<1> QED BY <1>2, <1>3

\* The steps of a route, and those of the bodies of its loops.
WholeRegion(plan, b, i) ==
  Region(plan, b, i) \cup
    UNION {LoopBody(plan, l) : l \in Region(plan, b, i) \cap OfKind(plan, "loop")}

\* The join is in no body of a loop of the route.
LEMMA JoinOutOfBodies ==
  ASSUME NEW plan, NEW edges, NEW all, Structured(plan, edges, all),
         NEW b \in OfKind(plan, "branch"), NEW i \in DOMAIN plan[b].routes,
         NEW l \in Region(plan, b, i), l \in OfKind(plan, "loop")
  PROVE  plan[b].join \notin LoopBody(plan, l)
<1> DEFINE join == plan[b].join
<1>1. Forward(edges) /\ Graph(edges) /\ DOMAIN edges = DOMAIN plan /\ None \notin DOMAIN edges
  BY DEF Structured, Forward
<1>2. l \in DOMAIN edges /\ join \in From(edges, l, None) /\ join # l BY RegionFacts
<1>3. l \notin From(edges, join, None) BY ONLY <1>1, <1>2, NoWayBack
<1>4. \A x \in LoopBody(plan, l) : l \in From(edges, x, None) BY BodyFacts
<1> QED BY <1>3, <1>4

LEMMA InsideIs ==
  ASSUME NEW plan, NEW edges, NEW all, Structured(plan, edges, all),
         NEW b \in OfKind(plan, "branch"), NEW i \in DOMAIN plan[b].routes
  PROVE  /\ Inside(plan, <<b, i>>) = WholeRegion(plan, b, i)
         /\ Inside(plan, <<b, i>>) = From(all, plan[b].routes[i].target, plan[b].join)
<1> DEFINE join == plan[b].join
           target == plan[b].routes[i].target
           region == Region(plan, b, i)
           within == WholeRegion(plan, b, i)
           loopSteps == OfKind(plan, "loop")
<1>1. /\ Forward(edges) /\ Graph(edges) /\ DOMAIN edges = DOMAIN plan /\ None \notin DOMAIN edges
      /\ Graph(all) /\ DOMAIN all = DOMAIN edges
      /\ \A n \in DOMAIN edges : edges[n] \subseteq all[n]
      /\ \A n \in DOMAIN edges : all[n] \subseteq edges[n] \cup {m \in {plan[n].body} : plan[n].kind = "loop"}
      /\ \A n \in loopSteps : plan[n].body \in all[n]
  BY DEF Structured, Forward
<1>2. /\ join \in DOMAIN edges /\ target \in DOMAIN edges
      /\ region = From(edges, target, join)
      /\ region \subseteq DOMAIN edges /\ join \notin region /\ target \in region \cup {join}
      /\ \A x \in region : edges[x] \subseteq region \cup {join}
  BY RegionFacts
<1>3. \A l \in loopSteps :
        /\ l \in DOMAIN edges /\ LoopBody(plan, l) \subseteq DOMAIN edges /\ l \notin LoopBody(plan, l)
        /\ plan[l].body \in LoopBody(plan, l) \cup {l}
        /\ \A x \in LoopBody(plan, l) : all[x] \subseteq LoopBody(plan, l) \cup {l}
  BY BodyFacts
<1>4. \A x : x \in within <=>
        x \in region \/ \E l \in region \cap loopSteps : x \in LoopBody(plan, l)
  BY DEF WholeRegion
<1>5. Inside(plan, <<b, i>>) = From(all, target, join) BY DEF Inside, Structured
<1>6. \A l \in region \cap loopSteps : join \notin LoopBody(plan, l) BY JoinOutOfBodies
<1>7. \A x \in DOMAIN edges : plan[x].kind = "loop" => x \in loopSteps BY <1>1 DEF OfKind
<1> HIDE DEF join, target, region, within, loopSteps
<1>8. From(all, target, join) \subseteq within
  <2>1. target # join => target \in within BY <1>2, <1>4
  <2>2. ASSUME NEW x \in within \cap DOMAIN all, NEW y \in all[x] \ {join} PROVE y \in within
    <3>1. CASE x \in region
      <4>1. CASE y \in edges[x] BY <1>2, <1>4, <2>2, <3>1, <4>1
      <4>2. CASE y \notin edges[x]
        <5>1. plan[x].kind = "loop" /\ y = plan[x].body BY <1>1, <2>2, <4>2
        <5>2. x \in loopSteps BY <1>1, <1>7, <2>2, <5>1
        <5>3. y \in LoopBody(plan, x) \cup {x} BY <1>3, <5>1, <5>2
        <5> QED BY <1>4, <3>1, <5>2, <5>3
      <4> QED BY <4>1, <4>2
    <3>2. CASE \E l \in region \cap loopSteps : x \in LoopBody(plan, l)
      <4>1. PICK l \in region \cap loopSteps : x \in LoopBody(plan, l) BY <3>2
      <4>2. y \in LoopBody(plan, l) \cup {l} BY <1>3, <2>2, <4>1
      <4> QED BY <1>4, <4>1, <4>2
    <3> QED BY <1>4, <2>2, <3>1, <3>2
  <2> QED BY ONLY <1>1, <1>2, <2>1, <2>2, FromIsLeast
<1>9. within \subseteq From(all, target, join)
  <2> DEFINE inside == From(all, target, join)
  <2>1. region \subseteq inside BY ONLY <1>1, <1>2, FromGrows
  <2>2. \A x \in inside : all[x] \ {join} \subseteq inside BY ONLY <1>1, <1>2, FromIsClosed
  <2> HIDE DEF inside
  <2>3. ASSUME NEW l \in region \cap loopSteps PROVE LoopBody(plan, l) \subseteq inside
    <3> DEFINE start == plan[l].body
               body == LoopBody(plan, l)
    <3>1. body = From(edges, start, l) /\ start \in all[l] /\ start \in DOMAIN edges
      BY <1>1, <1>3 DEF LoopBody, Structured, Graph
    <3>2. join \notin body /\ l \in inside BY <1>6, <2>1
    <3>3. start \in body \cup {l} /\ \A x \in body : all[x] \subseteq body \cup {l}
          /\ body \subseteq DOMAIN edges /\ l \notin body
      BY <1>3
    <3> DEFINE G == body \cap inside
    <3> HIDE DEF start, body
    <3>4. start # l => start \in G BY <2>2, <3>1, <3>2, <3>3
    <3>5. \A x \in G \cap DOMAIN edges : edges[x] \ {l} \subseteq G BY <1>1, <2>2, <3>2, <3>3
    <3> HIDE DEF G
    <3>6. body \subseteq G BY ONLY <1>1, <3>1, <3>4, <3>5, FromIsLeast
    <3> QED BY <3>6 DEF G, body
  <2> QED BY <1>4, <2>1, <2>3 DEF inside
<1> QED BY <1>5, <1>8, <1>9 DEF join, target, within

\* What is run inside a route: all of it leads to the join, past neither the
\* branch nor the join, and the join of a nested branch is inside too.
LEMMA InsideFacts ==
  ASSUME NEW plan, NEW edges, NEW all, Structured(plan, edges, all),
         NEW b \in OfKind(plan, "branch"), NEW i \in DOMAIN plan[b].routes,
         NEW inside, inside = Inside(plan, <<b, i>>), NEW join, join = plan[b].join
  PROVE  /\ join \notin inside /\ plan[b].routes[i].target \in inside \cup {join}
         /\ b \notin inside /\ inside \subseteq DOMAIN plan
         /\ \A x \in inside : /\ all[x] \subseteq inside \cup {join}
                              /\ join \in From(edges, x, None)
                              /\ join \in From(all, x, b)
                              /\ plan[x].kind = "branch" => plan[x].join \in inside
<1> DEFINE target == plan[b].routes[i].target
           region == Region(plan, b, i)
           loopSteps == OfKind(plan, "loop")
<1>1. /\ Forward(edges) /\ Graph(edges) /\ DOMAIN edges = DOMAIN plan /\ None \notin DOMAIN edges
      /\ Graph(all) /\ DOMAIN all = DOMAIN edges
      /\ \A n \in DOMAIN edges : edges[n] \subseteq all[n]
  BY DEF Structured, Forward
<1>2. /\ join \in DOMAIN edges /\ target \in DOMAIN edges /\ b \in DOMAIN edges
      /\ plan[join].kind = "join"
      /\ \A x \in region : /\ x \in DOMAIN edges
                            /\ join \in From(edges, x, None)
                            /\ x \in From(edges, b, None) /\ x # b
      /\ \A x \in region \cap OfKind(plan, "branch") : plan[x].join \in region
  BY RegionFacts
<1>3. inside = From(all, target, join) /\ inside = WholeRegion(plan, b, i) BY InsideIs
<1>4. \A x \in inside : x \in region \/ \E l \in region \cap loopSteps : x \in LoopBody(plan, l)
  BY <1>3 DEF WholeRegion
<1>5. \A l \in region \cap loopSteps : LoopBody(plan, l) \subseteq inside BY <1>3 DEF WholeRegion
<1>6. region \subseteq inside BY <1>3 DEF WholeRegion
<1>7. \A l \in loopSteps : \A x \in LoopBody(plan, l) :
        /\ l \in From(edges, x, None)
        /\ \A y \in From(edges, x, None) : y \in LoopBody(plan, l) \/ y \in From(edges, l, None)
  BY BodyFacts, AfterBody
<1>8. plan[b].kind = "branch" /\ \A x \in DOMAIN plan : plan[x].kind = "branch" => x \in OfKind(plan, "branch")
  BY DEF OfKind
<1>9. \A l \in loopSteps : \A x \in LoopBody(plan, l) :
        plan[x].kind = "branch" => plan[x].join \in LoopBody(plan, l)
  BY BodyHoldsJoin
<1> HIDE DEF target, region, loopSteps
<1>10. /\ inside \subseteq DOMAIN edges /\ (target # join => target \in inside)
       /\ \A x \in inside : x # join /\ all[x] \subseteq inside \cup {join}
  <2>1. /\ From(all, target, join) \subseteq DOMAIN edges
        /\ (target # join => target \in From(all, target, join))
        /\ \A x \in From(all, target, join) : all[x] \ {join} \subseteq From(all, target, join)
    BY ONLY <1>1, <1>2, FromIsClosed
  <2>2. \A x \in From(all, target, join) : x # join BY ONLY <1>1, <1>2, FromGoesOn
  <2> QED BY ONLY <1>3, <2>1, <2>2
<1>11. \A x \in inside : plan[x].kind = "branch" => plan[x].join \in inside
  BY <1>1, <1>2, <1>4, <1>5, <1>6, <1>8, <1>9
<1>12. b \notin inside BY <1>8, <1>10, <1>11
<1>13. ASSUME NEW x \in inside PROVE join \in From(edges, x, None)
  <2>1. CASE x \in region BY <1>2, <2>1
  <2>2. CASE x \notin region
    <3>1. PICK l \in region \cap loopSteps : x \in LoopBody(plan, l) BY <1>4, <2>2
    <3>2. l \in From(edges, x, None) /\ join \in From(edges, l, None) BY <1>2, <1>7, <3>1
    <3>3. x \in DOMAIN edges BY <1>10
    <3>4. From(edges, l, None) \subseteq From(edges, x, None) BY ONLY <1>1, <3>2, <3>3, FromGoesOn
    <3> QED BY <3>2, <3>4
  <2> QED BY <2>1, <2>2
<1>14. \A x \in region : b \notin From(edges, x, None)
  <2>1. \A x \in region : x \in From(edges, b, None) /\ x # b BY <1>2
  <2> QED BY ONLY <1>1, <1>2, <2>1, NoWayBack
<1>15. ASSUME NEW x \in inside PROVE join \in From(all, x, b)
  <2>1. b \notin From(edges, x, None)
    <3>1. CASE x \in region BY <1>14, <3>1
    <3>2. CASE x \notin region
      <4>1. PICK l \in region \cap loopSteps : x \in LoopBody(plan, l) BY <1>4, <3>2
      <4>2. b \notin LoopBody(plan, l) /\ b \notin From(edges, l, None) BY <1>5, <1>12, <1>14, <4>1
      <4> QED BY <1>7, <4>1, <4>2
    <3> QED BY <3>1, <3>2
  <2>2. x \in DOMAIN edges /\ join \in From(edges, x, None) BY <1>10, <1>13
  <2>3. join \in From(edges, x, b) BY ONLY <1>1, <1>2, <2>1, <2>2, FromSplits
  <2>4. From(edges, x, b) \subseteq From(all, x, b) BY ONLY <1>1, <2>2, FromGrows
  <2> QED BY <2>3, <2>4
<1> QED BY <1>1, <1>10, <1>11, <1>12, <1>13, <1>15 DEF target

\* A step is inside of one route of a branch at most.
LEMMA InsideApart ==
  ASSUME NEW plan, NEW edges, NEW all, Structured(plan, edges, all),
         NEW b \in OfKind(plan, "branch"), NEW i \in DOMAIN plan[b].routes,
         NEW j \in DOMAIN plan[b].routes, i # j
  PROVE  Inside(plan, <<b, i>>) \cap Inside(plan, <<b, j>>) = {}
<1> DEFINE join == plan[b].join
           loopSteps == OfKind(plan, "loop")
           region(k) == Region(plan, b, k)
<1>1. Forward(edges) /\ Graph(edges) /\ DOMAIN edges = DOMAIN plan /\ None \notin DOMAIN edges
  BY DEF Structured, Forward
<1>2. \A k \in {i, j} :
        /\ join \in DOMAIN edges /\ region(k) \subseteq DOMAIN edges
        /\ \A x \in region(k) : /\ x # join /\ join \in From(edges, x, None)
                                /\ From(edges, x, join) \subseteq region(k)
  BY RegionFacts
<1>3. \A x : \A k \in {i, j} : x \in Inside(plan, <<b, k>>) =>
        x \in region(k) \/ \E l \in region(k) \cap loopSteps : x \in LoopBody(plan, l)
  <2>1. \A k \in {i, j} : Inside(plan, <<b, k>>) = WholeRegion(plan, b, k) BY InsideIs
  <2> QED BY <2>1 DEF WholeRegion
<1>4. region(i) \cap region(j) = {} BY RegionsApart
<1>5. \A l \in loopSteps : /\ LoopBody(plan, l) \cap loopSteps = {} /\ LoopBody(plan, l) \subseteq DOMAIN edges
                       /\ \A x \in LoopBody(plan, l) : l \in From(edges, x, None)
  BY BodyFacts
<1>6. \A l \in loopSteps : \A x \in LoopBody(plan, l) : \A y \in From(edges, x, None) :
        y \in LoopBody(plan, l) \/ y \in From(edges, l, None)
  BY AfterBody
<1> HIDE DEF join, loopSteps, region
<1>7. \A k \in {i, j} : \A x \in region(k) : \A y \in From(edges, x, None) :
        y \in region(k) \/ y \in From(edges, join, None)
  BY <1>1, <1>2, FromSplits
<1>8. \A k \in {i, j} : \A x \in region(k) : x \notin From(edges, join, None)
  BY <1>1, <1>2, NoWayBack
\* No step of one route leads to a step of the other.
<1>9. \A k, m \in {i, j} : k # m => \A x \in region(k) : \A y \in region(m) : y \notin From(edges, x, None)
  BY <1>4, <1>7, <1>8
<1>10. \A k, m \in {i, j} : k # m =>
         \A x \in region(k) : \A l \in region(m) \cap loopSteps : x \notin LoopBody(plan, l)
  BY <1>5, <1>9
<1>11. ASSUME NEW x, NEW l \in region(i) \cap loopSteps, NEW m \in region(j) \cap loopSteps,
              x \in LoopBody(plan, l), x \in LoopBody(plan, m)
       PROVE  FALSE
  <2>1. m \in From(edges, x, None) BY <1>5, <1>11
  <2>2. m \in From(edges, l, None) BY <1>5, <1>6, <1>11, <2>1
  <2> QED BY <1>4, <1>9, <2>2
<1> QED BY <1>3, <1>4, <1>10, <1>11

\* The join of a branch is inside of no route of a nested branch.
LEMMA JoinOutside ==
  ASSUME NEW plan, NEW edges, NEW all, Structured(plan, edges, all),
         NEW b \in OfKind(plan, "branch"), NEW i \in DOMAIN plan[b].routes,
         NEW d \in OfKind(plan, "branch"), NEW j \in DOMAIN plan[d].routes,
         d \in Inside(plan, <<b, i>>)
  PROVE  plan[b].join \notin Inside(plan, <<d, j>>) \cup {plan[d].join}
<1> DEFINE outer == plan[b].join
           inner == plan[d].join
<1>1. Forward(edges) /\ Graph(edges) /\ DOMAIN edges = DOMAIN plan /\ None \notin DOMAIN edges
  BY DEF Structured, Forward
<1>2. inner \in Inside(plan, <<b, i>>) /\ outer \notin Inside(plan, <<b, i>>)
  BY InsideFacts DEF OfKind
<1>3. outer \in From(edges, inner, None) /\ inner \in DOMAIN edges /\ outer # inner
  <2>1. Inside(plan, <<b, i>>) \subseteq DOMAIN plan BY InsideFacts
  <2> QED BY <1>1, <1>2, <2>1, InsideFacts
<1>4. inner \notin From(edges, outer, None) BY ONLY <1>1, <1>3, NoWayBack
<1>5. outer \notin Inside(plan, <<d, j>>) BY <1>4, InsideFacts
<1> QED BY <1>3, <1>5

\* What dominates a join dominates its branch: it is on one route at most, and
\* there is another.
LEMMA JoinDominators ==
  ASSUME NEW plan, NEW edges, NEW all, Structured(plan, edges, all),
         NEW b \in OfKind(plan, "branch"), NEW entry \in DOMAIN plan,
         NEW d \in Dominators(all, entry)[plan[b].join], d # plan[b].join
  PROVE  d \in Dominators(all, entry)[b]
<1> DEFINE join == plan[b].join
           dom == Dominators(all, entry)
<1>1. /\ Forward(edges) /\ Graph(edges) /\ DOMAIN edges = DOMAIN plan /\ None \notin DOMAIN edges
      /\ Graph(all) /\ DOMAIN all = DOMAIN edges
      /\ \A n \in DOMAIN edges : edges[n] \subseteq all[n]
  BY DEF Structured, Forward
<1>2. 1 \in DOMAIN plan[b].routes /\ 2 \in DOMAIN plan[b].routes
  <2>1. /\ DOMAIN plan[b].routes = 1 .. Len(plan[b].routes)
        /\ Len(plan[b].routes) \in 2 .. MaxRoutes
    BY DEF Structured, BranchResolves
  <2>2. \A n \in 2 .. MaxRoutes : 1 \in 1 .. n /\ 2 \in 1 .. n BY DEF MaxRoutes
  <2> QED BY ONLY <2>1, <2>2
<1>3. Region(plan, b, 1) \cap Region(plan, b, 2) = {} BY <1>2, RegionsApart
<1>4. PICK k \in {1, 2} : d \notin Region(plan, b, k) BY <1>3
<1> DEFINE target == plan[b].routes[k].target
           region == Region(plan, b, k)
<1>5. /\ join \in DOMAIN edges /\ b \in DOMAIN edges /\ target \in edges[b]
      /\ target \in DOMAIN edges /\ region = From(edges, target, join)
      /\ target \in region \cup {join} /\ join \in From(edges, target, None)
  BY <1>2, RegionFacts
<1>6. d \in dom[join] /\ d # join /\ d \notin region BY <1>4
<1>7. /\ dom \in [DOMAIN edges -> SUBSET DOMAIN edges] /\ \A n \in DOMAIN edges : n \in dom[n]
      /\ \A n, x \in DOMAIN edges : x \in dom[n] <=> x = n \/ n \notin From(all, entry, x)
  <2>1. /\ Dominators(all, entry) \in [DOMAIN all -> SUBSET DOMAIN all]
        /\ \A n \in DOMAIN all : n \in Dominators(all, entry)[n]
        /\ \A n, x \in DOMAIN all :
             x \in Dominators(all, entry)[n] <=> x = n \/ n \notin From(all, entry, x)
    BY ONLY <1>1, entry \in DOMAIN plan, Dominance, DominatorsDominate
  <2> QED BY <1>1, <2>1
<1>8. SUFFICES ASSUME d \notin dom[b] PROVE FALSE OBVIOUS
<1> HIDE DEF join, dom, target, region
<1>9. d \in DOMAIN edges /\ b \in From(all, entry, d) /\ join \notin From(all, entry, d)
  BY <1>5, <1>6, <1>7, <1>8
<1>10. join \in From(edges, target, d)
  <2>1. ASSUME d \in From(edges, target, None), join \in From(edges, d, None) PROVE FALSE
    <3>1. d \in From(edges, target, join) \/ d \in From(edges, join, None)
      BY ONLY <1>1, <1>5, <2>1, FromSplits
    <3>2. d \notin From(edges, join, None) BY ONLY <1>1, <1>6, <1>9, <2>1, NoWayBack
    <3> QED BY <1>5, <1>6, <3>1, <3>2
  <2> QED BY ONLY <1>1, <1>5, <1>9, <2>1, FromSplits
<1>11. From(edges, target, d) \subseteq From(all, target, d) BY ONLY <1>1, <1>5, FromGrows
<1>12. target \in From(all, entry, d)
  <2>1. all[b] \ {d} \subseteq From(all, entry, d)
    BY ONLY <1>1, <1>9, entry \in DOMAIN plan, FromIsClosed
  <2> QED BY <1>1, <1>5, <1>6, <2>1
<1>13. From(all, target, d) \subseteq From(all, entry, d)
  BY ONLY <1>1, <1>12, entry \in DOMAIN plan, FromGoesOn
<1> QED BY <1>9, <1>10, <1>11, <1>13

-----------------------------------------------------------------------------
(* What is accepted has routes that nest and variables that are captured.     *)

\* The program of an iteration that has branches.
LEMMA NestedIsStructured ==
  ASSUME NEW p, ProgramSound(p), ProgramBounded(p), NEW bindings, ProgramNested(p, bindings),
         OfKind(p.plan, "branch") # {}
  PROVE  Structured(p.plan, Edges(p.plan, FALSE), Edges(p.plan, TRUE))
<1> DEFINE plan == p.plan
           edges == Edges(plan, FALSE)
           all == Edges(plan, TRUE)
<1>1. Forward(edges) /\ DOMAIN edges = DOMAIN plan /\ EdgesOf(plan, edges) BY SoundIsForward
<1>2. Graph(all) /\ DOMAIN all = DOMAIN plan BY SoundIsGraph
<1>3. /\ None \notin DOMAIN plan
      /\ LoopsBounded(plan) /\ BranchesStructured(plan)
      /\ \A b \in OfKind(plan, "branch") :
           BranchResolves(plan, plan[b]) /\ DOMAIN plan[b].routes = 1 .. Len(plan[b].routes)
  BY DEF ProgramNested
<1>4. \A n \in DOMAIN plan :
        /\ edges[n] = Successors(plan[n], FALSE) \ {None}
        /\ all[n] = Successors(plan[n], TRUE) \ {None}
  BY DEF Edges
<1>5. \A n \in DOMAIN plan :
        /\ plan[n].kind = "loop" => Successors(plan[n], TRUE) = Successors(plan[n], FALSE) \cup {plan[n].body}
        /\ plan[n].kind # "loop" => Successors(plan[n], TRUE) = Successors(plan[n], FALSE)
        /\ plan[n].kind = "branch" => Successors(plan[n], FALSE) = RouteTargets(plan[n])
  BY DEF Successors
<1>6. \A l \in OfKind(plan, "loop") : l \in DOMAIN plan /\ plan[l].kind = "loop" /\ plan[l].body \in DOMAIN plan
  BY DEF OfKind, ProgramBounded
<1>7. \A b \in OfKind(plan, "branch") :
        b \in DOMAIN plan /\ plan[b].kind = "branch" /\ RouteTargets(plan[b]) \subseteq DOMAIN plan
  BY <1>3 DEF OfKind, BranchResolves, RouteTargets
<1> HIDE DEF edges, all, plan
<1>8. \A n \in DOMAIN plan :
        /\ edges[n] \subseteq all[n]
        /\ all[n] \subseteq edges[n] \cup {m \in {plan[n].body} : plan[n].kind = "loop"}
  BY <1>4, <1>5
<1>9. \A n \in OfKind(plan, "loop") : plan[n].body \in all[n] BY <1>3, <1>4, <1>5, <1>6
<1>10. ASSUME NEW b \in OfKind(plan, "branch") PROVE edges[b] = RouteTargets(plan[b])
  <2>1. edges[b] = RouteTargets(plan[b]) \ {None} BY <1>4, <1>5, <1>7
  <2>2. None \notin RouteTargets(plan[b]) BY <1>3, <1>7
  <2> DEFINE targets == RouteTargets(plan[b])
             none == None
  <2> HIDE DEF targets, none
  <2>3. edges[b] = targets \ {none} /\ none \notin targets BY <2>1, <2>2 DEF targets, none
  <2> QED BY ONLY <2>3 DEF targets
<1>11. edges = Edges(plan, FALSE) /\ all = Edges(plan, TRUE) BY DEF edges, all
<1>12. Structured(plan, edges, all)
  BY ONLY <1>1, <1>2, <1>3, <1>8, <1>9, <1>10, <1>11 DEF Structured
<1> QED BY <1>12 DEF plan, edges, all

\* Only requests capture, in one of the two scopes.
CapturesKnown(step) ==
  \A k \in DOMAIN step.captures :
    step.kind = "request" /\ step.captures[k].scope \in {"iteration", "run"}

LEMMA CompiledKnown ==
  ASSUME NEW steps, NEW bindings, StepsAccepted(steps, bindings),
         NEW i \in DOMAIN steps
  PROVE  CapturesKnown(CompiledSteps(steps)[i])
<1> DEFINE s == CompiledSteps(steps)[i]
<1>1. /\ s.kind = IF IsAssertion(steps[i]) THEN "assert" ELSE Kind(steps[i])
      /\ s.captures = IF Kind(steps[i]) = "request" THEN CompiledCaptures(steps[i].captures)
                      ELSE <<>>
  BY DEF CompiledSteps
<1>2. \/ Kind(steps[i]) = "request" /\ RequestAccepted(steps[i])
      \/ Kind(steps[i]) = "delay"
      \/ IsAssertion(steps[i])
  BY DEF StepsAccepted
<1> HIDE DEF s
<1>3. CASE Kind(steps[i]) = "request"
  <2>1. ~IsAssertion(steps[i]) BY <1>3 DEF IsAssertion
  <2>2. CapturesAccepted(steps[i].captures) BY <1>2, <1>3, <2>1 DEF RequestAccepted
  <2>3. \A k \in DOMAIN s.captures : s.captures[k].scope \in {"iteration", "run"}
    BY <1>1, <1>3, <2>2 DEF CapturesAccepted
  <2> QED BY <1>1, <1>3, <2>1, <2>3 DEF CapturesKnown, s
<1>4. CASE Kind(steps[i]) # "request"
  <2>1. DOMAIN s.captures = {} BY <1>1, <1>4
  <2> QED BY <2>1 DEF CapturesKnown, s
<1> QED BY <1>3, <1>4

\* Both kinds of program have the steps that are compiled.
LEMMA StepsCapture ==
  ASSUME NEW c, EngineAccepts(c), IsSequence(StepsToRun(c)), NEW step, step = Program(c).step
  PROVE  /\ DOMAIN step = Ids(CompiledSteps(StepsToRun(c)))
         /\ \A n \in DOMAIN step : CapturesKnown(step[n])
<1> DEFINE compiled == CompiledSteps(StepsToRun(c))
<1>1. step = ById(compiled) BY DEF Program
<1>2. StepsAccepted(StepsToRun(c), c.bindings) BY DEF EngineAccepts
<1>3. IsSequence(compiled) BY <1>2, CompiledAre
<1>4. \A i \in DOMAIN compiled : CapturesKnown(compiled[i])
  <2>1. DOMAIN compiled = DOMAIN StepsToRun(c) BY DEF CompiledSteps
  <2> QED BY <1>2, <2>1, CompiledKnown
<1> HIDE DEF compiled
<1>5. /\ DOMAIN step = Ids(compiled)
      /\ \A n \in Ids(compiled) : \E i \in DOMAIN compiled : step[n] = compiled[i]
  BY <1>1, <1>3, IdsOfSequence
<1> QED BY <1>4, <1>5 DEF compiled

LEMMA PlanProgramIsNested ==
  ASSUME NEW c, c.plan # NoPlan, EngineAccepts(c),
         IsSequence(StepsToRun(c)), c.plan \in PlanRecord
  PROVE  ProgramNested(Program(c), c.bindings)
<1> DEFINE compiled == CompiledSteps(StepsToRun(c))
           plan == ById(c.plan.steps)
           step == ById(compiled)
           dominators == Dominators(Edges(plan, TRUE), c.plan.entry)
           branches == OfKind(plan, "branch")
           p == Program(c)
<1>1. p.plan = plan /\ p.step = step /\ p.entry = c.plan.entry BY DEF Program
<1>2. /\ StepsResolve(plan, compiled) /\ LoopsBounded(plan) /\ BranchesStructured(plan)
      /\ \A n \in DOMAIN plan : Given(n)
      /\ \A n \in DOMAIN step :
           step[n].kind = "request" => TemplatesDefined(step, n, c.bindings, dominators)
  BY DEF EngineAccepts, PlanAccepted, FlowAccepted
<1>3. DOMAIN p.step = Ids(compiled) /\ \A n \in DOMAIN p.step : CapturesKnown(p.step[n])
  BY StepsCapture
<1>4. c.plan.steps \in Seq(PlanStepRecord) BY DEF PlanRecord
<1> HIDE DEF compiled, plan, step, dominators, p
<1>5. \A n \in DOMAIN plan : plan[n] \in PlanStepRecord
  <2>1. IsSequence(c.plan.steps) BY <1>4, SequencesAre
  <2>2. \A n \in DOMAIN plan : \E i \in DOMAIN c.plan.steps : plan[n] = c.plan.steps[i]
    BY <2>1, IdsOfSequence DEF plan
  <2>3. \A i \in DOMAIN c.plan.steps : c.plan.steps[i] \in PlanStepRecord BY <1>4
  <2> QED BY <2>2, <2>3
<1>6. \A b \in branches :
        BranchResolves(plan, plan[b]) /\ DOMAIN plan[b].routes = 1 .. Len(plan[b].routes)
  <2> SUFFICES ASSUME NEW b \in branches
               PROVE  BranchResolves(plan, plan[b]) /\ DOMAIN plan[b].routes = 1 .. Len(plan[b].routes)
    OBVIOUS
  <2>1. b \in DOMAIN plan /\ plan[b].kind = "branch" BY DEF OfKind
  <2>2. BranchResolves(plan, plan[b]) BY <1>2, <2>1 DEF StepsResolve
  <2>3. plan[b].routes \in Seq(RouteRecord) BY <1>5, <2>1 DEF PlanStepRecord
  <2>4. DOMAIN plan[b].routes = 1 .. Len(plan[b].routes) BY <2>3, SequencesAre DEF IsSequence
  <2> QED BY <2>2, <2>4
<1>7. None \notin DOMAIN plan BY <1>2 DEF Given
<1>8. DOMAIN step = OfKind(plan, "step") BY <1>1, <1>2, <1>3 DEF StepsResolve
<1>9. \A n \in DOMAIN step : \A k \in DOMAIN step[n].captures :
        step[n].kind = "request" /\ step[n].captures[k].scope \in {"iteration", "run"}
  BY <1>1, <1>3 DEF CapturesKnown
<1>10. ProgramNested(p, c.bindings)
  BY ONLY <1>1, <1>2, <1>6, <1>7, <1>8, <1>9 DEF ProgramNested, dominators
<1> QED BY <1>10 DEF p

LEMMA LinearProgramIsNested ==
  ASSUME NEW c, c.plan = NoPlan, EngineAccepts(c), IsSequence(StepsToRun(c))
  PROVE  ProgramNested(Program(c), c.bindings)
<1> DEFINE compiled == CompiledSteps(StepsToRun(c))
           plan == InOrder(compiled)
           step == ById(compiled)
           edges == Edges(plan, TRUE)
           dominators == Dominators(edges, compiled[1].id)
           p == Program(c)
<1>1. p.plan = plan /\ p.step = step /\ p.entry = compiled[1].id BY DEF Program
<1>2. IsSequence(compiled) /\ UniqueIds(compiled) /\ Len(compiled) >= 1
  BY CompiledAre DEF EngineAccepts
<1>3. \A i \in DOMAIN compiled : compiled[i].kind = "request" =>
        compiled[i].uses \subseteq
          c.bindings \cup UNION {Captured(compiled[j]) : j \in 1 .. i - 1}
  BY DEF EngineAccepts, LinearAccepted
<1>4. DOMAIN p.step = Ids(compiled) /\ \A n \in DOMAIN p.step : CapturesKnown(p.step[n])
  BY StepsCapture
<1> HIDE DEF compiled, step, p
<1>5. DOMAIN plan = Ids(compiled) /\ \A n \in DOMAIN plan : plan[n].kind = "step"
  BY <1>2, InOrderIs
<1>6. \A i \in DOMAIN compiled : \A j \in 1 .. i : compiled[j].id \in dominators[compiled[i].id]
  BY <1>2, EarlierDominate
<1>7. Acyclic(edges) BY <1>2, InOrderIsAcyclic
<1>8. \A i \in DOMAIN compiled : compiled[i].id \in DOMAIN step /\ step[compiled[i].id] = compiled[i]
  BY <1>1, <1>2, <1>4, IdOfStep DEF step
<1>9. DOMAIN compiled = 1 .. Len(compiled) /\ Len(compiled) \in Nat BY <1>2 DEF IsSequence
<1> HIDE DEF plan, dominators
<1>10. Edges(plan, FALSE) = Edges(plan, TRUE)
  <2>1. \A n \in DOMAIN plan : Successors(plan[n], FALSE) = Successors(plan[n], TRUE)
    BY <1>5 DEF Successors
  <2> QED BY <2>1 DEF Edges
<1>11. OfKind(plan, "loop") = {} /\ OfKind(plan, "branch") = {} /\ OfKind(plan, "join") = {}
       /\ OfKind(plan, "step") = DOMAIN plan
  BY <1>5 DEF OfKind
<1>12. LoopsBounded(plan) BY <1>7, <1>10, <1>11 DEF LoopsBounded
<1>13. BranchesStructured(plan) BY <1>11 DEF BranchesStructured
<1>14. ASSUME NEW n \in DOMAIN step, step[n].kind = "request"
       PROVE  TemplatesDefined(step, n, c.bindings, dominators)
  <2>1. PICK i \in DOMAIN compiled : n = compiled[i].id BY <1>1, <1>4, <1>14 DEF Ids
  <2>2. step[n] = compiled[i] BY <1>8, <2>1
  <2> SUFFICES ASSUME NEW name \in step[n].uses \ c.bindings
               PROVE  \E producer \in (dominators[n] \cap DOMAIN step) \ {n} : name \in Captured(step[producer])
    BY DEF TemplatesDefined
  <2>3. PICK j \in 1 .. i - 1 : name \in Captured(compiled[j]) BY <1>3, <1>14, <2>2
  <2>4. j \in 1 .. i /\ j \in DOMAIN compiled /\ j # i BY <1>9
  <2> DEFINE producer == compiled[j].id
  <2>5. producer \in dominators[n] /\ producer \in DOMAIN step BY <1>6, <1>8, <2>1, <2>4
  <2>6. producer # n BY <1>2, <2>1, <2>4 DEF UniqueIds
  <2>7. name \in Captured(step[producer]) BY <1>8, <2>3, <2>4
  <2> HIDE DEF producer
  <2> QED BY <2>5, <2>6, <2>7
<1>15. DOMAIN step = OfKind(plan, "step") BY <1>1, <1>4, <1>5, <1>11
<1>16. \A n \in DOMAIN step : \A k \in DOMAIN step[n].captures :
         step[n].kind = "request" /\ step[n].captures[k].scope \in {"iteration", "run"}
  BY <1>1, <1>4 DEF CapturesKnown
<1>17. ProgramNested(p, c.bindings)
  BY ONLY <1>1, <1>11, <1>12, <1>13, <1>14, <1>15, <1>16 DEF ProgramNested, dominators, edges
<1> QED BY <1>17 DEF p

LEMMA AcceptedIsNested ==
  ASSUME NEW r \in RequestRecord, EngineAccepts(NormalConfig(r))
  PROVE  ProgramNested(Program(NormalConfig(r)), NormalConfig(r).bindings)
<1> DEFINE c == NormalConfig(r)
<1>1. IsSequence(StepsToRun(c)) BY StepsAreSequences
<1>2. c.plan \in PlanRecord BY NormalKeeps DEF RequestRecord
<1> HIDE DEF c
<1>3. EngineAccepts(c) BY DEF c
<1>4. ProgramNested(Program(c), c.bindings)
  BY <1>1, <1>2, <1>3, LinearProgramIsNested, PlanProgramIsNested
<1> QED BY <1>4 DEF c

-----------------------------------------------------------------------------
(* The routes that are open, on the way from step to step.                    *)

\* Routes that are open at step n, as FramesOK has it.
FramesFit(plan, all, entry, open, n) ==
  /\ open \in Seq(Keys(plan))
  /\ \A i \in DOMAIN open : n \in Inside(plan, open[i]) \cup {plan[open[i][1]].join}
  /\ \A i, j \in DOMAIN open : i < j => open[j][1] \in Inside(plan, open[i])
  /\ \A b \in OfKind(plan, "branch") :
       \/ n = b \/ \E i \in DOMAIN open : open[i][1] = b
       \/ \E start \in {entry} \cup all[plan[b].join] : n \in From(all, start, b)

LEMMA KeysAre ==
  ASSUME NEW plan
  PROVE  /\ \A key \in Keys(plan) :
              /\ key = <<key[1], key[2]>> /\ key[1] \in OfKind(plan, "branch")
              /\ key[2] \in DOMAIN plan[key[1]].routes
         /\ \A b \in OfKind(plan, "branch") : \A i \in DOMAIN plan[b].routes : <<b, i>> \in Keys(plan)
BY DEF Keys

\* What holds inside of any route, and of two routes one of which is in the other.
LEMMA KeyFacts ==
  ASSUME NEW plan, NEW edges, NEW all, Structured(plan, edges, all), NEW key \in Keys(plan),
         NEW inside, inside = Inside(plan, key), NEW b, b = key[1], NEW join, join = plan[b].join
  PROVE  /\ join \notin inside /\ join \in DOMAIN plan /\ plan[join].kind = "join"
         /\ b \notin inside /\ inside \subseteq DOMAIN plan
         /\ b \in DOMAIN plan /\ plan[b].kind = "branch" /\ b \in OfKind(plan, "branch")
         /\ \A x \in inside : /\ all[x] \subseteq inside \cup {join}
                              /\ join \in From(all, x, b)
         /\ \A other \in Keys(plan) :
              other[1] \in inside => join \notin Inside(plan, other) \cup {plan[other[1]].join}
<1>1. key = <<key[1], key[2]>> /\ b \in OfKind(plan, "branch") /\ key[2] \in DOMAIN plan[b].routes
  BY KeysAre
<1>2. inside = Inside(plan, <<b, key[2]>>) BY <1>1
<1>3. b \in DOMAIN plan /\ plan[b].kind = "branch" BY <1>1 DEF OfKind
<1>4. join \in DOMAIN plan /\ plan[join].kind = "join"
  <2>1. BranchResolves(plan, plan[b]) BY <1>1 DEF Structured
  <2> QED BY <2>1 DEF BranchResolves
<1>5. /\ join \notin inside /\ b \notin inside /\ inside \subseteq DOMAIN plan
      /\ \A x \in inside : all[x] \subseteq inside \cup {join} /\ join \in From(all, x, b)
  BY ONLY <1>1, <1>2, Structured(plan, edges, all), join = plan[b].join, InsideFacts
<1>6. ASSUME NEW other \in Keys(plan), other[1] \in inside
      PROVE  join \notin Inside(plan, other) \cup {plan[other[1]].join}
  <2>1. other = <<other[1], other[2]>> /\ other[1] \in OfKind(plan, "branch")
        /\ other[2] \in DOMAIN plan[other[1]].routes
    BY KeysAre
  <2> DEFINE d == other[1]
             j == other[2]
  <2>2. other = <<d, j>> BY <2>1
  <2> HIDE DEF d, j
  <2>3. d \in OfKind(plan, "branch") /\ j \in DOMAIN plan[d].routes /\ d \in inside
    BY <1>6, <2>1 DEF d, j
  <2>4. plan[b].join \notin Inside(plan, <<d, j>>) \cup {plan[d].join}
    BY ONLY <1>1, <1>2, <2>3, Structured(plan, edges, all), JoinOutside
  <2> QED BY <2>2, <2>4 DEF d
<1> QED BY <1>1, <1>3, <1>4, <1>5, <1>6

\* At the start of an iteration.
LEMMA FitsAtEntry ==
  ASSUME NEW plan, NEW all, Graph(all), NEW entry \in DOMAIN all
  PROVE  FramesFit(plan, all, entry, <<>>, entry)
<1>1. ASSUME NEW b, entry # b PROVE entry \in From(all, entry, b)
  BY ONLY <1>1, Graph(all), entry \in DOMAIN all, FromIsClosed
<1> QED BY <1>1 DEF FramesFit

\* A branch that is not open stays so on the way to its next step.
LEMMA NotMetYet ==
  ASSUME NEW plan, NEW edges, NEW all, Structured(plan, edges, all), NEW entry \in DOMAIN plan,
         NEW b \in OfKind(plan, "branch"), NEW start \in {entry} \cup all[plan[b].join],
         NEW n \in From(all, start, b), NEW m \in all[n]
  PROVE  m = b \/ m \in From(all, start, b)
<1>1. Graph(all) /\ DOMAIN all = DOMAIN plan BY DEF Structured
<1>2. plan[b].join \in DOMAIN plan BY DEF Structured, BranchResolves
<1>3. start \in DOMAIN all BY <1>1, <1>2 DEF Graph
<1>4. all[n] \ {b} \subseteq From(all, start, b)
  BY ONLY <1>1, <1>3, n \in From(all, start, b), FromIsClosed
<1> QED BY <1>4

\* On to a step that is neither a branch nor a join.
LEMMA FitsOn ==
  ASSUME NEW plan, NEW edges, NEW all, Structured(plan, edges, all), NEW entry \in DOMAIN plan,
         NEW open, NEW n \in DOMAIN plan, FramesFit(plan, all, entry, open, n),
         plan[n].kind \notin {"branch", "join"}, NEW m \in all[n]
  PROVE  FramesFit(plan, all, entry, open, m)
<1>1. open \in Seq(Keys(plan)) /\ \A i \in DOMAIN open : open[i] \in Keys(plan)
  BY DEF FramesFit
<1>2. ASSUME NEW i \in DOMAIN open PROVE m \in Inside(plan, open[i]) \cup {plan[open[i][1]].join}
  <2> DEFINE key == open[i]
             inside == Inside(plan, key)
             join == plan[key[1]].join
  <2>1. n \in inside \cup {join} BY DEF FramesFit
  <2>2. plan[join].kind = "join" /\ \A x \in inside : all[x] \subseteq inside \cup {join}
    BY <1>1, KeyFacts
  <2> HIDE DEF inside, join
  <2>3. n \in inside BY <2>1, <2>2
  <2>4. m \in inside \cup {join} BY <2>2, <2>3
  <2> QED BY <2>4 DEF inside, join
<1>3. ASSUME NEW b \in OfKind(plan, "branch")
      PROVE  \/ m = b \/ \E i \in DOMAIN open : open[i][1] = b
             \/ \E start \in {entry} \cup all[plan[b].join] : m \in From(all, start, b)
  <2>1. n # b BY DEF OfKind
  <2>2. \/ \E i \in DOMAIN open : open[i][1] = b
        \/ \E start \in {entry} \cup all[plan[b].join] : n \in From(all, start, b)
    BY <2>1 DEF FramesFit
  <2> QED BY <2>2, NotMetYet
<1> QED BY <1>1, <1>2, <1>3 DEF FramesFit

\* Into a route of a branch that is not open.
LEMMA FitsIn ==
  ASSUME NEW plan, NEW edges, NEW all, Structured(plan, edges, all), NEW entry \in DOMAIN plan,
         NEW open, NEW n \in OfKind(plan, "branch"), FramesFit(plan, all, entry, open, n),
         NEW r \in DOMAIN plan[n].routes, NEW m, m = plan[n].routes[r].target
  PROVE  /\ FramesFit(plan, all, entry, Append(open, <<n, r>>), m)
         /\ \A i \in DOMAIN open : open[i] # <<n, r>>
         /\ m \in all[n]
<1> DEFINE key == <<n, r>>
           more == Append(open, key)
<1>1. /\ open \in Seq(Keys(plan)) /\ key \in Keys(plan)
      /\ n \in DOMAIN plan /\ plan[n].kind = "branch"
  BY KeysAre DEF FramesFit, OfKind
<1> HIDE DEF key
<1>2. /\ more \in Seq(Keys(plan)) /\ DOMAIN more = 1 .. Len(open) + 1
      /\ DOMAIN open = 1 .. Len(open) /\ Len(open) \in Nat
      /\ more[Len(open) + 1] = key
      /\ \A i \in DOMAIN open : more[i] = open[i] /\ open[i] \in Keys(plan)
  BY <1>1
<1> HIDE DEF more
<1>3. key[1] = n /\ m \in Inside(plan, key) \cup {plan[n].join} /\ m \in all[n]
  <2>1. plan[n].routes[r].target \in Inside(plan, <<n, r>>) \cup {plan[n].join} BY InsideFacts
  <2>2. m \in edges[n] BY RegionFacts
  <2>3. m \in all[n] BY <1>1, <2>2 DEF Structured
  <2> QED BY <2>1, <2>3 DEF key
<1>4. ASSUME NEW i \in DOMAIN open
      PROVE  /\ n \in Inside(plan, open[i])
             /\ m \in Inside(plan, open[i]) \cup {plan[open[i][1]].join}
             /\ open[i] # key
  <2> DEFINE inside == Inside(plan, open[i])
             join == plan[open[i][1]].join
  <2>1. n \in inside \cup {join} BY DEF FramesFit
  <2>2. /\ plan[join].kind = "join" /\ open[i][1] \notin inside
        /\ \A x \in inside : all[x] \subseteq inside \cup {join}
    BY <1>2, KeyFacts
  <2> HIDE DEF inside, join
  <2>3. n \in inside BY <1>1, <2>1, <2>2
  <2>4. m \in inside \cup {join} BY <1>3, <2>2, <2>3
  <2>5. open[i] # key BY <1>3, <2>2, <2>3
  <2> QED BY <2>3, <2>4, <2>5 DEF inside, join
<1>5. \A i \in DOMAIN more : i \in DOMAIN open \/ i = Len(open) + 1 BY <1>2
<1>6. \A i \in DOMAIN more : m \in Inside(plan, more[i]) \cup {plan[more[i][1]].join}
  BY <1>2, <1>3, <1>4, <1>5
<1>7. ASSUME NEW i \in DOMAIN more, NEW j \in DOMAIN more, i < j
      PROVE  more[j][1] \in Inside(plan, more[i])
  <2>1. i \in DOMAIN open BY <1>2, <1>7
  <2>2. CASE j \in DOMAIN open BY <1>2, <1>7, <2>1, <2>2 DEF FramesFit
  <2>3. CASE j = Len(open) + 1 BY <1>2, <1>3, <1>4, <2>1, <2>3
  <2> QED BY <1>5, <2>2, <2>3
<1>8. ASSUME NEW b \in OfKind(plan, "branch")
      PROVE  \/ m = b \/ \E i \in DOMAIN more : more[i][1] = b
             \/ \E start \in {entry} \cup all[plan[b].join] : m \in From(all, start, b)
  <2>1. CASE b = n
    <3>1. Len(open) + 1 \in DOMAIN more BY <1>2
    <3> QED BY <1>2, <1>3, <2>1, <3>1
  <2>2. CASE b # n
    <3>1. \/ \E i \in DOMAIN open : open[i][1] = b
          \/ \E start \in {entry} \cup all[plan[b].join] : n \in From(all, start, b)
      BY <2>2 DEF FramesFit
    <3>2. \A i \in DOMAIN open : i \in DOMAIN more BY <1>2
    <3> QED BY <1>2, <1>3, <3>1, <3>2, NotMetYet
  <2> QED BY <2>1, <2>2
<1>9. FramesFit(plan, all, entry, more, m) BY <1>2, <1>6, <1>7, <1>8 DEF FramesFit
<1> QED BY <1>3, <1>4, <1>9 DEF more, key

\* Out of the innermost route at its join.
LEMMA FitsOut ==
  ASSUME NEW plan, NEW edges, NEW all, Structured(plan, edges, all), NEW entry \in DOMAIN plan,
         NEW open, NEW n \in DOMAIN plan, FramesFit(plan, all, entry, open, n),
         plan[n].kind = "join", open # <<>>, plan[open[Len(open)][1]].join = n, NEW m \in all[n]
  PROVE  FramesFit(plan, all, entry, SubSeq(open, 1, Len(open) - 1), m)
<1> DEFINE last == Len(open)
           less == SubSeq(open, 1, last - 1)
           top == open[last]
<1>1. /\ open \in Seq(Keys(plan)) /\ DOMAIN open = 1 .. last /\ last \in Nat \ {0}
      /\ \A i \in DOMAIN open : open[i] \in Keys(plan)
  BY DEF FramesFit
<1>2. /\ less \in Seq(Keys(plan)) /\ DOMAIN less = 1 .. last - 1
      /\ \A i \in DOMAIN less : less[i] = open[i] /\ i \in DOMAIN open /\ i < last
  BY <1>1
<1>3. last \in DOMAIN open /\ top \in Keys(plan) /\ plan[top[1]].join = n BY <1>1
<1> HIDE DEF last, less
<1>4. ASSUME NEW i \in DOMAIN less PROVE m \in Inside(plan, less[i]) \cup {plan[less[i][1]].join}
  <2> DEFINE key == open[i]
             inside == Inside(plan, key)
             join == plan[key[1]].join
  <2>1. n \in inside \cup {join} BY <1>2 DEF FramesFit
  <2>2. top[1] \in inside BY <1>2, <1>3 DEF FramesFit
  <2>3. /\ \A x \in inside : all[x] \subseteq inside \cup {join}
        /\ \A other \in Keys(plan) :
             other[1] \in inside => join \notin Inside(plan, other) \cup {plan[other[1]].join}
    BY <1>1, <1>2, KeyFacts
  <2> HIDE DEF inside, join, top
  <2>4. n # join BY <1>3, <2>2, <2>3
  <2>5. m \in inside \cup {join} BY <2>1, <2>3, <2>4
  <2> QED BY <1>2, <2>5 DEF inside, join
<1>5. \A i, j \in DOMAIN less : i < j => less[j][1] \in Inside(plan, less[i])
  BY <1>2 DEF FramesFit
<1>6. ASSUME NEW b \in OfKind(plan, "branch")
      PROVE  \/ m = b \/ \E i \in DOMAIN less : less[i][1] = b
             \/ \E start \in {entry} \cup all[plan[b].join] : m \in From(all, start, b)
  <2>1. CASE b = top[1]
    <3>1. m \in all[plan[b].join] BY <1>3, <2>1
    <3>2. Graph(all) /\ m \in DOMAIN all BY DEF Structured, Graph
    <3>3. m # b => m \in From(all, m, b) BY ONLY <3>2, FromIsClosed
    <3> QED BY <3>1, <3>3
  <2>2. CASE b # top[1]
    <3>1. n # b BY DEF OfKind
    <3>2. \/ \E i \in DOMAIN open : open[i][1] = b
          \/ \E start \in {entry} \cup all[plan[b].join] : n \in From(all, start, b)
      BY <3>1 DEF FramesFit
    <3>3. CASE \E i \in DOMAIN open : open[i][1] = b
      <4>1. PICK i \in DOMAIN open : open[i][1] = b BY <3>3
      <4>2. i # last BY <2>2, <4>1
      <4>3. i \in DOMAIN less BY <1>1, <1>2, <4>2
      <4> QED BY <1>2, <4>1, <4>3
    <3>4. CASE \E start \in {entry} \cup all[plan[b].join] : n \in From(all, start, b)
      BY <3>4, NotMetYet
    <3> QED BY <3>2, <3>3, <3>4
  <2> QED BY <2>1, <2>2
<1>7. FramesFit(plan, all, entry, less, m) BY <1>2, <1>4, <1>5, <1>6 DEF FramesFit
<1> QED BY <1>7 DEF less, last

\* The innermost open route is the only one that may join where the run is.
LEMMA OnlyTopJoins ==
  ASSUME NEW plan, NEW edges, NEW all, Structured(plan, edges, all), NEW entry,
         NEW open, NEW n, FramesFit(plan, all, entry, open, n),
         NEW i \in DOMAIN open, plan[open[i][1]].join = n
  PROVE  open # <<>> /\ i = Len(open)
<1>1. /\ DOMAIN open = 1 .. Len(open) /\ Len(open) \in Nat
      /\ \A j \in DOMAIN open : open[j] \in Keys(plan)
  BY DEF FramesFit
<1>2. ASSUME i # Len(open) PROVE FALSE
  <2> DEFINE last == Len(open)
  <2>1. last \in DOMAIN open /\ i < last BY <1>1, <1>2
  <2>2. /\ open[last][1] \in Inside(plan, open[i])
        /\ n \in Inside(plan, open[last]) \cup {plan[open[last][1]].join}
    BY <2>1 DEF FramesFit
  <2>3. \A other \in Keys(plan) :
          other[1] \in Inside(plan, open[i]) =>
            plan[open[i][1]].join \notin Inside(plan, other) \cup {plan[other[1]].join}
    BY <1>1, KeyFacts
  <2> HIDE DEF last
  <2> QED BY <1>1, <2>1, <2>2, <2>3
<1>3. open # <<>> BY <1>1
<1> QED BY <1>2, <1>3

\* Where every join has its branch open, that of a join is the innermost.
LEMMA JoinOfTop ==
  ASSUME NEW plan, NEW edges, NEW all, Structured(plan, edges, all), NEW entry,
         NEW open, NEW n \in DOMAIN plan, FramesFit(plan, all, entry, open, n),
         plan[n].kind = "join", ~JoinsUnopened(plan, entry)
  PROVE  open # <<>> /\ plan[open[Len(open)][1]].join = n
<1>1. PICK b \in OfKind(plan, "branch") : plan[b].join = n
  <2>1. n \in OfKind(plan, "join") BY DEF OfKind
  <2> QED BY <2>1 DEF Structured, BranchesStructured
<1>2. n # b BY <1>1 DEF OfKind
<1>3. \A start \in {entry} \cup all[n] : n \notin From(all, start, b)
  BY <1>1 DEF JoinsUnopened, Structured
<1>4. PICK i \in DOMAIN open : open[i][1] = b BY <1>1, <1>2, <1>3 DEF FramesFit
<1>5. plan[open[i][1]].join = n BY <1>1, <1>4
<1>6. open # <<>> /\ i = Len(open) BY <1>5, OnlyTopJoins
<1> QED BY <1>5, <1>6

\* And what is open is what the step lies in, or joins.
LEMMA OpenIsInside ==
  ASSUME NEW plan, NEW edges, NEW all, Structured(plan, edges, all), NEW entry \in DOMAIN plan,
         NEW open, NEW n, FramesFit(plan, all, entry, open, n), ~JoinsUnopened(plan, entry)
  PROVE  {open[i] : i \in DOMAIN open} =
           {key \in Keys(plan) :
             \/ n \in Inside(plan, key)
             \/ n = plan[key[1]].join /\ open # <<>> /\ key = open[Len(open)]}
<1>1. /\ DOMAIN open = 1 .. Len(open) /\ Len(open) \in Nat
      /\ \A j \in DOMAIN open : open[j] \in Keys(plan)
  BY DEF FramesFit
<1>2. ASSUME NEW i \in DOMAIN open
      PROVE  \/ n \in Inside(plan, open[i])
             \/ n = plan[open[i][1]].join /\ open # <<>> /\ open[i] = open[Len(open)]
  <2>1. n \in Inside(plan, open[i]) \cup {plan[open[i][1]].join} BY DEF FramesFit
  <2> QED BY <2>1, OnlyTopJoins
<1>3. ASSUME NEW key \in Keys(plan), n \in Inside(plan, key)
      PROVE  \E i \in DOMAIN open : open[i] = key
  <2> DEFINE b == key[1]
             r == key[2]
             join == plan[b].join
  <2>1. key = <<b, r>> /\ b \in OfKind(plan, "branch") /\ r \in DOMAIN plan[b].routes BY KeysAre
  <2>2. /\ join \notin Inside(plan, key) /\ b \notin Inside(plan, key) /\ join \in From(all, n, b)
        /\ join \in DOMAIN plan
    BY <1>3, KeyFacts
  <2> HIDE DEF b, r, join
  <2>3. ASSUME NEW start \in {entry} \cup all[join], n \in From(all, start, b) PROVE FALSE
    <3>1. Graph(all) /\ start \in DOMAIN all BY <2>2, <2>3 DEF Structured, Graph
    <3>2. From(all, n, b) \subseteq From(all, start, b) BY ONLY <2>3, <3>1, FromGoesOn
    <3> QED BY <2>1, <2>2, <2>3, <3>2 DEF JoinsUnopened, Structured, join
  <2>4. n # b BY <1>3, <2>2
  <2>5. PICK i \in DOMAIN open : open[i][1] = b BY <2>1, <2>3, <2>4 DEF FramesFit, join
  <2>6. n \in Inside(plan, open[i])
    <3>1. n \in Inside(plan, open[i]) \cup {plan[open[i][1]].join} BY DEF FramesFit
    <3>2. n # join BY <1>3, <2>2
    <3> QED BY <2>5, <3>1, <3>2 DEF join
  <2>7. open[i] = <<b, open[i][2]>> /\ open[i][2] \in DOMAIN plan[b].routes
    BY <1>1, <2>5, KeysAre
  <2> DEFINE s == open[i][2]
  <2> HIDE DEF s
  <2>8. n \in Inside(plan, <<b, s>>) /\ n \in Inside(plan, <<b, r>>) /\ s \in DOMAIN plan[b].routes
    BY <1>3, <2>1, <2>6, <2>7 DEF s
  <2>9. s = r BY ONLY <2>1, <2>8, Structured(plan, edges, all), InsideApart
  <2> QED BY <2>1, <2>7, <2>9 DEF s
<1>4. ASSUME open # <<>> PROVE Len(open) \in DOMAIN open BY <1>1, <1>4
<1> QED BY <1>1, <1>2, <1>3, <1>4

LEMMA FitsWithoutBranches ==
  ASSUME NEW plan, OfKind(plan, "branch") = {}, NEW all, NEW entry, NEW open, NEW n
  PROVE  FramesFit(plan, all, entry, open, n) <=> open = <<>>
<1>1. Keys(plan) = {} BY DEF Keys
<1>2. ASSUME open \in Seq({}) PROVE open = <<>>
  <2>1. \A i \in DOMAIN open : open[i] \in {} BY <1>2
  <2> QED BY <1>2, <2>1
<1>3. FramesFit(plan, all, entry, <<>>, n) BY DEF FramesFit
<1> QED BY <1>1, <1>2, <1>3 DEF FramesFit

-----------------------------------------------------------------------------
(* workerVariables.                                                          *)

\* KnownIn and ValuesOK of a step about to run.
Known(vals, open, k) ==
  vals.iteration \cup vals.run
    \cup UNION {vals.branchIteration[open[i]] \cup vals.branchRun[open[i]] : i \in 1 .. k}

ValuesFit(step, dominators, open, vals, gone, n) ==
  \A r \in DOMAIN step :
    /\ r \in dominators[n] \ {n} => Captured(step[r]) \subseteq gone \cup Known(vals, open, Len(open))
    /\ \A k \in DOMAIN open :
         r \in dominators[open[k][1]] => Captured(step[r]) \subseteq gone \cup Known(vals, open, k - 1)

ValuesShape(vals, keys) ==
  vals = [iteration |-> vals.iteration, run |-> vals.run,
          branchIteration |-> [k \in keys |-> vals.branchIteration[k]],
          branchRun |-> [k \in keys |-> vals.branchRun[k]]]

\* One of them with these parts.
ValuesAre(vals, keys, i, r, bi, br) ==
  /\ ValuesShape(vals, keys)
  /\ vals.iteration = i /\ vals.run = r
  /\ \A k \in keys : vals.branchIteration[k] = bi[k] /\ vals.branchRun[k] = br[k]

Values(i, r, bi, br) == [iteration |-> i, run |-> r, branchIteration |-> bi, branchRun |-> br]

LEMMA OutsideUpdates ==
  ASSUME NEW keys, NEW vals, ValuesShape(vals, keys), NEW x, NEW y
  PROVE  /\ ValuesAre([vals EXCEPT !.iteration = x], keys,
                      x, vals.run, vals.branchIteration, vals.branchRun)
         /\ ValuesAre([vals EXCEPT !.iteration = x, !.run = y], keys,
                      x, y, vals.branchIteration, vals.branchRun)
<1> DEFINE b == vals.run
           c == [k \in keys |-> vals.branchIteration[k]]
           d == [k \in keys |-> vals.branchRun[k]]
           w == [vals EXCEPT !.iteration = x]
<1>1. vals = Values(vals.iteration, b, c, d) BY DEF ValuesShape, Values
<1>2. vals.branchIteration = c /\ vals.branchRun = d BY <1>1 DEF Values
<1> HIDE DEF b, c, d
<1>3. w = Values(x, b, c, d) BY <1>1 DEF Values
<1>4. [vals EXCEPT !.iteration = x, !.run = y] = [w EXCEPT !.run = y] BY <1>1 DEF Values
<1> HIDE DEF w
<1>5. [w EXCEPT !.run = y] = Values(x, y, c, d) BY ONLY <1>3 DEF Values
<1>6. \A i, r : ValuesAre(Values(i, r, c, d), keys, i, r, vals.branchIteration, vals.branchRun)
  BY <1>2 DEF ValuesAre, ValuesShape, Values, c, d
<1> QED BY <1>3, <1>4, <1>5, <1>6 DEF b, w

LEMMA FrameUpdates ==
  ASSUME NEW keys, NEW vals, ValuesShape(vals, keys), NEW x, NEW y, NEW key \in keys
  PROVE  /\ ValuesAre([vals EXCEPT !.branchIteration[key] = x], keys, vals.iteration, vals.run,
                      [vals.branchIteration EXCEPT ![key] = x], vals.branchRun)
         /\ ValuesAre([vals EXCEPT !.branchIteration[key] = x, !.branchRun[key] = y], keys,
                      vals.iteration, vals.run,
                      [vals.branchIteration EXCEPT ![key] = x], [vals.branchRun EXCEPT ![key] = y])
<1> DEFINE a == vals.iteration
           b == vals.run
           c == [k \in keys |-> vals.branchIteration[k]]
           d == [k \in keys |-> vals.branchRun[k]]
           cx == [c EXCEPT ![key] = x]
           dy == [d EXCEPT ![key] = y]
           w == [vals EXCEPT !.branchIteration[key] = x]
<1>1. vals = Values(a, b, c, d) BY DEF ValuesShape, Values
<1>2. vals.branchIteration = c /\ vals.branchRun = d BY <1>1 DEF Values
<1>3. /\ c = [k \in keys |-> c[k]] /\ d = [k \in keys |-> d[k]]
      /\ cx = [k \in keys |-> cx[k]] /\ dy = [k \in keys |-> dy[k]]
  OBVIOUS
<1> HIDE DEF a, b, c, d
<1>4. w = Values(a, b, cx, d) BY <1>1 DEF Values
<1>5. [vals EXCEPT !.branchIteration[key] = x, !.branchRun[key] = y] = [w EXCEPT !.branchRun[key] = y]
  BY <1>1 DEF Values
<1> HIDE DEF w, cx
<1>6. [w EXCEPT !.branchRun[key] = y] = Values(a, b, cx, dy) BY ONLY <1>4 DEF Values
<1> HIDE DEF dy
<1>7. \A bi, br : bi = [k \in keys |-> bi[k]] /\ br = [k \in keys |-> br[k]] =>
        ValuesAre(Values(a, b, bi, br), keys, a, b, bi, br)
  BY DEF ValuesAre, ValuesShape, Values
<1>8. ValuesAre(Values(a, b, cx, d), keys, a, b, cx, d) /\ ValuesAre(Values(a, b, cx, dy), keys, a, b, cx, dy)
  BY <1>3, <1>7
<1>9. cx = [vals.branchIteration EXCEPT ![key] = x] /\ dy = [vals.branchRun EXCEPT ![key] = y]
  BY <1>2 DEF cx, dy
<1> QED BY <1>2, <1>4, <1>5, <1>6, <1>8, <1>9 DEF a, b, w

LEMMA KnownIs ==
  ASSUME NEW vals, NEW open, NEW k, NEW x
  PROVE  x \in Known(vals, open, k) <=>
           \/ x \in vals.iteration \cup vals.run
           \/ \E i \in 1 .. k : x \in vals.branchIteration[open[i]] \cup vals.branchRun[open[i]]
BY DEF Known

\* On to a step, with what the one before it has captured or missed.
LEMMA ValuesGoOn ==
  ASSUME NEW all, Graph(all), NEW entry \in DOMAIN all, NEW n \in DOMAIN all, NEW m \in all[n],
         NEW step, NEW open, IsSequence(open), NEW vals, NEW gone, NEW later, NEW lost,
         ValuesFit(step, Dominators(all, entry), open, vals, gone, n),
         gone \subseteq lost,
         \A k \in 0 .. Len(open) : Known(vals, open, k) \subseteq lost \cup Known(later, open, k),
         n \in DOMAIN step => Captured(step[n]) \subseteq lost \cup Known(later, open, Len(open))
  PROVE  ValuesFit(step, Dominators(all, entry), open, later, lost, m)
<1> DEFINE dom == Dominators(all, entry)
<1>1. dom[m] \subseteq {m} \cup dom[n] BY Dominance
<1>2. DOMAIN open = 1 .. Len(open) /\ Len(open) \in Nat BY DEF IsSequence
<1> HIDE DEF dom
<1>3. \A r \in DOMAIN step :
        /\ r \in dom[n] \ {n} => Captured(step[r]) \subseteq gone \cup Known(vals, open, Len(open))
        /\ \A k \in DOMAIN open :
             r \in dom[open[k][1]] => Captured(step[r]) \subseteq gone \cup Known(vals, open, k - 1)
  BY DEF ValuesFit, dom
<1>4. \A k \in DOMAIN open : k - 1 \in 0 .. Len(open) BY <1>2
<1>5. Len(open) \in 0 .. Len(open) BY <1>2
<1>6. ASSUME NEW r \in DOMAIN step, r \in dom[m] \ {m}
      PROVE  Captured(step[r]) \subseteq lost \cup Known(later, open, Len(open))
  <2>1. CASE r = n BY <2>1
  <2>2. CASE r # n BY <1>1, <1>3, <1>5, <1>6, <2>2
  <2> QED BY <2>1, <2>2
<1>7. ASSUME NEW r \in DOMAIN step, NEW k \in DOMAIN open, r \in dom[open[k][1]]
      PROVE  Captured(step[r]) \subseteq lost \cup Known(later, open, k - 1)
  BY <1>3, <1>4, <1>7
<1>8. ValuesFit(step, dom, open, later, lost, m) BY <1>6, <1>7 DEF ValuesFit
<1> QED BY <1>8 DEF dom

\* Into a route, whose values of the iteration are cleared.
LEMMA ValuesGoIn ==
  ASSUME NEW all, Graph(all), NEW entry \in DOMAIN all, NEW n \in DOMAIN all, NEW m \in all[n],
         NEW step, n \notin DOMAIN step, NEW keys, NEW open \in Seq(keys), NEW key \in keys,
         key[1] = n, \A i \in DOMAIN open : open[i] # key,
         NEW vals, ValuesShape(vals, keys), NEW gone,
         ValuesFit(step, Dominators(all, entry), open, vals, gone, n),
         NEW later, later = [vals EXCEPT !.branchIteration[key] = {}]
  PROVE  /\ ValuesShape(later, keys)
         /\ ValuesFit(step, Dominators(all, entry), Append(open, key), later, gone, m)
<1> DEFINE dom == Dominators(all, entry)
           more == Append(open, key)
<1>1. dom[m] \subseteq {m} \cup dom[n] BY Dominance
<1>2. /\ DOMAIN open = 1 .. Len(open) /\ Len(open) \in Nat
      /\ DOMAIN more = 1 .. Len(open) + 1 /\ Len(more) = Len(open) + 1
      /\ more[Len(open) + 1] = key
      /\ \A i \in DOMAIN open : more[i] = open[i] /\ open[i] \in keys
  OBVIOUS
<1> HIDE DEF dom, more
<1>3. /\ ValuesShape(later, keys)
      /\ later.iteration = vals.iteration /\ later.run = vals.run
      /\ \A k \in keys : later.branchRun[k] = vals.branchRun[k]
      /\ \A k \in keys \ {key} : later.branchIteration[k] = vals.branchIteration[k]
  <2>1. ValuesAre(later, keys, vals.iteration, vals.run,
                  [vals.branchIteration EXCEPT ![key] = {}], vals.branchRun)
    BY FrameUpdates
  <2> QED BY <2>1 DEF ValuesAre
<1>4. \A r \in DOMAIN step :
        /\ r \in dom[n] \ {n} => Captured(step[r]) \subseteq gone \cup Known(vals, open, Len(open))
        /\ \A k \in DOMAIN open :
             r \in dom[open[k][1]] => Captured(step[r]) \subseteq gone \cup Known(vals, open, k - 1)
  BY DEF ValuesFit, dom
<1>5. ASSUME NEW k \in 0 .. Len(open) PROVE Known(vals, open, k) \subseteq Known(later, more, k)
  <2> SUFFICES ASSUME NEW x \in Known(vals, open, k) PROVE x \in Known(later, more, k) OBVIOUS
  <2>1. \A i \in 1 .. k : i \in DOMAIN open BY <1>2
  <2>2. \A i \in 1 .. k : /\ later.branchIteration[more[i]] = vals.branchIteration[open[i]]
                          /\ later.branchRun[more[i]] = vals.branchRun[open[i]]
    BY <1>2, <1>3, <2>1
  <2>3. CASE x \in vals.iteration \cup vals.run BY <1>3, <2>3 DEF Known
  <2>4. CASE x \notin vals.iteration \cup vals.run
    <3>1. PICK i \in 1 .. k : x \in vals.branchIteration[open[i]] \cup vals.branchRun[open[i]]
      BY <2>4, KnownIs
    <3> QED BY <2>2, <3>1 DEF Known
  <2> QED BY <2>3, <2>4
<1>6. Known(later, more, Len(open)) \subseteq Known(later, more, Len(more))
  <2>1. \A i \in 1 .. Len(open) : i \in 1 .. Len(more) BY <1>2
  <2> QED BY <2>1 DEF Known
<1>7. Len(open) \in 0 .. Len(open) /\ \A k \in DOMAIN open : k - 1 \in 0 .. Len(open) BY <1>2
<1>8. ASSUME NEW r \in DOMAIN step, r \in dom[m] \ {m}
      PROVE  Captured(step[r]) \subseteq gone \cup Known(later, more, Len(more))
  <2>1. r \in dom[n] \ {n} BY <1>1, <1>8
  <2> QED BY <1>4, <1>5, <1>6, <1>7, <2>1
<1>9. ASSUME NEW r \in DOMAIN step, NEW k \in DOMAIN more, r \in dom[more[k][1]]
      PROVE  Captured(step[r]) \subseteq gone \cup Known(later, more, k - 1)
  <2>1. CASE k \in DOMAIN open BY <1>2, <1>4, <1>5, <1>7, <1>9, <2>1
  <2>2. CASE k = Len(open) + 1
    <3>1. r \in dom[n] \ {n} /\ k - 1 = Len(open) BY <1>2, <1>9, <2>2
    <3> QED BY <1>4, <1>5, <1>7, <3>1
  <2>3. k \in DOMAIN open \/ k = Len(open) + 1 BY <1>2
  <2> QED BY <2>1, <2>2, <2>3
<1>10. ValuesFit(step, dom, more, later, gone, m) BY <1>8, <1>9 DEF ValuesFit
<1> QED BY <1>3, <1>10 DEF dom, more

\* Out of the innermost route at its join, which what dominates it dominates
\* its branch.
LEMMA ValuesGoOut ==
  ASSUME NEW all, Graph(all), NEW entry \in DOMAIN all, NEW n \in DOMAIN all, NEW m \in all[n],
         NEW step, n \notin DOMAIN step, NEW open, NEW keys, open \in Seq(keys), open # <<>>,
         Dominators(all, entry)[n] \ {n} \subseteq Dominators(all, entry)[open[Len(open)][1]],
         NEW vals, NEW gone, ValuesFit(step, Dominators(all, entry), open, vals, gone, n)
  PROVE  ValuesFit(step, Dominators(all, entry), SubSeq(open, 1, Len(open) - 1), vals, gone, m)
<1> DEFINE dom == Dominators(all, entry)
           last == Len(open)
           less == SubSeq(open, 1, last - 1)
<1>1. dom[m] \subseteq {m} \cup dom[n] BY Dominance
<1>2. /\ DOMAIN open = 1 .. last /\ last \in Nat \ {0}
      /\ DOMAIN less = 1 .. last - 1 /\ Len(less) = last - 1
      /\ \A i \in DOMAIN less : less[i] = open[i] /\ i \in DOMAIN open
  <2>1. DOMAIN open = 1 .. last /\ last \in Nat OBVIOUS
  <2>2. last # 0 OBVIOUS
  <2>3. last - 1 \in 0 .. Len(open) BY <2>1, <2>2
  <2> DEFINE size == last - 1
  <2> HIDE DEF size
  <2>4. size \in 0 .. Len(open) BY <2>3 DEF size
  <2>5. /\ DOMAIN SubSeq(open, 1, size) = 1 .. size /\ Len(SubSeq(open, 1, size)) = size
        /\ \A i \in 1 .. size : SubSeq(open, 1, size)[i] = open[i]
    BY <2>4
  <2> HIDE DEF last
  <2>6. \A i \in 1 .. last - 1 : i \in 1 .. last BY <2>1
  <2> QED BY <2>1, <2>2, <2>5, <2>6 DEF size
<1>3. dom[n] \ {n} \subseteq dom[open[last][1]] OBVIOUS
<1> HIDE DEF dom, last, less
<1>4. \A r \in DOMAIN step : \A k \in DOMAIN open :
        r \in dom[open[k][1]] => Captured(step[r]) \subseteq gone \cup Known(vals, open, k - 1)
  BY DEF ValuesFit, dom
<1>5. ASSUME NEW k \in 0 .. last - 1 PROVE Known(vals, open, k) = Known(vals, less, k)
  <2>1. \A i \in 1 .. k : less[i] = open[i] BY <1>2
  <2> QED BY <2>1 DEF Known
<1>6. ASSUME NEW r \in DOMAIN step, r \in dom[m] \ {m}
      PROVE  Captured(step[r]) \subseteq gone \cup Known(vals, less, Len(less))
  <2>1. r \in dom[open[last][1]] BY <1>1, <1>3, <1>6
  <2>2. last \in DOMAIN open /\ last - 1 \in 0 .. last - 1 BY <1>2
  <2> QED BY <1>2, <1>4, <1>5, <2>1, <2>2
<1>7. ASSUME NEW r \in DOMAIN step, NEW k \in DOMAIN less, r \in dom[less[k][1]]
      PROVE  Captured(step[r]) \subseteq gone \cup Known(vals, less, k - 1)
  <2>1. k - 1 \in 0 .. last - 1 BY <1>2
  <2> QED BY <1>2, <1>4, <1>5, <1>7, <2>1
<1>8. ValuesFit(step, dom, less, vals, gone, m) BY <1>6, <1>7 DEF ValuesFit
<1> QED BY <1>8 DEF dom, less, last

\* Keep loses names of the innermost frame only, and keeps the others.
LEMMA KeepKnown ==
  ASSUME NEW keys, ValuesShape(values, keys), frames \in Seq(keys),
         NEW lost, NEW kept, NEW run, NEW later, later = Keep(lost, kept, run)
  PROVE  /\ ValuesShape(later, keys)
         /\ \A k \in 0 .. Len(frames) :
              Known(values, frames, k) \subseteq lost \cup Known(later, frames, k)
         /\ kept \cup run \subseteq Known(later, frames, Len(frames))
<1>1. CASE frames = <<>>
  <2> DEFINE x == (values.iteration \ lost) \cup kept
             y == values.run \cup run
  <2>1. later = [values EXCEPT !.iteration = x, !.run = y] BY <1>1 DEF Keep
  <2> HIDE DEF x, y
  <2>2. ValuesAre(later, keys, x, y, values.branchIteration, values.branchRun)
    BY ONLY <2>1, ValuesShape(values, keys), OutsideUpdates
  <2>3. Len(frames) = 0 BY <1>1
  <2>4. \A vals : Known(vals, frames, 0) = vals.iteration \cup vals.run BY DEF Known
  <2>5. \A k \in 0 .. Len(frames) : k = 0 BY <2>3
  <2> QED BY <2>2, <2>3, <2>4, <2>5 DEF ValuesAre, x, y
<1>2. CASE frames # <<>>
  <2> DEFINE top == Top
             x == (values.branchIteration[top] \ lost) \cup kept
             y == values.branchRun[top] \cup run
  <2>1. later = [values EXCEPT !.branchIteration[top] = x, !.branchRun[top] = y]
    BY <1>2 DEF Keep
  <2>2. /\ DOMAIN frames = 1 .. Len(frames) /\ Len(frames) \in Nat \ {0}
        /\ \A i \in DOMAIN frames : frames[i] \in keys
        /\ Top \in keys /\ Top = frames[Len(frames)]
    BY <1>2 DEF Top
  <2>3. ValuesAre(later, keys, values.iteration, values.run,
                  [values.branchIteration EXCEPT ![top] = x], [values.branchRun EXCEPT ![top] = y])
    <3> HIDE DEF x, y
    <3>1. top \in keys BY <2>2
    <3> HIDE DEF top
    <3> QED BY ONLY <2>1, <3>1, ValuesShape(values, keys), FrameUpdates
  <2> HIDE DEF top
  <2>4. \A key \in keys :
          /\ later.branchIteration[key] = IF key = top THEN x ELSE values.branchIteration[key]
          /\ later.branchRun[key] = IF key = top THEN y ELSE values.branchRun[key]
    <3>1. /\ DOMAIN values.branchIteration = keys /\ DOMAIN values.branchRun = keys
      BY DEF ValuesShape
    <3> HIDE DEF x, y
    <3>2. \A key \in keys :
            /\ [values.branchIteration EXCEPT ![top] = x][key] =
                 IF key = top THEN x ELSE values.branchIteration[key]
            /\ [values.branchRun EXCEPT ![top] = y][key] = IF key = top THEN y ELSE values.branchRun[key]
      BY <3>1
    <3> QED BY <2>3, <3>2 DEF ValuesAre
  <2>5. ASSUME NEW k \in 0 .. Len(frames), NEW n \in Known(values, frames, k), n \notin lost
        PROVE  n \in Known(later, frames, k)
    <3>1. CASE n \in values.iteration \cup values.run BY <2>3, <3>1 DEF Known, ValuesAre
    <3>2. CASE n \notin values.iteration \cup values.run
      <4>1. PICK i \in 1 .. k : n \in values.branchIteration[frames[i]] \cup values.branchRun[frames[i]]
        BY <3>2, KnownIs
      <4>2. frames[i] \in keys BY <2>2
      <4>3. n \in later.branchIteration[frames[i]] \cup later.branchRun[frames[i]]
        BY <2>4, <2>5, <4>1, <4>2
      <4> QED BY <4>3 DEF Known
    <3> QED BY <3>1, <3>2
  <2>6. kept \cup run \subseteq Known(later, frames, Len(frames))
    <3>1. Len(frames) \in 1 .. Len(frames) BY <2>2
    <3>2. later.branchIteration[top] = x /\ later.branchRun[top] = y /\ top = frames[Len(frames)]
      BY <2>2, <2>4 DEF top
    <3>3. kept \cup run \subseteq later.branchIteration[frames[Len(frames)]]
                                    \cup later.branchRun[frames[Len(frames)]]
      BY <3>2
    <3> QED BY <3>1, <3>3 DEF Known
  <2> QED BY <2>3, <2>5, <2>6 DEF ValuesAre
<1> QED BY <1>1, <1>2

-----------------------------------------------------------------------------
(* The iteration, its routes and its variables.                              *)

RunFits(p, open, vals, gone, n) ==
  LET all == Edges(p.plan, TRUE) IN
  /\ FramesFit(p.plan, all, p.entry, open, n)
  /\ ValuesFit(p.step, Dominators(all, p.entry), open, vals, gone, n)

LEMMA RoutesInvIs ==
  /\ RoutesInv <=>
       /\ phase = "accepted" =>
            ProgramNested(program, request.bindings) /\ ValuesShape(values, Keys(program.plan))
       /\ phase = "submitted" => ended = None
       /\ JoinsUnopened(program.plan, program.entry) \/ ended # "lost"
       /\ pc # None => RunFits(program, frames, values, missed, pc)
  /\ RoutesInv' <=>
       /\ phase' = "accepted" =>
            ProgramNested(program', request'.bindings) /\ ValuesShape(values', Keys(program'.plan))
       /\ phase' = "submitted" => ended' = None
       /\ JoinsUnopened(program'.plan, program'.entry) \/ ended' # "lost"
       /\ pc' # None => RunFits(program', frames', values', missed', pc')
BY DEF RoutesInv, FramesOK, ValuesOK, RunFits, FramesFit, ValuesFit, ValuesShape, Known, KnownIn

\* The program of an iteration that runs, at a step.
RunIs(p, bindings, n) ==
  LET plan == p.plan
      all == Edges(plan, TRUE)
  IN /\ Graph(all) /\ DOMAIN all = DOMAIN plan /\ p.entry \in DOMAIN plan /\ n \in DOMAIN plan
     /\ OfKind(plan, "branch") = {} \/ Structured(plan, Edges(plan, FALSE), all)
     /\ OfKind(plan, "branch") = {} => OfKind(plan, "join") = {}
     /\ DOMAIN p.step = OfKind(plan, "step")
     /\ \A r \in DOMAIN p.step : CapturesKnown(p.step[r])
     /\ \A r \in DOMAIN p.step :
          p.step[r].kind = "request" => TemplatesDefined(p.step, r, bindings, Dominators(all, p.entry))

LEMMA RunningIs ==
  ASSUME IInv, RoutesInv, pc # None
  PROVE  /\ phase = "accepted" /\ RunIs(program, request.bindings, pc)
         /\ frames \in Seq(Keys(program.plan)) /\ IsSequence(frames)
         /\ ValuesShape(values, Keys(program.plan))
         /\ RunFits(program, frames, values, missed, pc)
<1>1. /\ phase = "accepted" /\ pc \in DOMAIN program.plan
      /\ ProgramSound(program) /\ ProgramBounded(program)
  BY DEF IInv, FreshOK
<1>2. /\ ProgramNested(program, request.bindings) /\ ValuesShape(values, Keys(program.plan))
      /\ RunFits(program, frames, values, missed, pc)
  BY <1>1, RoutesInvIs
<1>3. frames \in Seq(Keys(program.plan)) /\ IsSequence(frames)
  BY <1>2, SequencesAre DEF RunFits, FramesFit
<1>4. RunIs(program, request.bindings, pc)
  <2> DEFINE p == program
             bindings == request.bindings
             n == pc
             plan == p.plan
             all == Edges(plan, TRUE)
  <2> HIDE DEF p, bindings, n
  <2>1. ProgramSound(p) /\ ProgramBounded(p) /\ ProgramNested(p, bindings) /\ n \in DOMAIN plan
    BY <1>1, <1>2 DEF p, bindings, n
  <2>2. Graph(all) /\ DOMAIN all = DOMAIN plan /\ p.entry \in DOMAIN plan BY <2>1, SoundIsGraph
  <2>3. OfKind(plan, "branch") = {} \/ Structured(plan, Edges(plan, FALSE), all)
    BY <2>1, NestedIsStructured
  <2>4. OfKind(plan, "branch") = {} => OfKind(plan, "join") = {}
    BY <2>1 DEF ProgramNested, BranchesStructured
  <2>5. /\ DOMAIN p.step = OfKind(plan, "step")
        /\ \A r \in DOMAIN p.step : CapturesKnown(p.step[r])
        /\ \A r \in DOMAIN p.step :
             p.step[r].kind = "request" => TemplatesDefined(p.step, r, bindings, Dominators(all, p.entry))
    BY <2>1 DEF ProgramNested, CapturesKnown
  <2>6. RunIs(p, bindings, n) BY <2>1, <2>2, <2>3, <2>4, <2>5 DEF RunIs
  <2> QED BY <2>6 DEF p, bindings, n
<1> QED BY <1>1, <1>2, <1>3, <1>4

\* Where a transition goes.
LEMMA AdvanceGoes ==
  ASSUME NEW next, Advance(next), pc \in DOMAIN program.plan,
         next \in Successors(program.plan[pc], TRUE)
  PROVE  /\ ended' # "lost"
         /\ pc' # None => pc' = next /\ pc' \in Edges(program.plan, TRUE)[pc]
<1>1. ended' # "lost" BY DEF Advance, None
<1>2. pc' # None => pc' = next BY DEF Advance
<1>3. Edges(program.plan, TRUE)[pc] = Successors(program.plan[pc], TRUE) \ {None} BY DEF Edges
<1> QED BY <1>1, <1>2, <1>3

\* A step or a loop that goes on keeps the routes and the variables, when what it
\* captures is known or missed and what it loses is missed.
LEMMA RoutesGoOn ==
  ASSUME IInv, RoutesInv, pc # None, program.plan[pc].kind \in {"step", "loop"},
         NEW next \in Successors(program.plan[pc], TRUE), Advance(next),
         UNCHANGED <<request, phase, program, frames>>, missed \subseteq missed',
         ValuesShape(values', Keys(program.plan)),
         \A k \in 0 .. Len(frames) :
           Known(values, frames, k) \subseteq missed' \cup Known(values', frames, k),
         pc \in DOMAIN program.step =>
           Captured(program.step[pc]) \subseteq missed' \cup Known(values', frames, Len(frames))
  PROVE  RoutesInv'
<1>1. /\ phase = "accepted" /\ RunIs(program, request.bindings, pc)
      /\ IsSequence(frames) /\ RunFits(program, frames, values, missed, pc)
  BY RunningIs
<1>2. pc \in DOMAIN program.plan BY <1>1 DEF RunIs
<1>3. ended' # "lost" /\ (pc' # None => pc' = next /\ pc' \in Edges(program.plan, TRUE)[pc])
  BY <1>2, AdvanceGoes
<1>4. ASSUME pc' # None PROVE RunFits(program, frames, values', missed', pc')
  <2> DEFINE p == program
             plan == p.plan
             all == Edges(plan, TRUE)
             n == pc
             m == pc'
             open == frames
             vals == values
             later == values'
             gone == missed
             lost == missed'
  <2> HIDE DEF p, n, m, open, vals, later, gone, lost
  <2>1. /\ RunIs(p, request.bindings, n) /\ RunFits(p, open, vals, gone, n) /\ m \in all[n]
        /\ plan[n].kind \in {"step", "loop"} /\ IsSequence(open) /\ gone \subseteq lost
        /\ \A k \in 0 .. Len(open) : Known(vals, open, k) \subseteq lost \cup Known(later, open, k)
        /\ n \in DOMAIN p.step =>
             Captured(p.step[n]) \subseteq lost \cup Known(later, open, Len(open))
    BY <1>1, <1>3, <1>4 DEF p, n, m, open, vals, later, gone, lost
  <2>2. Graph(all) /\ p.entry \in DOMAIN all /\ n \in DOMAIN all /\ n \in DOMAIN plan
        /\ p.entry \in DOMAIN plan
    BY <2>1 DEF RunIs
  <2>3. FramesFit(plan, all, p.entry, open, m)
    <3>1. FramesFit(plan, all, p.entry, open, n) BY <2>1 DEF RunFits
    <3>2. CASE OfKind(plan, "branch") = {} BY <3>1, <3>2, FitsWithoutBranches
    <3>3. CASE Structured(plan, Edges(plan, FALSE), all) BY <2>1, <2>2, <3>1, <3>3, FitsOn
    <3> QED BY <2>1, <3>2, <3>3 DEF RunIs
  <2>4. ValuesFit(p.step, Dominators(all, p.entry), open, later, lost, m)
    <3>1. ValuesFit(p.step, Dominators(all, p.entry), open, vals, gone, n) BY <2>1 DEF RunFits
    <3> QED BY <2>1, <2>2, <3>1, ValuesGoOn
  <2>5. RunFits(p, open, later, lost, m) BY <2>3, <2>4 DEF RunFits
  <2> QED BY <2>5 DEF p, m, open, later, lost
<1>5. ProgramNested(program, request.bindings) BY <1>1, RoutesInvIs
<1> QED BY <1>1, <1>3, <1>4, <1>5, RoutesInvIs

LEMMA RoutesEnd ==
  ASSUME IInv, RoutesInv, pc # None, pc' = None, UNCHANGED <<request, program, values>>,
         phase' \in {phase, "canceled"}, ended' # "lost" \/ JoinsUnopened(program.plan, program.entry)
  PROVE  RoutesInv'
<1>1. phase = "accepted" BY RunningIs
<1> QED BY <1>1, RoutesInvIs

LEMMA FollowingIs ==
  ASSUME program.plan[pc].kind \in {"step", "join"}
  PROVE  Following \in Successors(program.plan[pc], TRUE)
BY DEF Following, Successors

\* The names of captures, by their scope.
LEMMA CapturedIs ==
  ASSUME NEW n
  PROVE  /\ Captured(program.step[n]) = Names(Captures(n))
         /\ CapturesKnown(program.step[n]) => \A c \in Captures(n) : c.scope \in {"iteration", "run"}
BY DEF Captured, Names, Captures, CapturesKnown

LEMMA RequestKeepsRoutes == ASSUME IInv, RoutesInv, FailRequest \/ Respond PROVE RoutesInv'
<1>1. /\ pc # None /\ program.plan[pc].kind = "step" /\ program.step[pc].kind = "request"
      /\ UNCHANGED <<request, phase, program, frames>> /\ Advance(Following)
  BY DEF FailRequest, Respond, RunningStep, Running
<1>2. /\ RunIs(program, request.bindings, pc) /\ frames \in Seq(Keys(program.plan))
      /\ ValuesShape(values, Keys(program.plan))
  BY <1>1, RunningIs
<1>3. Following \in Successors(program.plan[pc], TRUE) BY <1>1, FollowingIs
<1>4. Captured(program.step[pc]) = Names(Captures(pc)) BY CapturedIs
<1>5. pc \in DOMAIN program.step => \A c \in Captures(pc) : c.scope \in {"iteration", "run"}
  BY <1>2, CapturedIs DEF RunIs
<1>6. \A lost, kept, run :
        /\ ValuesShape(Keep(lost, kept, run), Keys(program.plan))
        /\ \A k \in 0 .. Len(frames) :
             Known(values, frames, k) \subseteq lost \cup Known(Keep(lost, kept, run), frames, k)
        /\ kept \cup run \subseteq Known(Keep(lost, kept, run), frames, Len(frames))
  BY <1>2, KeepKnown
<1>7. CASE FailRequest
  <2> DEFINE lost == Scoped(Captures(pc), "iteration")
  <2>1. values' = Keep(lost, {}, {}) /\ missed' = missed \cup Names(Captures(pc))
    BY <1>7 DEF FailRequest
  <2>2. lost \subseteq Names(Captures(pc)) BY DEF Scoped, Names
  <2> HIDE DEF lost
  <2>3. /\ ValuesShape(values', Keys(program.plan))
        /\ \A k \in 0 .. Len(frames) :
             Known(values, frames, k) \subseteq missed' \cup Known(values', frames, k)
    BY <1>6, <2>1, <2>2
  <2>4. Captured(program.step[pc]) \subseteq missed' BY <1>4, <2>1
  <2> QED BY <1>1, <1>3, <2>1, <2>3, <2>4, RoutesGoOn
<1>8. CASE Respond
  <2>1. PICK status \in Statuses, found \in BOOLEAN :
          LET wanted == {c \in Captures(pc) : c.scope = "iteration" \/ c.name \notin RunValues}
              eligible == {c \in wanted : Matches(status, c.onStatus)}
              kept == IF found THEN eligible ELSE {}
          IN /\ values' = Keep(Scoped(wanted \ kept, "iteration"), Scoped(kept, "iteration"),
                               Scoped(kept, "run"))
             /\ missed' = missed \cup Names(wanted \ kept)
    BY <1>8 DEF Respond
  <2> DEFINE wanted == {c \in Captures(pc) : c.scope = "iteration" \/ c.name \notin RunValues}
             kept == IF found THEN {c \in wanted : Matches(status, c.onStatus)} ELSE {}
             lost == Scoped(wanted \ kept, "iteration")
  <2>2. /\ values' = Keep(lost, Scoped(kept, "iteration"), Scoped(kept, "run"))
        /\ missed' = missed \cup Names(wanted \ kept)
    BY <2>1
  <2>3. kept \subseteq wanted /\ wanted \subseteq Captures(pc)
        /\ \A c \in Captures(pc) \ wanted : c.name \in RunValues
    OBVIOUS
  <2> HIDE DEF wanted, kept
  <2>4. lost \subseteq Names(wanted \ kept) BY DEF Scoped, Names
  <2> HIDE DEF lost
  <2>5. /\ ValuesShape(values', Keys(program.plan))
        /\ \A k \in 0 .. Len(frames) :
             Known(values, frames, k) \subseteq missed' \cup Known(values', frames, k)
        /\ Scoped(kept, "iteration") \cup Scoped(kept, "run") \subseteq Known(values', frames, Len(frames))
    BY <1>6, <2>2, <2>4
  <2>6. RunValues \subseteq Known(values, frames, Len(frames))
    <3>1. CASE frames = <<>> BY <3>1 DEF RunValues, Known
    <3>2. CASE frames # <<>>
      <4>1. Len(frames) \in 1 .. Len(frames) BY <1>2, <3>2
      <4> QED BY <3>2, <4>1 DEF RunValues, Known, Top
    <3> QED BY <3>1, <3>2
  <2>7. Len(frames) \in 0 .. Len(frames) BY <1>2
  <2>8. ASSUME pc \in DOMAIN program.step, NEW c \in Captures(pc)
        PROVE  c.name \in missed' \cup Known(values', frames, Len(frames))
    <3>1. CASE c \in kept
      <4>1. c.name \in Scoped(kept, "iteration") \cup Scoped(kept, "run")
        BY <1>5, <2>8, <3>1 DEF Scoped, Names
      <4> QED BY <2>5, <4>1
    <3>2. CASE c \in wanted \ kept
      <4>1. c.name \in Names(wanted \ kept) BY <3>2 DEF Names
      <4> QED BY <2>2, <4>1
    <3>3. CASE c \notin wanted
      <4>1. c.name \in Known(values, frames, Len(frames)) BY <2>3, <2>6, <3>3
      <4> QED BY <2>5, <2>7, <4>1
    <3> QED BY <3>1, <3>2, <3>3
  <2>9. pc \in DOMAIN program.step =>
          Captured(program.step[pc]) \subseteq missed' \cup Known(values', frames, Len(frames))
    BY <1>4, <2>8 DEF Names
  <2> QED BY <1>1, <1>3, <2>2, <2>5, <2>9, RoutesGoOn
<1> QED BY <1>7, <1>8

LEMMA OtherStepsKeepRoutes ==
  ASSUME IInv, RoutesInv, Delay \/ CheckAssertion \/ Cancel \/ Loop PROVE RoutesInv'
<1>1. pc # None /\ UNCHANGED <<request, program, frames, values, missed>>
  BY DEF Delay, CheckAssertion, Cancel, Loop, RunningStep, Running, history
<1>2. CASE Cancel BY <1>1, <1>2, RoutesEnd DEF Cancel, End
<1>3. ASSUME program.plan[pc].kind \in {"step", "loop"}, UNCHANGED phase,
             pc \in DOMAIN program.step => program.step[pc].kind # "request",
             NEW next \in Successors(program.plan[pc], TRUE), Advance(next)
      PROVE  RoutesInv'
  <2>1. RunIs(program, request.bindings, pc) /\ ValuesShape(values, Keys(program.plan))
    BY <1>1, RunningIs
  <2>2. pc \in DOMAIN program.step => Captured(program.step[pc]) = {}
    BY <1>3, <2>1 DEF RunIs, CapturesKnown, Captured
  <2> QED BY <1>1, <1>3, <2>1, <2>2, RoutesGoOn
<1>4. CASE Delay \/ CheckAssertion
  <2>1. /\ program.plan[pc].kind = "step" /\ program.step[pc].kind # "request" /\ UNCHANGED phase
        /\ Advance(Following) \/ End("stopped")
    BY <1>4 DEF Delay, CheckAssertion, RunningStep, Running
  <2>2. Following \in Successors(program.plan[pc], TRUE) BY <2>1, FollowingIs
  <2>3. CASE Advance(Following) BY <1>3, <2>1, <2>2, <2>3
  <2>4. CASE End("stopped") BY <1>1, <2>1, <2>4, RoutesEnd DEF End
  <2> QED BY <2>1, <2>3, <2>4
<1>5. CASE Loop
  <2>1. program.plan[pc].kind = "loop" /\ UNCHANGED phase BY <1>5 DEF Loop, Running
  <2>2. PICK next \in {program.plan[pc].body, program.plan[pc].exit} : Advance(next)
    BY <1>5 DEF Loop
  <2>3. next \in Successors(program.plan[pc], TRUE) BY <2>1, <2>2 DEF Successors
  <2>4. pc \notin DOMAIN program.step
    BY <1>1, <2>1, RunningIs DEF RunIs, OfKind
  <2> QED BY <1>3, <2>1, <2>2, <2>3, <2>4
<1> QED BY <1>2, <1>4, <1>5

LEMMA BranchKeepsRoutes == ASSUME IInv, RoutesInv, Branch PROVE RoutesInv'
<1>1. /\ pc # None /\ program.plan[pc].kind = "branch"
      /\ UNCHANGED <<request, phase, program>> /\ missed' = missed
  BY DEF Branch, Running, history
<1>2. PICK i \in DOMAIN program.plan[pc].routes :
        /\ frames' = Append(frames, <<pc, i>>)
        /\ values' = [values EXCEPT !.branchIteration[<<pc, i>>] = {}]
        /\ Advance(program.plan[pc].routes[i].target)
  BY DEF Branch
<1>3. /\ phase = "accepted" /\ RunIs(program, request.bindings, pc)
      /\ frames \in Seq(Keys(program.plan)) /\ ValuesShape(values, Keys(program.plan))
      /\ RunFits(program, frames, values, missed, pc)
  BY <1>1, RunningIs
<1> DEFINE next == program.plan[pc].routes[i].target
<1>4. ended' # "lost" /\ (pc' # None => pc' = next /\ pc' \in Edges(program.plan, TRUE)[pc])
  <2>1. next \in Successors(program.plan[pc], TRUE) BY <1>1 DEF Successors, RouteTargets
  <2>2. pc \in DOMAIN program.plan BY <1>3 DEF RunIs
  <2> HIDE DEF next
  <2> QED BY <1>2, <2>1, <2>2, AdvanceGoes DEF next
<1>5. /\ ValuesShape(values', Keys(program.plan))
      /\ pc' # None => RunFits(program, frames', values', missed, pc')
  <2> DEFINE p == program
             plan == p.plan
             all == Edges(plan, TRUE)
             n == pc
             m == next
             open == frames
             vals == values
             later == values'
             gone == missed
             key == <<n, i>>
             keys == Keys(plan)
  <2>0. pc' # None => m \in all[n] BY <1>4
  <2> HIDE DEF p, n, m, open, vals, later, gone
  <2>1. /\ RunIs(p, request.bindings, n) /\ RunFits(p, open, vals, gone, n)
        /\ plan[n].kind = "branch" /\ open \in Seq(keys) /\ ValuesShape(vals, keys)
        /\ later = [vals EXCEPT !.branchIteration[key] = {}]
        /\ i \in DOMAIN plan[n].routes /\ m = plan[n].routes[i].target
    BY <1>1, <1>2, <1>3 DEF p, n, m, open, vals, later, gone
  <2>2. /\ Graph(all) /\ DOMAIN all = DOMAIN plan /\ p.entry \in DOMAIN plan /\ n \in DOMAIN plan
        /\ n \in OfKind(plan, "branch") /\ Structured(plan, Edges(plan, FALSE), all)
        /\ n \notin DOMAIN p.step
    BY <2>1 DEF RunIs, OfKind
  <2>3. /\ FramesFit(plan, all, p.entry, Append(open, key), m)
        /\ \A j \in DOMAIN open : open[j] # key
        /\ m \in all[n]
    BY <2>1, <2>2, FitsIn DEF RunFits
  <2>4. key \in keys BY <2>1, <2>2, KeysAre
  <2>6. /\ ValuesShape(later, keys)
        /\ ValuesFit(p.step, Dominators(all, p.entry), Append(open, key), later, gone, m)
    <3>1. ValuesFit(p.step, Dominators(all, p.entry), open, vals, gone, n) BY <2>1 DEF RunFits
    <3>2. key[1] = n OBVIOUS
    <3> DEFINE entry == p.entry
               step == p.step
    <3> HIDE DEF key, keys, all, entry, step
    <3>3. Graph(all) /\ entry \in DOMAIN all /\ n \in DOMAIN all /\ m \in all[n] /\ n \notin DOMAIN step
      BY <2>2, <2>3 DEF entry, step
    <3>4. ValuesFit(step, Dominators(all, entry), open, vals, gone, n) BY <3>1 DEF entry, step
    <3>5. /\ open \in Seq(keys) /\ ValuesShape(vals, keys) /\ key \in keys /\ key[1] = n
          /\ \A j \in DOMAIN open : open[j] # key
          /\ later = [vals EXCEPT !.branchIteration[key] = {}]
      BY <2>1, <2>3, <2>4, <3>2
    <3> QED BY ONLY <3>3, <3>4, <3>5, ValuesGoIn DEF entry, step
  <2>7. RunFits(p, Append(open, key), later, gone, m) BY <2>3, <2>6 DEF RunFits
  <2> QED BY <1>2, <1>4, <2>6, <2>7 DEF p, n, m, open, later, gone
<1>6. ProgramNested(program, request.bindings) BY <1>3, RoutesInvIs
<1> QED BY <1>1, <1>3, <1>4, <1>5, <1>6, RoutesInvIs

LEMMA JoinKeepsRoutes == ASSUME IInv, RoutesInv, Join PROVE RoutesInv'
<1>1. /\ pc # None /\ program.plan[pc].kind = "join"
      /\ UNCHANGED <<request, phase, program, values>> /\ missed' = missed
  BY DEF Join, Running, history
<1>2. /\ phase = "accepted" /\ RunIs(program, request.bindings, pc)
      /\ frames \in Seq(Keys(program.plan)) /\ ValuesShape(values, Keys(program.plan))
      /\ RunFits(program, frames, values, missed, pc)
  BY <1>1, RunningIs
<1> DEFINE p == program
           plan == p.plan
           all == Edges(plan, TRUE)
           n == pc
           open == frames
           vals == values
           gone == missed
           last == Len(open)
           top == open[last]
<1>3. /\ Graph(all) /\ DOMAIN all = DOMAIN plan /\ p.entry \in DOMAIN plan /\ n \in DOMAIN plan
      /\ Structured(plan, Edges(plan, FALSE), all) /\ n \notin DOMAIN p.step
  BY <1>1, <1>2 DEF RunIs, OfKind
<1>4. FramesFit(plan, all, p.entry, open, n)
      /\ ValuesFit(p.step, Dominators(all, p.entry), open, vals, gone, n)
  BY <1>2 DEF RunFits
<1>5. CASE open = <<>> \/ (open # <<>> /\ plan[Top[1]].join # n)
  <2>1. End("lost") BY <1>5 DEF Join
  <2>2. open = <<>> \/ plan[open[Len(open)][1]].join # n BY <1>5 DEF Top
  <2> HIDE DEF p, n, open, vals, gone
  <2>3. plan[n].kind = "join" BY <1>1 DEF p, n
  <2> DEFINE edges == Edges(plan, FALSE)
             entry == p.entry
  <2>4. /\ Structured(plan, edges, all) /\ FramesFit(plan, all, entry, open, n)
        /\ n \in DOMAIN plan
    BY <1>3, <1>4
  <2> HIDE DEF plan, all, edges, entry
  <2>5. JoinsUnopened(plan, entry) BY ONLY <2>2, <2>3, <2>4, JoinOfTop
  <2> QED BY <1>1, <2>1, <2>5, RoutesEnd DEF End, plan, entry, p
<1>6. CASE ~(open = <<>> \/ (open # <<>> /\ plan[Top[1]].join # n))
  <2>1. Advance(Following) /\ frames' = SubSeq(open, 1, Len(open) - 1) BY <1>6 DEF Join
  <2>2. open # <<>> /\ plan[top[1]].join = n BY <1>6 DEF Top
  <2>3. Following \in Successors(plan[n], TRUE) BY <1>1, FollowingIs
  <2>4. ended' # "lost" /\ (pc' # None => pc' \in all[n]) BY <1>3, <2>1, <2>3, AdvanceGoes
  <2>5. ASSUME pc' # None PROVE RunFits(p, SubSeq(open, 1, Len(open) - 1), vals, gone, pc')
    <3> DEFINE m == pc'
               keys == Keys(plan)
               dom == Dominators(all, p.entry)
    <3>1. m \in all[n] /\ plan[n].kind = "join" /\ open \in Seq(keys) BY <1>1, <1>2, <2>4, <2>5
    <3> HIDE DEF p, n, open, vals, gone, m
    <3>2. FramesFit(plan, all, p.entry, SubSeq(open, 1, Len(open) - 1), m)
      BY <1>3, <1>4, <2>2, <3>1, FitsOut
    <3>3. top[1] \in OfKind(plan, "branch")
      <4>1. top \in keys BY <2>2, <3>1
      <4> QED BY <4>1, KeysAre
    <3>4. dom[n] \ {n} \subseteq dom[top[1]]
      <4> DEFINE b == top[1]
      <4> HIDE DEF b
      <4>1. b \in OfKind(plan, "branch") /\ plan[b].join = n BY <2>2, <3>3 DEF b
      <4>2. ASSUME NEW d \in dom[n], d # n PROVE d \in dom[b]
        BY ONLY <1>3, <4>1, <4>2, JoinDominators
      <4> QED BY <4>2 DEF b
    <3>5. ValuesFit(p.step, dom, SubSeq(open, 1, Len(open) - 1), vals, gone, m)
      <4> HIDE DEF keys
      <4> QED BY ONLY <1>3, <1>4, <2>2, <3>1, <3>4, ValuesGoOut
    <3>6. RunFits(p, SubSeq(open, 1, Len(open) - 1), vals, gone, m) BY <3>2, <3>5 DEF RunFits
    <3> QED BY <3>6 DEF m, p, open, vals, gone
  <2>6. ProgramNested(program, request.bindings) BY <1>2, RoutesInvIs
  <2> QED BY <1>1, <1>2, <2>1, <2>4, <2>5, <2>6, RoutesInvIs
<1> QED BY <1>5, <1>6

LEMMA BeginKeepsRoutes == ASSUME IInv, RoutesInv, BeginIteration PROVE RoutesInv'
<1>1. /\ phase = "accepted" /\ UNCHANGED <<request, phase, program>>
      /\ pc' = program.entry /\ frames' = <<>> /\ missed' = {} /\ ended' = None
      /\ values' = [values EXCEPT !.iteration = {}]
  BY DEF BeginIteration
<1>2. ProgramNested(program, request.bindings) /\ ValuesShape(values, Keys(program.plan))
  BY <1>1, RoutesInvIs
<1>3. ProgramSound(program) BY <1>1 DEF IInv
<1>4. ValuesShape(values', Keys(program.plan)) BY <1>1, <1>2, OutsideUpdates DEF ValuesAre
<1>5. RunFits(program, <<>>, values', {}, program.entry)
  <2> DEFINE p == program
             all == Edges(p.plan, TRUE)
             later == values'
  <2> HIDE DEF p, later
  <2>1. Graph(all) /\ p.entry \in DOMAIN all BY <1>3, SoundIsGraph DEF p
  <2>2. FramesFit(p.plan, all, p.entry, <<>>, p.entry) BY <2>1, FitsAtEntry
  <2>3. Dominators(all, p.entry)[p.entry] = {p.entry} BY <2>1, Dominance
  <2> DEFINE dom == Dominators(all, p.entry)
  <2>4. dom[p.entry] \ {p.entry} = {} BY <2>3
  <2> HIDE DEF dom
  <2>5. ValuesFit(p.step, dom, <<>>, later, {}, p.entry) BY <2>4 DEF ValuesFit
  <2> QED BY <2>2, <2>5 DEF RunFits, p, later, dom
<1>6. ended' # "lost" BY <1>1 DEF None
<1> QED BY <1>1, <1>2, <1>4, <1>5, <1>6, RoutesInvIs

LEMMA PreflightKeepsRoutes == ASSUME IInv, RoutesInv, Preflight PROVE RoutesInv'
<1>1. phase = "submitted" /\ request \in RequestRecord /\ pc = None /\ pc' = None /\ UNCHANGED ended
  BY DEF Preflight, IInv, FreshOK, iteration
<1>2. ended = None BY <1>1, RoutesInvIs
<1>3. CASE PreflightAccepts(request)
  <2>1. /\ phase' = "accepted" /\ request' = NormalConfig(request)
        /\ program' = Program(NormalConfig(request)) /\ values' = NoValues(program'.plan)
    BY <1>3 DEF Preflight
  <2>2. EngineAccepts(NormalConfig(request)) BY <1>3 DEF PreflightAccepts
  <2>3. ProgramNested(program', request'.bindings) BY <1>1, <2>1, <2>2, AcceptedIsNested
  <2>4. ValuesShape(values', Keys(program'.plan)) BY <2>1 DEF NoValues, ValuesShape
  <2> QED BY <1>1, <1>2, <2>1, <2>3, <2>4, RoutesInvIs DEF None
<1>4. CASE ~PreflightAccepts(request)
  <2>1. phase' = "rejected" BY <1>4 DEF Preflight
  <2> QED BY <1>1, <1>2, <2>1, RoutesInvIs DEF None
<1> QED BY <1>3, <1>4

\* The routes that are open and the values they keep, from the first iteration
\* on: the strengthening that RoutesNest and TemplatesResolve need.
THEOREM RoutesInvariant == Spec => [](IInv /\ RoutesInv)
<1>1. Init => RoutesInv
  <2> SUFFICES ASSUME Init PROVE RoutesInv OBVIOUS
  <2>1. phase = "submitted" /\ ended = None /\ pc = None BY DEF Init
  <2> QED BY <2>1, RoutesInvIs DEF None
<1>2. IInv /\ RoutesInv /\ [Next]_vars => RoutesInv'
  <2> SUFFICES ASSUME IInv, RoutesInv, [Next]_vars PROVE RoutesInv' OBVIOUS
  <2>1. CASE Next
    BY <2>1, PreflightKeepsRoutes, BeginKeepsRoutes, RequestKeepsRoutes, OtherStepsKeepRoutes,
       BranchKeepsRoutes, JoinKeepsRoutes DEF Next
  <2>2. CASE UNCHANGED vars
    <3>1. UNCHANGED <<request, phase, program, pc, ended, frames, values, missed>>
      BY <2>2 DEF vars, iteration, history
    <3> QED BY <3>1, RoutesInvIs
  <2> QED BY <2>1, <2>2
<1> QED BY <1>1, <1>2, ScenarioInvariant, PTL DEF Spec

\* The routes open are those the step lies in and the one that joins at it, and
\* no iteration ends at a join for want of its branch (execution_runtime.go).
THEOREM RoutesAreNested == Spec => []RoutesNest
<1>1. IInv /\ RoutesInv => RoutesNest
  <2> SUFFICES ASSUME IInv, RoutesInv, ~JoinsUnopened(program.plan, program.entry)
               PROVE  /\ ended # "lost"
                      /\ pc # None =>
                           {frames[i] : i \in DOMAIN frames} =
                             {key \in Keys(program.plan) :
                               \/ pc \in Inside(program.plan, key)
                               \/ /\ pc = program.plan[key[1]].join
                                  /\ frames # <<>> /\ key = frames[Len(frames)]}
    BY DEF RoutesNest, Top
  <2>1. ended # "lost" BY RoutesInvIs
  <2>2. ASSUME pc # None
        PROVE  {frames[i] : i \in DOMAIN frames} =
                 {key \in Keys(program.plan) :
                   \/ pc \in Inside(program.plan, key)
                   \/ /\ pc = program.plan[key[1]].join
                      /\ frames # <<>> /\ key = frames[Len(frames)]}
    <3> DEFINE plan == program.plan
               all == Edges(plan, TRUE)
               edges == Edges(plan, FALSE)
               entry == program.entry
               n == pc
               open == frames
    <3>1. RunIs(program, request.bindings, n) /\ FramesFit(plan, all, entry, open, n)
      BY <2>2, RunningIs DEF RunFits
    <3>2. /\ OfKind(plan, "branch") = {} \/ Structured(plan, edges, all)
          /\ entry \in DOMAIN plan /\ ~JoinsUnopened(plan, entry)
      BY <3>1 DEF RunIs
    <3> HIDE DEF plan, all, edges, entry, n, open
    <3>3. CASE OfKind(plan, "branch") = {}
      <4>1. open = <<>> BY <3>1, <3>3, FitsWithoutBranches
      <4>2. Keys(plan) = {} BY <3>3 DEF Keys
      <4>3. {open[i] : i \in DOMAIN open} = {} BY <4>1
      <4> QED BY <4>2, <4>3 DEF plan, n, open
    <3>4. CASE Structured(plan, edges, all)
      <4>1. {open[i] : i \in DOMAIN open} =
              {key \in Keys(plan) :
                \/ n \in Inside(plan, key)
                \/ n = plan[key[1]].join /\ open # <<>> /\ key = open[Len(open)]}
        BY ONLY <3>1, <3>2, <3>4, OpenIsInside
      <4> QED BY <4>1 DEF plan, n, open
    <3> QED BY <3>2, <3>3, <3>4
  <2> QED BY <2>1, <2>2
<1> QED BY <1>1, RoutesInvariant, PTL

\* A request finds every variable it uses, unless its capture was missed in the
\* iteration (validatePlannedTemplates, workerVariables).
THEOREM VariablesResolve == Spec => []TemplatesResolve
<1>1. IInv /\ RoutesInv => TemplatesResolve
  <2> SUFFICES ASSUME IInv, RoutesInv, RunningStep("request"), NEW name \in program.step[pc].uses
               PROVE  name \in Available \cup missed
    BY DEF TemplatesResolve
  <2> DEFINE dom == Dominators(Edges(program.plan, TRUE), program.entry)
  <2>1. pc # None /\ program.plan[pc].kind = "step" /\ program.step[pc].kind = "request"
    BY DEF RunningStep, Running
  <2>2. /\ RunIs(program, request.bindings, pc) /\ IsSequence(frames)
        /\ ValuesFit(program.step, dom, frames, values, missed, pc)
    BY <2>1, RunningIs DEF RunFits
  <2>3. pc \in DOMAIN program.step /\ TemplatesDefined(program.step, pc, request.bindings, dom)
    BY <2>1, <2>2 DEF RunIs, OfKind
  <2> HIDE DEF dom
  <2>4. CASE name \in request.bindings BY <2>4 DEF Available
  <2>5. CASE name \notin request.bindings
    <3>1. PICK producer \in (dom[pc] \cap DOMAIN program.step) \ {pc} :
            name \in Captured(program.step[producer])
      BY <2>3, <2>5 DEF TemplatesDefined
    <3>2. name \in missed \cup Known(values, frames, Len(frames)) BY <2>2, <3>1 DEF ValuesFit
    <3>3. Known(values, frames, Len(frames)) \subseteq Available
      BY <2>2 DEF IsSequence, Known, Available
    <3> QED BY <3>2, <3>3
  <2> QED BY <2>4, <2>5
<1> QED BY <1>1, RoutesInvariant, PTL
=============================================================================
