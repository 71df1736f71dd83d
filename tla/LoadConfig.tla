----------------------------- MODULE LoadConfig -----------------------------
(***************************************************************************)
(* The load of a run: what preflight makes of a request (bridge/           *)
(* preflight.go), what the engine accepts and compiles (engine/config.go,  *)
(* profile.go), and how it is split over workers (distributed/shard.go).   *)
(*                                                                         *)
(* A configuration is one record for bridge.LoadConfig and engine.Config:  *)
(* toEngineConfigWithRuntime copies it field by field and turns            *)
(* milliseconds into durations, which are milliseconds here. NoProfile is  *)
(* a nil Profile. Only the fields that are split, bounded or estimated are *)
(* kept; Scenario has those of the steps and the plan.                     *)
(***************************************************************************)
EXTENDS Integers, Sequences

MaxVirtualUsers == 100000
MaxLoadProfileVirtualUsers == 100000
MaxRateLimitRPS == 10000000
MaxLoadStages == 64
Hour == 3600000
MaxRequestDelay == 300000
DefaultVirtualUsers == 1
DefaultRequestTimeout == 5000
DefaultMaxConnsPerHost == 10000
DefaultLatencySampleRate == 1

\* bridge.LoadProfile, as it is submitted.
StageRecord == [duration : Int, target : Int]
ProfileRecord ==
  [mode : STRING, start : Int, stages : Seq(StageRecord), pre : Int, max : Int, graceful : Int]

NoProfile == [mode |-> "nil", start |-> 0, stages |-> <<>>, pre |-> 0, max |-> 0,
              graceful |-> 0]

ArrivalModes == {"constant-arrival-rate", "ramping-arrival-rate"}
ConstantModes == {"constant-vus", "constant-arrival-rate"}
Modes == ArrivalModes \cup ConstantModes \cup {"ramping-vus"}

IfZero(value, default) == IF value = 0 THEN default ELSE value
Least(S) == CHOOSE m \in S : \A n \in S : m <= n
Greatest(S) == CHOOSE m \in S : \A n \in S : n <= m

-----------------------------------------------------------------------------
(* compileConfig and compileLoadProfile, on the load.                      *)

HasProfile(c) == c.profile.mode \notin {"nil", ""}
Targets(p) == {p.start} \cup {p.stages[i].target : i \in DOMAIN p.stages}
Peak(p) == Greatest(Targets(p))

\* One stage that holds the start target.
Constant(p) == p.start >= 1 /\ Len(p.stages) = 1 /\ p.stages[1].target = p.start

ValidPool(p) ==
  /\ 1 <= p.pre /\ p.pre <= MaxLoadProfileVirtualUsers
  /\ p.pre <= p.max /\ p.max <= MaxLoadProfileVirtualUsers

ValidProfile(p, rate) ==
  /\ p.graceful >= 0
  /\ 1 <= Len(p.stages) /\ Len(p.stages) <= MaxLoadStages
  /\ \A i \in DOMAIN p.stages : p.stages[i].duration > 0
  /\ \A t \in Targets(p) : t >= 0
  /\ \E t \in Targets(p) : t > 0
  /\ p.mode \in Modes
  /\ p.mode \in ConstantModes => Constant(p)
  /\ p.mode \notin ArrivalModes => \A t \in Targets(p) : t <= MaxLoadProfileVirtualUsers
  /\ p.mode \in ArrivalModes =>
       (\A t \in Targets(p) : t <= MaxRateLimitRPS) /\ ValidPool(p) /\ rate = 0

ValidLoad(c) ==
  /\ c.users >= 0 /\ c.conns >= 0 /\ c.timeout >= 0 /\ c.duration >= 0
  /\ c.ramp >= 0 /\ c.sample >= 0
  /\ 0 <= c.rate /\ c.rate <= MaxRateLimitRPS
  /\ HasProfile(c) => ValidProfile(c.profile, c.rate)

\* The compiled profile: maxWorkers, duration and gracefulStop. Without a
\* profile, the legacy one, which has no graceful window.
MaxWorkers(c) ==
  IF ~HasProfile(c) THEN IfZero(c.users, DefaultVirtualUsers)
  ELSE IF c.profile.mode \in ArrivalModes THEN c.profile.max ELSE Peak(c.profile)

TotalDuration(stages) ==
  LET through[i \in 0 .. Len(stages)] ==
        IF i = 0 THEN 0 ELSE through[i - 1] + stages[i].duration
  IN through[Len(stages)]

Duration(c) == IF HasProfile(c) THEN TotalDuration(c.profile.stages) ELSE c.duration

GracefulStop(c) ==
  IF HasProfile(c)
  THEN IfZero(c.profile.graceful, IfZero(c.timeout, DefaultRequestTimeout)) ELSE 0

-----------------------------------------------------------------------------
(* normalizeLoadConfig, on the load: what it rejects and what it returns.  *)

Within(value, low, high) == low <= value /\ value <= high

\* normalizeBoundedDefault.
WithinOrZero(value, low, high) == value = 0 \/ Within(value, low, high)

\* The stage durations are added up with a check before each addition.
NormalProfileAccepted(p, timeout) ==
  /\ Within(Len(p.stages), 1, MaxLoadStages)
  /\ Within(IfZero(p.graceful, timeout), 1, MaxRequestDelay)
  /\ \A i \in DOMAIN p.stages : Within(p.stages[i].duration, 1, Hour)
  /\ TotalDuration(p.stages) <= Hour
  /\ \E t \in Targets(p) : t > 0
  /\ p.mode \in Modes
  /\ p.mode \in ConstantModes => Constant(p)
  /\ \A t \in Targets(p) :
       Within(t, 0, IF p.mode \in ArrivalModes THEN MaxRateLimitRPS ELSE MaxVirtualUsers)
  /\ p.mode \in ArrivalModes =>
       Within(p.pre, 1, MaxVirtualUsers) /\ Within(p.max, p.pre, MaxVirtualUsers)

NormalProfile(p, timeout) ==
  [p EXCEPT !.graceful = IfZero(@, timeout),
            !.pre = IF p.mode \in ArrivalModes THEN @ ELSE 0,
            !.max = IF p.mode \in ArrivalModes THEN @ ELSE 0]

\* The returned configuration. A profile replaces users, duration and ramp-up.
NormalLoad(c) ==
  LET p == c.profile IN
  [c EXCEPT !.profile = IF p = NoProfile THEN p ELSE NormalProfile(p, c.timeout),
            !.users = IF p = NoProfile THEN @
                      ELSE IF p.mode \in ArrivalModes THEN p.max ELSE Peak(p),
            !.duration = IF p = NoProfile THEN @ ELSE TotalDuration(p.stages),
            !.ramp = IF p = NoProfile THEN @ ELSE 0,
            !.conns = IfZero(@, DefaultMaxConnsPerHost),
            !.sample = IfZero(@, DefaultLatencySampleRate)]

LoadAccepted(c) ==
  LET p == c.profile IN
  /\ Within(c.timeout, 1, MaxRequestDelay)
  /\ p # NoProfile => /\ NormalProfileAccepted(p, c.timeout)
                      /\ p.mode \in ArrivalModes => c.rate = 0
  /\ Within(NormalLoad(c).users, 1, MaxVirtualUsers)
  /\ Within(NormalLoad(c).duration, 1, Hour)
  /\ Within(NormalLoad(c).ramp, 0, Hour)
  /\ WithinOrZero(c.conns, 1, 100000)
  /\ WithinOrZero(c.sample, 1, 1000000)
  /\ Within(c.rate, 0, MaxRateLimitRPS)

\* estimateResources: connections. Memory is a sum of sizes and left out.
MaxScenarioHosts == 32
MaxEstimatedConnections == 50000
Connections(c, hosts) == Least({c.users, c.conns * hosts})
EstimateAccepted(c, hosts) ==
  hosts <= MaxScenarioHosts /\ Connections(c, hosts) <= MaxEstimatedConnections

-----------------------------------------------------------------------------
(* ShardConfigs.                                                           *)

\* Mutant of SplitInteger: the remainder is lost.
SplitIntegerFloor(total, index, count) == total \div count

SplitInteger(total, index, count) ==
  (total \div count) + (IF index < total % count THEN 1 ELSE 0)

\* As many workers as every limit can give one unit to.
ActiveWorkers(c, workers) ==
  LET p == c.profile IN
  Least({workers, IfZero(c.conns, DefaultMaxConnsPerHost)}
        \cup (IF c.rate > 0 THEN {c.rate} ELSE {})
        \cup (IF ~HasProfile(c) THEN {IfZero(c.users, DefaultVirtualUsers)}
              ELSE {Peak(p)} \cup (IF p.mode \in ArrivalModes THEN {p.pre, p.max} ELSE {})))

ShardProfile(p, index, count) ==
  [p EXCEPT !.start = SplitInteger(@, index, count),
            !.stages = [i \in DOMAIN @ |->
              [p.stages[i] EXCEPT !.target = SplitInteger(@, index, count)]],
            !.pre = IF p.mode \in ArrivalModes THEN SplitInteger(@, index, count) ELSE @,
            !.max = IF p.mode \in ArrivalModes THEN SplitInteger(@, index, count) ELSE @]

\* The share of worker index, counted from 0, when count workers share c.
Shard(c, index, count) ==
  [c EXCEPT !.conns = SplitInteger(IfZero(@, DefaultMaxConnsPerHost), index, count),
            !.rate = IF @ > 0 THEN SplitInteger(@, index, count) ELSE @,
            !.users = IF HasProfile(c) THEN @
                      ELSE SplitInteger(IfZero(@, DefaultVirtualUsers), index, count),
            !.profile = IF HasProfile(c) THEN ShardProfile(@, index, count) ELSE @]

Shards(c, workers) ==
  LET count == ActiveWorkers(c, workers)
  IN [i \in 1 .. count |-> Shard(c, i - 1, count)]
=============================================================================
