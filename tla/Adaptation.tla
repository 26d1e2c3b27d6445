------------------------------ MODULE Adaptation ------------------------------
(***************************************************************************)
(* What fabric.py adapts to what it observes: the straggler engine, which  *)
(* compares workers with each other, the grain size engine and the guard   *)
(* of an elastic group against thrashing.  Numbers are whole units; Unit   *)
(* is large enough for the moving averages of MaxObserved observations to  *)
(* be whole as well.  The growing and shrinking itself is WorkerPool's,    *)
(* the speculative replicas TaskRuntime's; records and logs are left out.  *)
(***************************************************************************)
EXTENDS Integers, Sequences, FiniteSets, FiniteSetsExt, SequencesExt

CONSTANTS Watched,        \* the workers that are observed
          Alpha,          \* of the moving average, a fraction <<p, q>>
          Drop,           \* throughput_drop, a fraction
          Sigma,          \* duration_sigma
          DelayLimit, BeatLimit,
          Unit,           \* 1.0 in units
          Speeds, Times,  \* the throughputs and the durations observed, in units
          Delays,         \* the queue delays and the heartbeat latencies
          MaxObserved     \* bound: observations

CONSTANTS TargetPart,     \* target_overhead_fraction, a fraction below one
          MinGrain, MaxGrain,
          Overheads, Costs,
          Window,         \* of the guard, in ticks
          MaxRate,        \* adaptations in a tick, a fraction
          MaxTicks        \* bound: the logical clock

ASSUME AdaptationAssumption ==
    /\ Alpha \in Nat \X (Nat \ {0}) /\ Alpha[1] <= Alpha[2]
    /\ Drop \in Nat \X (Nat \ {0}) /\ Sigma \in Nat /\ Unit \in Nat
    /\ Speeds \subseteq Nat /\ Times \subseteq Nat /\ Delays \subseteq Nat
    /\ TargetPart \in (Nat \ {0}) \X (Nat \ {0}) /\ TargetPart[1] < TargetPart[2]
    /\ MinGrain \in Nat /\ MaxGrain \in Nat
    /\ Overheads \subseteq Nat /\ Costs \subseteq Nat \ {0}
    /\ Window \in Nat \ {0} /\ MaxRate \in Nat \X (Nat \ {0})

VARIABLES ema,            \* throughput_ema: of the workers observed
          durations,      \* of every worker, in order
          queueDelays, heartbeats,
          verdict,        \* of the last detect
          observed,       \* history: the observations, the throughputs of each worker
          speeds
stragglerVars == <<ema, durations, queueDelays, heartbeats, verdict, observed, speeds>>

VARIABLES decision,       \* of the last choose_grain, with what it was chosen for
          probed          \* the runtime has been measured: its probes have their names
grainVars == <<decision, probed>>

VARIABLES time,           \* the group's Lamport clock, which others may tick too
          adaptations,    \* the records: [at, token]
          thrashing       \* thrash_detected
guardVars == <<time, adaptations, thrashing>>
-----------------------------------------------------------------------------
(* StragglerEngine.                                                          *)

StragglerInit ==
    /\ ema = << >> /\ durations = [w \in Watched |-> <<>>]
    /\ queueDelays = [w \in Watched |-> 0] /\ heartbeats = [w \in Watched |-> 0]
    /\ verdict = [slow |-> FALSE, long |-> FALSE, late |-> FALSE, action |-> "NONE"]
    /\ observed = 0 /\ speeds = [w \in Watched |-> {}]

Seen == DOMAIN ema

\* The average with the next value in it, times Alpha[2].
Weighed(w, v) == Alpha[1] * v + (Alpha[2] - Alpha[1]) * ema[w]

Observe == observed < MaxObserved /\ observed' = observed + 1 /\ UNCHANGED verdict

ObserveThroughput(w, v) ==
    /\ Observe
    /\ LET new == IF w \in Seen THEN Weighed(w, v) \div Alpha[2] ELSE v
       IN  ema' = [k \in Seen \cup {w} |-> IF k = w THEN new ELSE ema[k]]
    /\ speeds' = [speeds EXCEPT ![w] = @ \cup {v}]
    /\ UNCHANGED <<durations, queueDelays, heartbeats>>
ObserveDuration(w, d) ==
    /\ Observe /\ durations' = [durations EXCEPT ![w] = Append(@, d)]
    /\ UNCHANGED <<ema, queueDelays, heartbeats, speeds>>
ObserveQueueDelay(w, d) ==
    /\ Observe /\ queueDelays' = [queueDelays EXCEPT ![w] = d]
    /\ UNCHANGED <<ema, durations, heartbeats, speeds>>
ObserveHeartbeat(w, d) ==
    /\ Observe /\ heartbeats' = [heartbeats EXCEPT ![w] = d]
    /\ UNCHANGED <<ema, durations, queueDelays, speeds>>

\* detect: the average below Drop of the peers' mean; without observations the average is
\* 1.0, and without peers the mean is the average itself.
Average(w) == IF w \in Seen THEN ema[w] ELSE Unit
Peers(w) == Seen \ {w}
Slow(w) == LET total == IF Peers(w) = {} THEN Average(w)
                        ELSE MapThenSumSet(LAMBDA k : ema[k], Peers(w))
               count == IF Peers(w) = {} THEN 1 ELSE Cardinality(Peers(w))
           IN  total > 0 /\ Average(w) * count * Drop[2] < Drop[1] * total

\* mutant: the durations' total where their mean is meant
TotalExcess(sum, n, all, m) == sum * m - all
\* The mean of n values less that of m values, times n * m.
Excess(sum, n, all, m) == sum * m - all * n

\* The mean of the worker's durations more than Sigma standard deviations above that of
\* all: n and m are how many, the sums are of the durations and of their squares.
SumOf(s) == FoldLeft(LAMBDA a, b : a + b, 0, s)
SquaresOf(s) == FoldLeft(LAMBDA a, b : a + b * b, 0, s)
Long(w) ==
    LET n == Len(durations[w])
        sum == SumOf(durations[w])
        m == MapThenSumSet(LAMBDA k : Len(durations[k]), Watched)
        all == MapThenSumSet(LAMBDA k : SumOf(durations[k]), Watched)
        spread == m * MapThenSumSet(LAMBDA k : SquaresOf(durations[k]), Watched) - all * all
        above == Excess(sum, n, all, m)
    IN  n > 0 /\ spread > 0 /\ above > 0 /\ above * above > Sigma * Sigma * n * n * spread

Late(w) == queueDelays[w] > DelayLimit \/ heartbeats[w] > BeatLimit

DetectStraggler(w, quantum) ==
    /\ verdict' = [slow |-> Slow(w), long |-> Long(w), late |-> Late(w),
                   action |-> IF ~(Slow(w) \/ Long(w) \/ Late(w)) THEN "NONE"
                              ELSE IF quantum THEN "REROUTE" ELSE "SPECULATE"]
    /\ UNCHANGED <<ema, durations, queueDelays, heartbeats, observed, speeds>>

StragglerNext ==
    \E w \in Watched :
        \/ \E v \in Speeds : ObserveThroughput(w, v)
        \/ \E d \in Times : ObserveDuration(w, d)
        \/ \E d \in Delays : ObserveQueueDelay(w, d) \/ ObserveHeartbeat(w, d)
        \/ \E quantum \in BOOLEAN : DetectStraggler(w, quantum)

StragglerSpec == StragglerInit /\ [][StragglerNext]_stragglerVars
-----------------------------------------------------------------------------
(* GrainSizeEngine.                                                          *)

Smaller(a, b) == IF a <= b THEN a ELSE b
Larger(a, b) == IF a >= b THEN a ELSE b
RoundedDown(x, y) == x \div y                           \* mutant: the grain is rounded down
RoundedUp(x, y) == (x + y - 1) \div y

\* choose_grain: what makes the overhead exactly the target part, rounded up, in bounds.
Grain(overhead, cost) ==
    Smaller(MaxGrain, Larger(MinGrain, RoundedUp(overhead * (TargetPart[2] - TargetPart[1]),
                                                 TargetPart[1] * cost)))

\* No decision yet: as if there were no overhead.
GrainInit == decision = [grain |-> MinGrain, overhead |-> 0, cost |-> 0] /\ probed = FALSE

ChooseGrain(overhead, cost) ==
    decision' = [grain |-> Grain(overhead, cost), overhead |-> overhead, cost |-> cost]

\* adapt measures the runtime first, and fails on one it has measured before.
Adapt(overhead, cost) == ~probed /\ probed' = TRUE /\ ChooseGrain(overhead, cost)

GrainNext == \E overhead \in Overheads, cost \in Costs :
                 Adapt(overhead, cost) \/ (ChooseGrain(overhead, cost) /\ UNCHANGED probed)

GrainSpec == GrainInit /\ [][GrainNext]_grainVars
-----------------------------------------------------------------------------
(* The guard of ElasticWorkerGroup.                                          *)

GuardInit == time = 0 /\ adaptations = <<>> /\ thrashing = FALSE

\* adaptation_rate, times the window, after the adaptation of time t.
Recent(t) == {i \in DOMAIN adaptations : adaptations[i].at > t - Window}
TooMany(n) == n * MaxRate[2] > MaxRate[1] * Window

\* grow or shrink, by none too: the record is there before the guard looks, and stays
\* when a strict guard raises.
Adjust ==
    /\ time < MaxTicks /\ time' = time + 1
    /\ LET token == TooMany(Cardinality(Recent(time + 1)) + 1)
       IN  /\ adaptations' = Append(adaptations, [at |-> time + 1, token |-> token])
           /\ thrashing' = (thrashing \/ token)

\* Another user of the clock: a tick, or a message from ahead.
Elapse(t) == t \in time + 1 .. MaxTicks /\ time' = t /\ UNCHANGED <<adaptations, thrashing>>

GuardNext == Adjust \/ \E t \in 1 .. MaxTicks : Elapse(t)

GuardSpec == GuardInit /\ [][GuardNext]_guardVars
-----------------------------------------------------------------------------
(* Properties.                                                               *)

\* SpeedsAreAverages: a moving average is between the least and the greatest value seen.
SpeedsAreAverages ==
    \A w \in Seen : \E low, high \in speeds[w] : low <= ema[w] /\ ema[w] <= high

\* GrainIsLeast: no smaller grain in bounds meets the target, and the chosen one does
\* unless the bound is below.
Meets(grain, overhead, cost) == overhead * TargetPart[2] <= TargetPart[1] * (overhead + grain * cost)
GrainIsLeast ==
    LET d == decision IN
    /\ \A g \in MinGrain .. d.grain - 1 : ~Meets(g, d.overhead, d.cost)
    /\ d.grain < MaxGrain => Meets(d.grain, d.overhead, d.cost)

\* ThrashIsExact: the guard is tripped for good exactly by an adaptation that is one too
\* many in the window that ends with it.
ThrashIsExact ==
    thrashing <=> \E i \in DOMAIN adaptations :
        TooMany(Cardinality({j \in 1 .. i : adaptations[j].at > adaptations[i].at - Window}))

\* Adaptation goes by what was observed: throughputs are averages of values seen, the
\* grain is the smallest that meets its target within its bounds, and the guard counts
\* every adaptation of its window and no other (observe_throughput, choose_grain, _guard).
AdaptationIsSound == SpeedsAreAverages /\ GrainIsLeast /\ ThrashIsExact

\* The relative signals single workers out: some worker that was observed is not slow,
\* some worker is not long, and one that has nobody to be compared with is neither (detect).
SignalsAreRelative ==
    /\ Seen # {} => \E w \in Seen : ~Slow(w)
    /\ \E w \in Watched : ~Long(w)
    /\ \A w \in Watched : Seen \subseteq {w} => ~Slow(w)
    /\ \A w \in Watched : (\A k \in Watched \ {w} : durations[k] = <<>>) => ~Long(w)
=============================================================================
