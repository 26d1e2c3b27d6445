------------------------------- MODULE Planner -------------------------------
(* From a program to a schedule (planner.py): the hypergraph partitioner with  *)
(* its refinement and exact oracle, the placer, and the temporal scheduler.    *)
(* The partitioner coarsens programs of more than eight rows only, and those   *)
(* explored are smaller. Costs that no assignment changes (failure exposure,   *)
(* error, coherence, energy) are left out of the cost, and ratios are cleared  *)
(* of their denominators. A route's delay is the topology's; crosstalk, error  *)
(* and coherence reports are left out.                                         *)
EXTENDS EventStructure

CONSTANTS LineageOf,        \* key -> lineage, of the objects verification knows
          Targets,          \* sequence of [name, capacity, memory, ops, valid] in name order
          Delay,            \* <<target, target>> -> t_message of the best route
          Weights,          \* cost dimension -> weight, in quarters
          PartCounts, Modes,\* what callers ask for
          MaxPlanned        \* rows of a program that is planned: a model bound

VARIABLE plan               \* the last plan of the program, or NoPlan

plannerVars == <<structureVars, plan>>

NoPlan == [made |-> FALSE]
PlannerInit == StructureInit /\ plan = NoPlan

\* --- partition ---
Placeable == LET run == {i \in N : nodes[i].executable} IN IF run = {} THEN N ELSE run
Lineages(i) == {LineageOf[k] : k \in Touches(nodes[i]) \intersect DOMAIN LineageOf}
\* one hyperedge for each object, lineage and link that several rows share;
\* "of" keeps equal sets of pins apart
Hyperedges ==
    LET over(things, has(_, _), weight, kind) ==
            {[of |-> <<kind, x>>, pins |-> {i \in N : has(i, x)}, weight |-> weight, kind |-> kind] : x \in things}
        objects == over(UNION {Touches(nodes[i]) : i \in N}, LAMBDA i, x : x \in Touches(nodes[i]), 4, "object")
        lineage == over(Range(LineageOf), LAMBDA i, x : x \in Lineages(i), 8, "entanglement")
        links == over(UNION {Named(nodes[i].link) : i \in N}, LAMBDA i, x : nodes[i].link = x, 2, "resource")
    IN  {h \in objects \union lineage \union links : Cardinality(h.pins) > 1}

SumOver(f(_), set) == MapThenSumSet(f, set)
Spread(h, assign) == Cardinality({assign[i] : i \in h.pins \intersect DOMAIN assign})
Load(assign, p, amount(_)) == SumOver(amount, {i \in DOMAIN assign : assign[i] = p})
Heaviest(assign, k, amount(_)) == Max({Load(assign, p, amount) : p \in 0 .. k - 1})
Dur(i) == nodes[i].duration
Mem(i) == nodes[i].memory
\* (max - avg) / avg of the loads, times their total
Imbalance(assign, k, amount(_)) == k * Heaviest(assign, k, amount) - SumOver(amount, DOMAIN assign)

\* The weighted cost, times eighty and both totals.
Cost(hedges, assign, k) ==
    LET cut == {h \in hedges : Spread(h, assign) > 1}
        comm == SumOver(LAMBDA h : h.weight * (Spread(h, assign) - 1), cut)
        remote == SumOver(LAMBDA h : Spread(h, assign) - 1, {h \in cut : h.kind = "entanglement"})
        time == SumOver(Dur, DOMAIN assign)
        memory == SumOver(Mem, DOMAIN assign)
        whole == Weights.cut * Cardinality(cut) + Weights.comm * comm
                 + (Weights.remote + Weights.ebits) * remote + Weights.latency * (2 * comm + 8 * remote)
    IN  20 * time * memory * whole
        + 20 * Weights.memory * time * Imbalance(assign, k, Mem)
        + 20 * Weights.compute * memory * Imbalance(assign, k, Dur)
        + 21 * Weights.makespan * time * memory * Heaviest(assign, k, Dur)

\* balance_tolerance is a quarter
WithinTolerance(assign, k) == 4 * Imbalance(assign, k, Dur) <= SumOver(Dur, DOMAIN assign)
AnyBalance(assign, k) == TRUE                           \* mutant: the constraint is dropped
Balanced(assign, k) == WithinTolerance(assign, k)

GreedySeed(order, k) == [i \in Range(order) |-> ((CHOOSE x \in DOMAIN order : order[x] = i) - 1) % k]

\* One pass tries every other part for every node and keeps what is cheaper.
RefinePass(hedges, order, assign, k) ==
    LET try(best, m) ==
            LET i == order[1 + (m \div k)]
                trial == [best EXCEPT ![i] = m % k]
            IN  IF /\ assign[i] # m % k /\ Balanced(trial, k)
                   /\ Cost(hedges, trial, k) < Cost(hedges, best, k)
                THEN trial ELSE best
        after[m \in 0 .. Len(order) * k] == IF m = 0 THEN assign ELSE try(after[m - 1], m - 1)
    IN  after[Len(order) * k]
\* At most eight passes, the last of which improves nothing.
Refine(hedges, order, seed, k) ==
    LET from[n \in 0 .. 8, assign \in [Range(order) -> 0 .. k - 1]] ==
            LET better == RefinePass(hedges, order, assign, k)
            IN  IF n = 0 \/ better = assign THEN assign ELSE from[n - 1, better]
    IN  from[8, seed]

\* The oracle tries every balanced assignment that puts the first node in part 0.
Oracle(todo, k) ==
    {a \in [todo -> 0 .. k - 1] : a[Min(todo)] = 0 /\ Balanced(a, k)}
Cheapest(exact) == CHOOSE c \in exact : \A d \in exact : c[1] <= d[1]
Improved(k, hedges, refined, exact) ==
    [k |-> k, optimum |-> IF exact = {} THEN -1 ELSE Cheapest(exact)[1],
     assign |-> IF exact # {} /\ Cheapest(exact)[1] < Cost(hedges, refined, k)
                THEN Cheapest(exact)[2] ELSE refined]
PartitionInto(k, hedges, order) ==
    Improved(k, hedges, Refine(hedges, order, GreedySeed(order, k), k),
            {<<Cost(hedges, a, k), a>> : a \in Oracle(Range(order), k)})
Partition(asked) ==
    PartitionInto(Max({1, Min({asked, Cardinality(Placeable)})}), Hyperedges,
                  SetToSortSeq(Placeable, LAMBDA i, j : i < j))

\* --- place ---
Unplaced == "unplaced"
\* Parts in order take the valid target with the least use, the first of them.
Placement(assign) ==
    LET members(p) == {i \in DOMAIN assign : assign[i] = p}
        fits(t, used, p) ==
            /\ used[t] + Cardinality(members(p)) <= Targets[t].capacity
            /\ Targets[t].ops = {} \/ {nodes[i].op : i \in members(p)} \subseteq Targets[t].ops
            /\ SumOver(Mem, members(p)) <= Targets[t].memory /\ Targets[t].valid
        step[p \in -1 .. Max(Range(assign))] ==
            IF p = -1 THEN [used |-> [t \in DOMAIN Targets |-> 0], at |-> << >>]
            ELSE LET s == step[p - 1]
                     fit == {t \in DOMAIN Targets : fits(t, s.used, p)}
                     best == Min({t \in fit : \A u \in fit : s.used[t] <= s.used[u]})
                 IN  IF members(p) = {} \/ fit = {} THEN s
                     ELSE [used |-> [s.used EXCEPT ![best] = @ + Cardinality(members(p))],
                           at |-> With(s.at, {p}, Targets[best].name)]
    IN  step[Max(Range(assign))].at
\* Rows that were not partitioned go where part 0 goes.
TargetOf(assign, place, i) ==
    LET p == IF i \in DOMAIN assign THEN assign[i] ELSE 0
    IN  IF p \in DOMAIN place THEN place[p] ELSE Unplaced

\* --- schedule ---
Bottom == LET from[k \in 0 .. Len(nodes)] ==
                 IF k = 0 THEN << >>
                 ELSE LET i == Len(nodes) + 1 - k
                      IN  With(from[k - 1], {i}, Dur(i) + Max({0} \union {from[k - 1][m] : m \in Succ(i)}))
          IN  from[Len(nodes)]
Priority(mode, i) ==
    CASE mode = "ASAP" -> -Level[i]
      [] mode = "ALAP" -> Level[i]
      [] mode = "COMMUNICATION_AWARE" -> Bottom[i] + 2 * Cardinality(Entangling(nodes[i]))
      [] mode = "FIDELITY_AWARE" -> Bottom[i] * (1 + nodes[i].errors)
      [] mode = "CRITICAL_PATH" -> Bottom[i]
Placed(assign, place, i) == i \in DOMAIN assign /\ TargetOf(assign, place, i) # Unplaced
Crosses(assign, place, e) ==
    /\ Placed(assign, place, e[1]) /\ Placed(assign, place, e[2])
    /\ TargetOf(assign, place, e[1]) # TargetOf(assign, place, e[2])
CommDelay(assign, place, e) ==
    LET way == <<TargetOf(assign, place, e[1]), TargetOf(assign, place, e[2])>>
    IN  IF Crosses(assign, place, e) /\ way \in DOMAIN Delay THEN Delay[way] ELSE 0

NoReadiness(st, i, on, delay) ==             \* mutant: a message is not waited for
    LET begin == Max({0} \union {st.end[m] : m \in {m \in DOMAIN st.end : on[m] = on[i] \/ m \in Pred(i)}})
    IN  [start |-> With(st.start, {i}, begin), end |-> With(st.end, {i}, begin + Dur(i))]
\* Runs nodes in turn, each on its target when that and its predecessors allow.
Run(st, i, on, delay) ==
    LET ready == Max({0} \union {st.end[p] + delay[<<p, i>>] : p \in Pred(i)})
        free == Max({0} \union {st.end[m] : m \in {m \in DOMAIN st.end : on[m] = on[i]}})
        begin == Max({ready, free})
    IN  [start |-> With(st.start, {i}, begin), end |-> With(st.end, {i}, begin + Dur(i))]
NoTimes == [start |-> << >>, end |-> << >>]
\* Passes over the nodes by priority run those whose predecessors have run.
Pending(mode) == SetToSortSeq(N, LAMBDA i, j : \/ Priority(mode, i) > Priority(mode, j)
                                               \/ Priority(mode, i) = Priority(mode, j) /\ i < j)
Timed(mode, on, delay) ==
    LET once == Pending(mode)
        n == Len(nodes)
        upto[s \in 0 .. n * n] ==
            IF s = 0 THEN NoTimes
            ELSE LET i == once[1 + ((s - 1) % n)]
                     st == upto[s - 1]
                 IN  IF i \in DOMAIN st.end \/ ~Pred(i) \subseteq DOMAIN st.end THEN st
                     ELSE Run(st, i, on, delay)
    IN  upto[n * n]
Makespan(st) == Max({0} \union Range(st.end))

\* The exact search tries every order that respects the edges, without delays.
Orders == {o \in SetToSeqs(N) : \A a, b \in DOMAIN o : <<o[a], o[b]>> \in edges => a < b}
ExactMakespan(on) ==
    Min({Makespan(FoldLeft(LAMBDA st, i : Run(st, i, on, [e \in edges |-> 0]), NoTimes, o)) : o \in Orders})

Scheduled(part, place, on, mode) ==
    [made |-> TRUE, part |-> part, place |-> place, on |-> on,
     blocked |-> {e \in edges : /\ Crosses(part.assign, place, e)
                                /\ <<on[e[1]], on[e[2]]>> \notin DOMAIN Delay},
     times |-> Timed(mode, on, [e \in edges |-> CommDelay(part.assign, place, e)]),
     optimum |-> ExactMakespan(on)]
PlacedPlan(part, place, mode) ==
    Scheduled(part, place, [i \in N |-> TargetOf(part.assign, place, i)], mode)
PlanOf(part, mode) == PlacedPlan(part, Placement(part.assign), mode)

MakePlan(asked, mode) ==
    /\ Len(nodes) \in 1 .. MaxPlanned /\ ~plan.made
    /\ plan' = PlanOf(Partition(asked), mode)
    /\ UNCHANGED structureVars

PlannerNext == \/ StructureNext /\ ~plan.made /\ UNCHANGED plan
               \/ \E k \in PartCounts, mode \in Modes : MakePlan(k, mode)

-----------------------------------------------------------------------------
(* Properties.                                                               *)

\* The oracle's cost is the least of all balanced assignments, whichever part
\* holds the first node, and the plan's is no higher (planner.py, _exact_oracle:
\* "Symmetry is broken by fixing the first node to partition 0"; partition).
PartitionIsOptimal ==
    plan.made =>
        LET k == plan.part.k
            hedges == Hyperedges
            balanced == {a \in [Placeable -> 0 .. k - 1] : WithinTolerance(a, k)}
            costs == {Cost(hedges, a, k) : a \in balanced}
        IN  /\ plan.part.optimum = IF costs = {} THEN -1 ELSE Min(costs)
            /\ costs # {} => Cost(hedges, plan.part.assign, k) <= Min(costs)

\* Every row runs, after its predecessors and the messages they send, alone on
\* its target; no target holds more than its capacity; and no schedule for the
\* same placement, even without messages, beats the optimum the plan claims,
\* nor does the plan (planner.py, place, schedule, _exact_makespan).
PlanIsFeasible ==
    plan.made =>
        LET t == plan.times
            horizon == SumOver(Dur, N)
            legal(start) ==
                /\ \A e \in edges : start[e[1]] + Dur(e[1]) <= start[e[2]]
                /\ \A i, j \in N : i < j /\ plan.on[i] = plan.on[j] =>
                      \/ start[i] + Dur(i) <= start[j] \/ start[j] + Dur(j) <= start[i]
        IN  /\ DOMAIN t.start = N /\ legal(t.start)
            /\ \A e \in edges : t.end[e[1]] + CommDelay(plan.part.assign, plan.place, e) <= t.start[e[2]]
            /\ \A x \in DOMAIN Targets :
                  Cardinality({i \in DOMAIN plan.part.assign : plan.on[i] = Targets[x].name})
                  <= Targets[x].capacity
            /\ \A start \in [N -> 0 .. horizon] :
                  legal(start) => \E i \in N : start[i] + Dur(i) >= plan.optimum
            /\ plan.optimum <= Makespan(t)

\* The plan places rows as well, and runs them as correctly, as it claims, and what the
\* analysis says of the rows is true (analyze, admit_concurrency, partition, place, schedule).
PlanIsSound == AnalysisIsExact /\ AdmittedCommute /\ PartitionIsOptimal /\ PlanIsFeasible
=============================================================================
