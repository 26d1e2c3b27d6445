------------------------------ MODULE Routing ------------------------------
(* The routers of planner.py over a small topology: Dijkstra with congestion, *)
(* the candidates of k_shortest, hysteresis and reservations; entanglement    *)
(* routes through time windows, and the allocation of ebit demands. Costs are *)
(* integers (congestion scaled by Scale), nodes and links are numbered in the *)
(* order of their ids.                                                        *)
EXTENDS Integers, Sequences, FiniteSets
LOCAL INSTANCE SequencesExt

CONSTANTS NumSites,
          Wires,           \* classical: [ends, cost, capacity, zone]
          QWires,          \* quantum: [ends, setup, herald, latency, capacity, window, fidelity, pure]
          Scale,           \* a multiple of every classical capacity
          Pairs,           \* the pairs routes are asked for
          Avoids,          \* the sets of failure domains a request avoids
          Margin,          \* the hysteresis, in percent
          MaxSelects, MaxHeld,       \* bounds: requests, routes reserved at a time
          Demands, Target, MaxPurify \* sequences of <<src, dst, n>>; a fidelity <<p, q>>
ASSUME RoutingAssumption == \A l \in DOMAIN Wires : Wires[l].cost > 0 /\ Scale % Wires[l].capacity = 0

VARIABLES reservations,    \* per classical link
          last,            \* the route kept for a pair: [links, cost]; cost -1: none yet
          held,            \* the routes reserved and not released, as link sequences
          flow,            \* the last allocation: [routes, residual, unmet]
          requests
routingVars == <<reservations, last, held, flow, requests>>

Sites == 1 .. NumSites
NoRoute == [links |-> <<>>, cost |-> -1]
OtherEnd(ends, u) == IF ends[1] = u THEN ends[2] ELSE ends[1]
Touches(ends, u) == u \in {ends[1], ends[2]}

\* What a link costs: its message time under the routes reserved on it.
Weight(l) == (Wires[l].cost * Scale * (Wires[l].capacity + reservations[l])) \div Wires[l].capacity

\* An entanglement link takes rounds of purification until the target is met; a
\* later round replaces the first only if it ends earlier.
Purified(f) == <<f[1] * f[1], f[1] * f[1] + (f[2] - f[1]) * (f[2] - f[1])>>
AfterRounds(l, r) == FoldLeft(LAMBDA f, i : IF QWires[l].pure THEN Purified(f) ELSE f,
                              QWires[l].fidelity, [i \in 1 .. r |-> i])
Completion(l, r) == QWires[l].setup + QWires[l].herald + QWires[l].latency
                    + IF QWires[l].pure THEN 2 * r * QWires[l].setup ELSE 0
After(f, l, r) == <<f[1] * AfterRounds(l, r)[1], f[2] * AfterRounds(l, r)[2]>>
MeetsTarget(f) == f[1] * Target[2] >= Target[1] * f[2]
BestLocal(d, f, l) ==
    FoldLeft(LAMBDA x, r :
        LET nd == d + Completion(l, r)
            met == MeetsTarget(After(f, l, r))
        IN  IF x.over \/ nd > QWires[l].window THEN x
            ELSE [best |-> IF x.best[1] < 0 \/ (met /\ nd < x.best[1]) THEN <<nd, After(f, l, r)>> ELSE x.best,
                  over |-> met],
        [best |-> <<-1, f>>, over |-> FALSE], [r \in 1 .. MaxPurify + 1 |-> r - 1]).best

\* The arrival over link l, and the fidelity then, when it is left at d with
\* fidelity f; -1: the link cannot be used.
Network(how) == IF how.quantum THEN QWires ELSE Wires
Crossing(how, d, f, l) ==
    IF how.quantum THEN IF QWires[l].window < d THEN <<-1, f>> ELSE BestLocal(d, f, l)
    ELSE <<IF l \in how.banned \/ Wires[l].zone \in how.avoid THEN -1 ELSE d + Weight(l), f>>

\* Both routers are the loop of _dijkstra and route: the nearest node that was not
\* seen, the first of those. A label is replaced by a strictly earlier arrival.
Newest(s) == CHOOSE u \in DOMAIN s.dist \ s.seen :               \* mutant: not the nearest
               \A v \in DOMAIN s.dist \ s.seen : s.dist[v] < s.dist[u] \/ (s.dist[u] = s.dist[v] /\ u <= v)
Nearest(s) == CHOOSE u \in DOMAIN s.dist \ s.seen :
                   \A v \in DOMAIN s.dist \ s.seen : s.dist[u] < s.dist[v] \/ (s.dist[u] = s.dist[v] /\ u <= v)
Relaxed(s, u, l, v, c) ==
    IF c[1] < 0 \/ (v \in DOMAIN s.dist /\ s.dist[v] <= c[1]) THEN s
    ELSE [s EXCEPT !.dist = [w \in DOMAIN @ \union {v} |-> IF w = v THEN c[1] ELSE @[w]],
                   !.fid = [w \in DOMAIN @ \union {v} |-> IF w = v THEN c[2] ELSE @[w]],
                   !.prev = [w \in DOMAIN @ \union {v} |-> IF w = v THEN <<u, l>> ELSE @[w]]]
RECURSIVE Walk(_, _)
Walk(s, cur) == IF cur \notin DOMAIN s.prev THEN <<>> ELSE Append(Walk(s, s.prev[cur][1]), s.prev[cur][2])
Traced(s, dst) == IF dst \in DOMAIN s.dist THEN [links |-> Walk(s, dst), cost |-> s.dist[dst]] ELSE NoRoute
RECURSIVE Search(_, _, _)
Search(how, dst, s) ==
    IF DOMAIN s.dist \ s.seen = {} \/ dst \in s.seen THEN Traced(s, dst)
    ELSE LET u == Nearest(s)
             links == Network(how)
             far(l) == OtherEnd(links[l].ends, u)
             out == SelectSeq([l \in DOMAIN links |-> l],
                              LAMBDA l : Touches(links[l].ends, u) /\ far(l) \notin s.seen)
             t == FoldLeft(LAMBDA x, l : Relaxed(x, u, l, far(l), Crossing(how, x.dist[u], x.fid[u], l)),
                           s, out)
         IN  Search(how, dst, [t EXCEPT !.seen = @ \union {u}])
Found(how, src, dst) ==
    Search(how, dst, [dist |-> [w \in {src} |-> 0], fid |-> [w \in {src} |-> <<1, 1>>],
                      prev |-> [w \in {} |-> <<0, 0>>], seen |-> {}])
-----------------------------------------------------------------------------
(* ClassicalRouter.                                                          *)

Shortest(src, dst, banned, avoid) == Found([quantum |-> FALSE, banned |-> banned, avoid |-> avoid], src, dst)

\* k_shortest with k = 3: the middle link of each route is banned for the next.
Middles(routes) == {r.links[Len(r.links) \div 2 + 1] : r \in {q \in ToSet(routes) : q.links # <<>>}}
KShortest(src, dst, avoid) ==
    SelectSeq(FoldLeft(LAMBDA routes, i : Append(routes, Shortest(src, dst, Middles(routes), avoid)),
                       <<>>, <<1, 2, 3>>),
              LAMBDA r : r # NoRoute)

\* select: the kept route, with the cost it had, unless the best of the
\* candidates is cheaper by more than the margin.
Select(src, dst, avoid) ==
    /\ requests < MaxSelects /\ requests' = requests + 1
    /\ \E cands \in {KShortest(src, dst, avoid)}, prev \in {last[<<src, dst>>]} :
          last' = IF \/ cands = <<>>
                     \/ prev.links # <<>> /\ cands[1].cost * 100 > prev.cost * (100 - Margin)
                  THEN last ELSE [last EXCEPT ![<<src, dst>>] = cands[1]]
    /\ UNCHANGED <<reservations, held, flow>>

Once(links, l) == Cardinality({i \in DOMAIN links : links[i] = l})
Reserve(p) ==
    /\ last[p].links # <<>> /\ Len(held) < MaxHeld
    /\ reservations' = [l \in DOMAIN Wires |-> reservations[l] + Once(last[p].links, l)]
    /\ held' = Append(held, last[p].links) /\ UNCHANGED <<last, flow, requests>>
Release(i) ==                                    \* of a route that was reserved
    /\ reservations' = [l \in DOMAIN Wires |-> IF reservations[l] > Once(held[i], l)
                                                THEN reservations[l] - Once(held[i], l) ELSE 0]
    /\ held' = RemoveAt(held, i) /\ UNCHANGED <<last, flow, requests>>
-----------------------------------------------------------------------------
(* QuantumRouter.                                                            *)

QRoute(src, dst) == Found([quantum |-> TRUE, banned |-> {}, avoid |-> {}], src, dst)

\* min_cost_flow: each unit of a demand takes the same best route while all its
\* links have capacity.
Unit(x, demand) ==
    LET r == QRoute(demand[1], demand[2])
    IN  IF r = NoRoute \/ \E i \in DOMAIN r.links : x.residual[r.links[i]] <= 0
        THEN [x EXCEPT !.unmet = @ + 1]
        ELSE [x EXCEPT !.routes = Append(@, r.links),
                       !.residual = [l \in DOMAIN @ |-> @[l] - Once(r.links, l)]]
Full == [l \in DOMAIN QWires |-> QWires[l].capacity]
Allocate(demands) ==
    /\ requests < MaxSelects /\ requests' = requests + 1
    /\ flow' = FoldLeft(Unit, [routes |-> <<>>, residual |-> Full, unmet |-> 0],
                        FlattenSeq([k \in DOMAIN demands |-> [i \in 1 .. demands[k][3] |-> demands[k]]]))
    /\ UNCHANGED <<reservations, last, held>>

RoutingInit == /\ reservations = [l \in DOMAIN Wires |-> 0] /\ last = [p \in Pairs |-> NoRoute]
               /\ held = <<>> /\ requests = 0
               /\ flow = [routes |-> <<>>, residual |-> Full, unmet |-> 0]
RoutingNext == \/ \E p \in Pairs : Reserve(p) \/ \E a \in Avoids : Select(p[1], p[2], a)
               \/ \E i \in DOMAIN held : Release(i)
               \/ \E demands \in Demands : Allocate(demands)
-----------------------------------------------------------------------------
(* Properties.                                                               *)

\* The paths that use no link twice, as the reference.
RECURSIVE PathsFrom(_, _, _, _)
PathsFrom(links, u, dst, used) ==
    (IF u = dst THEN {<<>>} ELSE {})
    \union UNION {{<<l>> \o p : p \in PathsFrom(links, OtherEnd(links[l].ends, u), dst, used \union {l})} :
                    l \in {k \in DOMAIN links \ used : Touches(links[k].ends, u)}}
WirePaths == [p \in Pairs |-> PathsFrom(Wires, p[1], p[2], {})]
QPaths == [p \in Pairs |-> PathsFrom(QWires, p[1], p[2], {})]
CostOf(path) == FoldLeft(LAMBDA d, l : d + Weight(l), 0, path)
\* When the last pair of a path is heralded, every one within its window; -1: too late.
ArrivalOf(path) ==
    FoldLeft(LAMBDA d, l : IF d < 0 \/ d + Completion(l, 0) > QWires[l].window THEN -1
                           ELSE d + Completion(l, 0), 0, path)
Earliest(r, paths, Of(_)) ==
    IF r = NoRoute THEN \A q \in paths : Of(q) < 0
    ELSE r.links \in paths /\ Of(r.links) = r.cost /\ \A q \in paths : Of(q) >= 0 => r.cost <= Of(q)

\* Under every load and around every set of avoided domains, the route found
\* costs what it says and no path costs less, none is found only when there is
\* none, and the further candidates differ and do not cost less; the load is
\* exactly the routes that are reserved. An entanglement route ends earliest of
\* all whose unpurified pairs are used within their windows, and an allocation
\* gives away no link beyond its capacity (ClassicalRouter._dijkstra, k_shortest,
\* reserve, release, QuantumRouter.route, min_cost_flow).
RoutesAreSound ==
    requests > 0 =>          \* nothing was asked for yet
    /\ \A p \in Pairs, a \in Avoids :
          \A r \in {Shortest(p[1], p[2], {}, a)} :
             Earliest(r, {q \in WirePaths[p] : \A i \in DOMAIN q : Wires[q[i]].zone \notin a}, CostOf)
    /\ \A p \in Pairs, a \in Avoids :
          \A routes \in {KShortest(p[1], p[2], a)} :
             \A i, j \in DOMAIN routes : i < j => routes[i].links # routes[j].links
                                                /\ routes[i].cost <= routes[j].cost
    /\ \A l \in DOMAIN Wires : reservations[l] = FoldLeft(LAMBDA n, h : n + Once(h, l), 0, held)
    /\ \A p \in Pairs : \A r \in {QRoute(p[1], p[2])} : Earliest(r, QPaths[p], ArrivalOf)
    /\ \A l \in DOMAIN QWires :
          /\ flow.residual[l] >= 0
          /\ flow.residual[l] + FoldLeft(LAMBDA n, h : n + Once(h, l), 0, flow.routes) = QWires[l].capacity
=============================================================================
