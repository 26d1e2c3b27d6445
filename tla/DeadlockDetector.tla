-------------------------- MODULE DeadlockDetector --------------------------
(* The deadlock detector of fabric.py: the merged graph of waits, resources   *)
(* and futures, and the report a detection makes of it. Names are their own   *)
(* order; a task that retries, waits or depends is a member of Tasks. The     *)
(* clock ticks with every wait, so a waiting time is a number of waits. The   *)
(* log has a clock of its own, as it has by default.                          *)
EXTENDS Integers, Sequences, FiniteSets

CONSTANTS Tasks, Resources, Futures,       \* disjoint finite sets of numbers
          RetryThreshold, StarvationThreshold,
          MaxCalls                         \* bound: calls into the detector
ASSUME DetectorAssumption ==
    /\ Tasks \union Resources \union Futures \subseteq Nat
    /\ IsFiniteSet(Tasks \union Resources \union Futures)
    /\ RetryThreshold \in Nat /\ StarvationThreshold \in Nat /\ MaxCalls \in Nat

VARIABLES edges, known,    \* known: the nodes the edge table has
          resolved,        \* future -> resolved or not, for the futures it has heard of
          retries, since, clock, calls,
          report           \* what the last detect answered
detectorVars == <<edges, known, resolved, retries, since, clock, calls, report>>

Names == Tasks \union Resources \union Futures
NoReport == [ok |-> TRUE, cycle |-> <<>>, token |-> "none"]

DetectorInit ==
    /\ edges = {} /\ known = {} /\ resolved = <<>> /\ retries = [t \in Tasks |-> 0]
    /\ since = <<>> /\ clock = 0 /\ calls = 0 /\ report = NoReport

CallMade == calls < MaxCalls /\ calls' = calls + 1
Node(S) == known' = known \union S
Edge(a, b) == edges' = edges \union {<<a, b>>}
\* setdefault(task, clock.tick()): the clock ticks, the first wait stays.
WaitingSince(t) ==
    /\ clock' = clock + 1
    /\ since' = IF t \in DOMAIN since THEN since
                ELSE [u \in DOMAIN since \union {t} |-> IF u = t THEN clock + 1 ELSE since[u]]

AddWait(t, u) ==                       \* add_wait, add_resource_wait
    /\ CallMade /\ Node({t, u}) /\ Edge(t, u) /\ WaitingSince(t)
    /\ UNCHANGED <<resolved, retries, report>>
AddResourceHold(t, r) ==
    /\ CallMade /\ Node({t, r}) /\ Edge(r, t)
    /\ UNCHANGED <<resolved, retries, since, clock, report>>
Known(f) == IF f \in DOMAIN resolved THEN resolved
            ELSE [g \in DOMAIN resolved \union {f} |-> g # f /\ resolved[g]]
AddFutureDep(t, f) ==
    /\ CallMade /\ Node({t, f}) /\ Edge(t, f) /\ WaitingSince(t) /\ resolved' = Known(f)
    /\ UNCHANGED <<retries, report>>
ResolveFuture(f) ==
    /\ CallMade /\ Node({f}) /\ resolved' = [Known(f) EXCEPT ![f] = TRUE]
    /\ UNCHANGED <<edges, retries, since, clock, report>>
RecordRetry(t) ==
    /\ CallMade /\ retries' = [retries EXCEPT ![t] = @ + 1]
    /\ UNCHANGED <<edges, known, resolved, since, clock, report>>
ClearWait(t) ==
    /\ CallMade /\ known' = known \ {t}
    /\ edges' = {e \in edges : e[1] # t}
    /\ since' = [u \in DOMAIN since \ {t} |-> since[u]]
    /\ UNCHANGED <<resolved, retries, clock, report>>
-----------------------------------------------------------------------------
(* Detection: a breadth-first search from every node back to itself.         *)

\* What n waits for. A set of numbers is searched in their order.
Blockers(n) == {m \in Names : <<n, m>> \in edges}
Ranked(S) == CHOOSE q \in [1 .. Cardinality(S) -> S] : \A i, j \in DOMAIN q : i < j => q[i] < q[j]

\* One turn of the search: trail is prev, every node reached with the way from start that
\* prev spells; found is the cycle, as soon as there is one.
Turn(s, start) ==
    LET n == Head(s.queue)
        fresh == Blockers(n) \ DOMAIN s.trail
    IN  IF s.queue = <<>> \/ s.found # <<>> THEN s
        ELSE IF start \in Blockers(n) THEN [s EXCEPT !.found = s.trail[n]]
        ELSE [s EXCEPT !.queue = Tail(@) \o Ranked(fresh),
                       !.trail = [m \in DOMAIN @ \union fresh |->
                                      IF m \in fresh THEN Append(s.trail[n], m) ELSE s.trail[m]]]

\* As many turns as there are names: each of them is queued once at most.
Search(start) ==
    LET turns[k \in 0 .. Cardinality(Names)] ==
            IF k = 0 THEN [queue |-> <<start>>, trail |-> [m \in {start} |-> <<start>>], found |-> <<>>]
            ELSE Turn(turns[k - 1], start)
    IN  turns
CycleFrom(start) == Search(start)[Cardinality(Names)].found

\* The shortest of the cycles found, the one with the first start of several.
FirstOne(p, q) == p[1] <= q[1]                              \* mutant: whatever their length
Shorter(p, q) == Len(p) < Len(q) \/ (Len(p) = Len(q) /\ p[1] <= q[1])
MinimalCycle ==
    LET found == {CycleFrom(n) : n \in known} \ {<<>>}
    IN  IF found = {} THEN <<>> ELSE CHOOSE p \in found : \A q \in found : Shorter(p, q)

Storms == {t \in Tasks : retries[t] > RetryThreshold}
Unsatisfied == {f \in DOMAIN resolved : ~resolved[f]}
Starving == {t \in DOMAIN since : clock - since[t] > StarvationThreshold}

\* detect: the gravest of what it found names the report.
Detect ==
    LET cycle == MinimalCycle
    IN  /\ CallMade
        /\ report' = [ok |-> cycle = <<>> /\ Storms \union Unsatisfied \union Starving = {},
                      cycle |-> cycle,
                      token |-> IF cycle # <<>> THEN "deadlock"
                                ELSE IF Storms # {} THEN "livelock"
                                ELSE IF Unsatisfied # {} THEN "unsatisfied"
                                ELSE IF Starving # {} THEN "starvation" ELSE "none"]
        /\ UNCHANGED <<edges, known, resolved, retries, since, clock>>

DetectorNext ==
    \/ \E t \in Tasks : \/ \E u \in Tasks \union Resources : AddWait(t, u)
                        \/ \E r \in Resources : AddResourceHold(t, r)
                        \/ \E f \in Futures : AddFutureDep(t, f)
                        \/ RecordRetry(t) \/ ClearWait(t)
    \/ \E f \in Futures : ResolveFuture(f)
    \/ Detect

DetectorSpec == DetectorInit /\ [][DetectorNext]_detectorVars
-----------------------------------------------------------------------------
(* Properties.                                                               *)

\* k steps along the edges lead back to where they began.
Ring(k) == \E w \in [1 .. k -> Names] : \A i \in 1 .. k : <<w[i], w[(i % k) + 1]>> \in edges
IsCycle(p) == /\ p # <<>>
              /\ \A i \in DOMAIN p : <<p[i], p[(i % Len(p)) + 1]>> \in edges
              /\ \A i, j \in DOMAIN p : p[i] = p[j] => i = j

\* A detection reports a cycle exactly when the merged graph has one, and then
\* the shortest there is, as a real cycle of distinct nodes ("minimal cycle":
\* fabric.py, DeadlockDetector.detect and assert_live).
DetectIsExact ==
    [][calls' # calls /\ Detect =>
         IF \E k \in 1 .. Cardinality(Names) : Ring(k)
         THEN /\ report'.token = "deadlock" /\ ~report'.ok /\ IsCycle(report'.cycle)
              /\ \A k \in 1 .. Len(report'.cycle) - 1 : ~Ring(k)
         ELSE report'.cycle = <<>> /\ report'.token # "deadlock"]_detectorVars
=============================================================================
