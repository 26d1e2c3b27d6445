-------------------------------- MODULE Crdt --------------------------------
(***************************************************************************)
(* Convergent replicated data types and their reconciliation (crdt.py):    *)
(* GCounter, PNCounter, GSet, ORSet, LWWRegister, and AntiEntropy.sync and *)
(* converge over the replicas of one object.  The replicas are numbered in *)
(* the order of their ids.  A value that holds quantum state is refused    *)
(* before anything changes, and hashes stand for the states they are of.   *)
(***************************************************************************)
EXTENDS Naturals, Integers, Sequences, FiniteSets, FiniteSetsExt

CONSTANTS NumReplicas,           \* the replicas are 1..NumReplicas
          Kinds,          \* the data types that are explored
          Elements,       \* elements and values
          MaxRounds       \* converge's max_rounds

ASSUME CrdtAssumption ==
    /\ NumReplicas \in Nat /\ Elements \subseteq Nat \ {0}
    /\ \A k \in Kinds : /\ k.type \in {"GCounter", "PNCounter", "GSet", "ORSet", "LWW"}
                        /\ k.given \subseteq Nat

VARIABLES kind,           \* the type of the replicated object, its clock policy, what its
                          \* clients give (amounts, elements, timestamps to set) and a bound
                          \* on the updates
          replicas,       \* AntiEntropy.replicas
          round,          \* converge's position, or Idle
          updates,        \* history: the updates made, in order
          seen            \* history: the updates that have reached each replica

crdtVars == <<kind, replicas, round, updates, seen>>
-----------------------------------------------------------------------------
Replicas == 1..NumReplicas

Get(f, k) == IF k \in DOMAIN f THEN f[k] ELSE 0
Greater(a, b) == IF a >= b THEN a ELSE b
PointwiseMax(f, g) == [k \in DOMAIN f \cup DOMAIN g |-> Greater(Get(f, k), Get(g, k))]
Put(f, k, v) == [j \in DOMAIN f \cup {k} |-> IF j = k THEN v ELSE f[j]]
Total(f) == MapThenSumSet(LAMBDA k : f[k], DOMAIN f)

EmptyDict == << >>           \* the empty dictionary
NoValue == 0                 \* values are numbers from 1

New == CASE kind.type = "GCounter"  -> [counts |-> EmptyDict]
         [] kind.type = "PNCounter" -> [positive |-> EmptyDict, negative |-> EmptyDict]
         [] kind.type = "GSet"      -> [elements |-> {}]
         [] kind.type = "ORSet"     -> [adds |-> {}, removed |-> {}, counter |-> 0]
         [] kind.type = "LWW"       -> [value |-> NoValue, timestamp |-> 0, writer |-> 0,
                                        version |-> EmptyDict]

\* VERSION_VECTOR_DOMINANCE looks at the version first; when that does not decide, and
\* for the other policies always, the timestamp, the writer and the value's text do.
VersionDominates(a, b) ==
    LET keys == DOMAIN a.version \cup DOMAIN b.version
    IN  /\ \A k \in keys : Get(a.version, k) >= Get(b.version, k)
        /\ \E k \in keys : Get(a.version, k) > Get(b.version, k)

TextAfter(v, w) == w # NoValue /\ (v = NoValue \/ v > w)      \* null is after a digit

Dominates(a, b) ==
    \/ kind.policy = "VERSION_VECTOR" /\ VersionDominates(a, b)
    \/ a.timestamp > b.timestamp
    \/ a.timestamp = b.timestamp /\ a.writer > b.writer
    \/ a.timestamp = b.timestamp /\ a.writer = b.writer /\ TextAfter(a.value, b.value)

MergeLWW(a, b) == LET win == IF Dominates(a, b) THEN a ELSE b
                  IN  [win EXCEPT !.version = PointwiseMax(a.version, b.version)]

\* mutant: the tombstones of the other side are forgotten
MergeAdds(a, b) == [adds |-> a.adds \cup b.adds, removed |-> a.removed,
                    counter |-> Greater(a.counter, b.counter)]
MergeORSet(a, b) == [adds |-> a.adds \cup b.adds, removed |-> a.removed \cup b.removed,
                     counter |-> Greater(a.counter, b.counter)]

Merge(a, b) ==
    CASE kind.type = "GCounter"  -> [counts |-> PointwiseMax(a.counts, b.counts)]
      [] kind.type = "PNCounter" -> [positive |-> PointwiseMax(a.positive, b.positive),
                                     negative |-> PointwiseMax(a.negative, b.negative)]
      [] kind.type = "GSet"      -> [elements |-> a.elements \cup b.elements]
      [] kind.type = "ORSet"     -> MergeORSet(a, b)
      [] kind.type = "LWW"       -> MergeLWW(a, b)

\* What state() and so every hash is made of: an ORSet's counter is not.
State(s) == IF kind.type = "ORSet" THEN [adds |-> s.adds, removed |-> s.removed] ELSE s
-----------------------------------------------------------------------------
Idle == [running |-> FALSE, converged |-> TRUE, rounds |-> 0]

CrdtInit == /\ kind \in Kinds
            /\ replicas = [r \in Replicas |->
                   IF kind.type = "LWW" THEN [New EXCEPT !.writer = r] ELSE New]
            /\ round = Idle /\ updates = <<>>
            /\ seen = [r \in Replicas |-> {}]

\* An update of replica r, logged with what r had seen of the others.
Update(r, s, log) ==
    /\ ~round.running /\ Len(updates) < kind.most
    /\ replicas' = [replicas EXCEPT ![r] = s]
    /\ updates' = Append(updates, [log EXCEPT !.seen = seen[r]])
    /\ seen' = [seen EXCEPT ![r] = @ \cup {Len(updates) + 1}]
    /\ UNCHANGED <<kind, round>>

Log(op, x) == [op |-> op, of |-> x, seen |-> {}]

\* increment of either counter, by 0 too, which leaves a key behind.
Increment(r, n) ==
    \/ /\ kind.type = "GCounter"
       /\ Update(r, [counts |-> Put(replicas[r].counts, r, Get(replicas[r].counts, r) + n)],
                 Log("add", n))
    \/ /\ kind.type = "PNCounter"
       /\ Update(r, [replicas[r] EXCEPT !.positive = Put(@, r, Get(@, r) + n)], Log("add", n))

Decrement(r, n) ==
    /\ kind.type = "PNCounter"
    /\ Update(r, [replicas[r] EXCEPT !.negative = Put(@, r, Get(@, r) + n)], Log("add", -n))

SameTag(r) == <<r, 1>>                          \* mutant: the counter is not used
FreshTag(r) == <<r, replicas[r].counter + 1>>

\* GSet.add and ORSet.add.
Add(r, e) ==
    \/ /\ kind.type = "GSet"
       /\ Update(r, [elements |-> replicas[r].elements \cup {e}], Log("add", e))
    \/ /\ kind.type = "ORSet"
       /\ Update(r, [replicas[r] EXCEPT !.adds = @ \cup {<<e, FreshTag(r)>>},
                                        !.counter = @ + 1], Log("add", e))

\* ORSet.remove: the tags this replica has observed.
Discard(r, e) ==
    /\ kind.type = "ORSet"
    /\ Update(r, [replicas[r] EXCEPT !.removed = @ \cup {a[2] : a \in {x \in replicas[r].adds :
                                                                       x[1] = e}}],
              Log("remove", e))

\* LWWRegister.set with a timestamp, which may be a lower one, and without.
SetAt(r, v, t) ==
    /\ kind.type = "LWW"
    /\ Update(r, [value |-> v, timestamp |-> t, writer |-> r,
                  version |-> Put(replicas[r].version, r, Greater(Get(replicas[r].version, r), t))],
              IF t > replicas[r].timestamp THEN Log("set", <<t, r, v>>) ELSE Log("back", <<t, r, v>>))

Set(r, v) == SetAt(r, v, replicas[r].timestamp + 1)

BothSides(a, b, merged) == [replicas EXCEPT ![a] = merged, ![b] = merged]

\* sync: a's state merged with b's, copied to both.
Exchange(a, b) ==
    LET merged == Merge(replicas[a], replicas[b])
    IN  /\ replicas' = BothSides(a, b, merged)
        /\ seen' = [seen EXCEPT ![a] = seen[a] \cup seen[b], ![b] = seen[a] \cup seen[b]]
        /\ UNCHANGED <<kind, updates>>

Sync(a, b) == ~round.running /\ a # b /\ Exchange(a, b) /\ UNCHANGED round

Converge == /\ ~round.running /\ NumReplicas > 1
            /\ round' = [running |-> TRUE, pair |-> <<1, 2>>, changed |-> FALSE, rounds |-> 1]
            /\ UNCHANGED <<kind, replicas, updates, seen>>

\* The pairs of a round in lexicographic order; the pair of twice the last is past the last one.
NextPair(p) == IF p[2] < NumReplicas THEN <<p[1], p[2] + 1>>
               ELSE IF p[1] < NumReplicas - 1 THEN <<p[1] + 1, p[1] + 2>> ELSE <<NumReplicas, NumReplicas>>

Differs(p) == LET merged == Merge(replicas[p[1]], replicas[p[2]])
              IN  \E i \in {1, 2} : State(replicas[p[i]]) # State(merged)

ConvergePair ==
    /\ round.running /\ round.pair # <<NumReplicas, NumReplicas>>
    /\ Exchange(round.pair[1], round.pair[2])
    /\ round' = [round EXCEPT !.pair = NextPair(@), !.changed = @ \/ Differs(round.pair)]

AllEqual == \A r, s \in Replicas : State(replicas[r]) = State(replicas[s])

\* A round that changed nothing ends converge, and so does the last one allowed.
EndOfRound ==
    /\ round.running /\ round.pair = <<NumReplicas, NumReplicas>>
    /\ round' = IF (AllEqual /\ ~round.changed) \/ round.rounds = MaxRounds
                THEN [running |-> FALSE, converged |-> AllEqual, rounds |-> round.rounds]
                ELSE [round EXCEPT !.pair = <<1, 2>>, !.changed = FALSE, !.rounds = @ + 1]
    /\ UNCHANGED <<kind, replicas, updates, seen>>

CrdtNext ==
    \/ \E r \in Replicas :
          \/ \E n \in kind.given : Increment(r, n) \/ Decrement(r, n)
          \/ \E e \in Elements \cap kind.given : Add(r, e) \/ Discard(r, e)
          \/ \E e \in Elements : Set(r, e)
          \/ \E e \in Elements, t \in kind.given : SetAt(r, e, t)
    \/ \E a, b \in Replicas : Sync(a, b)
    \/ Converge \/ ConvergePair \/ EndOfRound

CrdtSpec == CrdtInit /\ [][CrdtNext]_crdtVars
-----------------------------------------------------------------------------
WrittenBefore(x, y) == x[1] < y[1] \/ (x[1] = y[1] /\ x[2] < y[2])
Ops(r, op) == {u \in seen[r] : updates[u].op = op}

\* The value of a counter, a set or a register is the one its specification gives to the
\* updates that have reached the replica, over whatever path and however often: the sum,
\* the elements added, the elements with an add that no remove had observed, the last
\* write by timestamp and writer as long as no client sets a clock back (value, merge,
\* remove, set).
ValueOfUpdates ==
    \A r \in Replicas :
        CASE kind.type = "GCounter"  -> Total(replicas[r].counts) =
                                        MapThenSumSet(LAMBDA u : updates[u].of, seen[r])
          [] kind.type = "PNCounter" -> Total(replicas[r].positive) - Total(replicas[r].negative) =
                                        MapThenSumSet(LAMBDA u : updates[u].of, seen[r])
          [] kind.type = "GSet"      -> replicas[r].elements = {updates[u].of : u \in seen[r]}
          [] kind.type = "ORSet"     ->
                {a[1] : a \in {x \in replicas[r].adds : x[2] \notin replicas[r].removed}} =
                {updates[u].of : u \in {v \in Ops(r, "add") :
                    \A w \in Ops(r, "remove") : updates[w].of = updates[v].of =>
                                                v \notin updates[w].seen}}
          [] kind.type = "LWW"       -> seen[r] = {} \/ \E u \in seen[r] :
                /\ updates[u].of = <<replicas[r].timestamp, replicas[r].writer, replicas[r].value>>
                /\ Ops(r, "back") = {} => \A v \in seen[r] \ {u} : WrittenBefore(updates[v].of, updates[u].of)

\* verify_crdt_laws, on any replicas the system can hold: merge is commutative,
\* associative and idempotent.
MergeLaws ==
    LET states == {replicas[r] : r \in Replicas}
    IN  /\ \A a \in states : State(Merge(a, a)) = State(a)
        /\ \A a, b \in states : /\ State(Merge(a, b)) = State(Merge(b, a))
                                /\ State(Merge(Merge(a, b), b)) = State(Merge(a, b))
        /\ \A a, b, c \in states : State(Merge(Merge(a, b), c)) = State(Merge(a, Merge(b, c)))

\* The replicas' values are those of their updates, and they can be merged in any
\* order (value, merge, verify_crdt_laws).
ReplicasConverge == ValueOfUpdates /\ MergeLaws
=============================================================================
