---------------------------- MODULE Collectives ----------------------------
(* The collectives of fabric.py. A worker's value is its rank, a chunk for    *)
(* worker r is r, an all-to-all block from r to c is r * n + c, and a         *)
(* reduction concatenates, so a result tells which values reached it and in   *)
(* what order. A computation is a record of the workers' buffers and of the   *)
(* transfers made so far, in the order the code makes them; the byte and step *)
(* counts of a transfer are left out.                                         *)
EXTENDS Integers, Sequences, FiniteSets, SequencesExt

CONSTANT MaxRanks
ASSUME MaxRanksAssumption == MaxRanks \in Nat \ {0}

VARIABLE call                   \* the last collective run, with its result
collectiveVars == <<call>>

Algorithms == {"tree", "ring", "recursive_doubling", "pairwise", "linear"}
Rooted == {"BROADCAST", "SCATTER", "GATHER", "REDUCE"}
Operations == Rooted \union {"ALLGATHER", "ALLREDUCE", "SCAN", "ALLTOALL"}

Ranks(n) == 0 .. n - 1
Span(lo, hi) == [i \in 1 .. hi - lo |-> lo + i - 1]          \* lo, ..., hi - 1
Around(n, from) == [i \in 1 .. n |-> (from + i - 1) % n]
Others(n, root) == SelectSeq(Span(0, n), LAMBDA r : r # root)
\* The distances 1, 2, 4, ... below n.
Doublings(n) == SelectSeq([i \in 1 .. n |-> 2 ^ (i - 1)], LAMBDA d : d < n)
Partner(r, dist) == IF (r \div dist) % 2 = 0 THEN r + dist ELSE r - dist    \* r ^ dist

PowerOfTwo(n) == \E i \in 0 .. n : n = 2 ^ i

Start(buf) == [buf |-> buf, transfers |-> <<>>]
Empty(n) == [r \in Ranks(n) |-> <<>>]
Own(n) == [r \in Ranks(n) |-> <<r>>]
\* src sends the block, and dst's buffer becomes val.
Move(c, src, dst, block, val) ==
    [buf |-> [c.buf EXCEPT ![dst] = val],
     transfers |-> Append(c.transfers, [src |-> src, dst |-> dst, block |-> block])]
Send(c, src, dst, block) == Move(c, src, dst, block, c.buf[dst])
Copy(c, src, dst) == Move(c, src, dst, c.buf[src], c.buf[src])
Keep(c, r, val) == [c EXCEPT !.buf[r] = val]
-----------------------------------------------------------------------------
(* Broadcast.                                                                *)

BcastRank(v, dist, root, lo, n) ==
    LET tr == ((v - lo) % n) + dist
    IN  IF tr < n THEN {lo + ((tr + (root - lo)) % n)} ELSE {}
BcastRound(c, have, dist, root, lo, n) ==
    FoldLeft(LAMBDA s, v : IF BcastRank(v, dist, root, lo, n) = {} THEN s
                           ELSE LET d == CHOOSE d \in BcastRank(v, dist, root, lo, n) : TRUE
                                IN  <<Copy(s[1], v, d), Append(s[2], d)>>,
             <<c, have>>, have)
BinomialBcast(c, root, lo, hi) ==
    FoldLeft(LAMBDA s, dist : BcastRound(s[1], s[2], dist, root, lo, hi - lo),
             <<c, <<root>>>>, Doublings(hi - lo))[1]

Broadcast(n, root, val, alg) ==
    LET c == Start([Empty(n) EXCEPT ![root] = val])
    IN  CASE alg \in {"linear", "pairwise"} ->
                 FoldLeft(LAMBDA s, r : Copy(s, root, r), c, Others(n, root))
          [] alg = "ring" -> FoldLeft(LAMBDA s, r : Copy(s, r, (r + 1) % n), c,
                                      SubSeq(Around(n, root), 1, n - 1))
          [] OTHER -> BinomialBcast(c, root, 0, n)
-----------------------------------------------------------------------------
(* Scatter and gather.                                                       *)

RECURSIVE ScatterHalving(_, _, _, _)
ScatterHalving(c, holder, lo, hi) ==
    LET mid == (lo + hi) \div 2
    IN  IF hi - lo <= 1 THEN Keep(c, lo, <<lo>>)
        ELSE IF holder < mid
        THEN ScatterHalving(ScatterHalving(Send(c, holder, mid, Span(mid, hi)), holder, lo, mid),
                            mid, mid, hi)
        ELSE ScatterHalving(ScatterHalving(Send(c, holder, lo, Span(lo, mid)), lo, lo, mid),
                            holder, mid, hi)

Scatter(n, root, alg) ==
    LET c == Start([Empty(n) EXCEPT ![root] = <<root>>])
    IN  CASE alg \in {"linear", "pairwise"} ->
                 FoldLeft(LAMBDA s, r : Move(s, root, r, <<r>>, <<r>>), c, Others(n, root))
          [] alg = "ring" ->
                 FoldLeft(LAMBDA s, i : LET dst == (root + i) % n
                                        IN  Move(s, (root + i - 1) % n, dst,
                                                 SubSeq(Around(n, root), i + 1, n), <<dst>>),
                          c, Span(1, n))
          [] OTHER -> ScatterHalving(Start(Empty(n)), root, 0, n)

\* The halves climb to mid (or lo) and to the target, and the target joins them.
RECURSIVE Climb(_, _, _, _)
Climb(c, target, lo, hi) ==
    LET mid == (lo + hi) \div 2
        low == Climb(c, target, lo, mid)
        both == Climb(low, mid, mid, hi)
        left == Climb(c, lo, lo, mid)
        two == Climb(left, target, mid, hi)
    IN  IF hi - lo <= 1 THEN c
        ELSE IF target < mid
        THEN Move(both, mid, target, both.buf[mid], both.buf[target] \o both.buf[mid])
        ELSE Move(two, lo, target, two.buf[lo], two.buf[lo] \o two.buf[target])

OnlyAt(c, n, root, val) == [c EXCEPT !.buf = [Empty(n) EXCEPT ![root] = val]]

Gather(n, root, alg) ==
    LET sent == FoldLeft(LAMBDA s, r : Send(s, r, root, <<r>>), Start(Own(n)), Others(n, root))
        ring == FoldLeft(LAMBDA s, r : Move(s, r, (r + 1) % n, s.buf[r],
                                            IF (r + 1) % n = root THEN s.buf[r]
                                            ELSE s.buf[r] \o <<(r + 1) % n>>),
                         Start(Own(n)), SubSeq(Around(n, (root + 1) % n), 1, n - 1))
        ordered == <<root>> \o ring.buf[root]
        tree == Climb(Start(Own(n)), root, 0, n)
    IN  IF n = 1 THEN Start(Own(n))
        ELSE CASE alg \in {"linear", "pairwise"} -> OnlyAt(sent, n, root, Span(0, n))
               [] alg = "ring" -> OnlyAt(ring, n, root, IF Len(ordered) = n THEN Span(0, n)
                                                        ELSE ordered)
               [] OTHER -> OnlyAt(tree, n, root, SortSeq(tree.buf[root], <))
-----------------------------------------------------------------------------
(* All-gather: a buffer is read in rank order, so it is the set of ranks     *)
(* whose values are in it, as a sequence.                                    *)

InOrder(S) == SetToSortSeq(S, <)
With(buf, S) == InOrder(ToSet(buf) \union S)

\* Every rank passes on what it received last, at once.
RingRound(c, carry, n) ==
    FoldLeft(LAMBDA s, r : Move(s, r, (r + 1) % n, <<carry[r]>>,
                                With(s.buf[(r + 1) % n], {carry[r]})),
             c, Span(0, n))
Paired(n, dist) == SelectSeq(Span(0, n), LAMBDA r : Partner(r, dist) < n)

AllgatherDoubling(n) ==
    LET Round(c, dist) ==
            FoldLeft(LAMBDA s, r : LET p == Partner(r, dist)
                                   IN  Move(s, r, p, c.buf[r], With(c.buf[p], ToSet(c.buf[r]))),
                     c, Paired(n, dist))
        doubled == FoldLeft(Round, Start(Own(n)), Doublings(n))
        Fill(c, r) == FoldLeft(LAMBDA s, i : IF i \in ToSet(s.buf[r]) THEN s
                                             ELSE Move(s, i, r, <<i>>, With(s.buf[r], {i})),
                               c, Span(0, n))
    IN  FoldLeft(Fill, doubled, Span(0, n))

AllgatherPairwise(n) ==
    LET Exchange(c, a, b) == Move(Move(c, a, b, <<a>>, With(c.buf[b], {a})),
                                  b, a, <<b>>, With(c.buf[a], {b}))
    IN  FoldLeft(LAMBDA c, a : FoldLeft(LAMBDA s, b : Exchange(s, a, b), c, Span(a + 1, n)),
                 Start(Own(n)), Span(0, n))

Allgather(n, alg) ==
    LET g == Gather(n, 0, alg)
    IN  CASE n = 1 -> Start(Own(n))
          [] n > 1 /\ alg = "ring" ->
                 FoldLeft(LAMBDA s, k : RingRound(s, [r \in Ranks(n) |-> (r - k) % n], n),
                          Start(Own(n)), Span(0, n - 1))
          [] n > 1 /\ alg = "recursive_doubling" -> AllgatherDoubling(n)
          [] n > 1 /\ alg = "pairwise" -> AllgatherPairwise(n)
          [] n > 1 /\ alg = "linear" -> FoldLeft(LAMBDA s, r : Copy(s, 0, r), g, Span(1, n))
          [] n > 1 /\ alg = "tree" -> BinomialBcast(g, 0, 0, n)
-----------------------------------------------------------------------------
(* Reductions: fn is the concatenation.                                      *)

Reduce(n, root, alg) ==
    LET sent == FoldLeft(LAMBDA s, r : Send(s, r, root, <<r>>), Start(Own(n)), Others(n, root))
        ring == FoldLeft(LAMBDA s, r : Move(s, r, (r + 1) % n, s.buf[r],
                                            IF (r + 1) % n = root THEN s.buf[r]
                                            ELSE s.buf[r] \o <<(r + 1) % n>>),
                         Start(Own(n)), SubSeq(Around(n, (root + 1) % n), 1, n - 1))
        tree == Climb(Start(Own(n)), root, 0, n)
    IN  IF n = 1 THEN Start(Own(n))
        ELSE CASE alg \in {"linear", "pairwise"} ->
                      OnlyAt(sent, n, root, <<root>> \o Others(n, root))
               [] alg = "ring" -> OnlyAt(ring, n, root, <<root>> \o ring.buf[root])
               [] OTHER -> OnlyAt(tree, n, root, tree.buf[root])

AllreduceRing(n) ==
    LET Shift(s, k) ==
            LET carry == [r \in Ranks(n) |-> (r - k) % n]
            IN  FoldLeft(LAMBDA t, r : Move(t, r, (r + 1) % n, <<carry[r]>>,
                                            t.buf[(r + 1) % n] \o <<carry[r]>>),
                         s, Span(0, n))
    IN  FoldLeft(Shift, Start(Own(n)), Span(0, n - 1))

Doubled(n) ==
    LET Exchange(c, dist) ==
            FoldLeft(LAMBDA s, r : LET p == Partner(r, dist)
                                   IN  Move(s, r, p, c.buf[r],
                                            IF r < p THEN c.buf[r] \o c.buf[p]
                                            ELSE c.buf[p] \o c.buf[r]),
                     c, Paired(n, dist))
    IN  FoldLeft(Exchange, Start(Own(n)), Doublings(n))
\* Rank from sends the total to every rank that does not have it.
RepairFrom(c, n, from) ==
    FoldLeft(LAMBDA s, r : IF s.buf[r] = Span(0, n) THEN s
                           ELSE Move(s, from, r, Span(0, n), Span(0, n)), c, Span(0, n))
Repair(c, n) == RepairFrom(c, n, 0)
AllreduceDoubling(n) ==
    IF PowerOfTwo(n) /\ \A d \in ToSet(Doublings(n)) : Len(Paired(n, d)) = n
    THEN Doubled(n) ELSE Repair(Doubled(n), n)

Allreduce(n, alg) ==
    LET r0 == Reduce(n, 0, alg)
        b == Broadcast(n, 0, r0.buf[0], alg)
    IN  CASE n = 1 -> Start(Own(n))
          [] n > 1 /\ alg = "ring" -> AllreduceRing(n)
          [] n > 1 /\ alg = "recursive_doubling" -> AllreduceDoubling(n)
          [] OTHER -> [b EXCEPT !.transfers = r0.transfers \o @]
-----------------------------------------------------------------------------
(* Inclusive prefix scan.                                                    *)

ScanDoubling(n) ==
    LET Round(c, dist) ==
            FoldLeft(LAMBDA s, i : Move(s, n - i - dist, n - i, c.buf[n - i - dist],
                                        c.buf[n - i - dist] \o c.buf[n - i]),
                     c, Span(1, n - dist + 1))
    IN  FoldLeft(Round, Start(Own(n)), Doublings(n))

\* The recursion returns its computation and the total of its range.
RECURSIVE ScanTree(_, _, _)
ScanTree(c, lo, hi) ==
    LET mid == (lo + hi) \div 2
        left == ScanTree(c, lo, mid)
        right == ScanTree(left.c, mid, hi)
        sent == BinomialBcast([right.c EXCEPT !.buf = [@ EXCEPT ![mid] = left.total]],
                              mid, mid, hi)
    IN  IF hi - lo <= 1 THEN [c |-> c, total |-> c.buf[lo]]
        ELSE [c |-> [buf |-> [r \in DOMAIN c.buf |-> IF r \in mid .. hi - 1
                                                     THEN left.total \o right.c.buf[r]
                                                     ELSE right.c.buf[r]],
                     transfers |-> sent.transfers],
              total |-> left.total \o right.total]

Scan(n, alg) ==
    LET pairs == FoldLeft(LAMBDA c, a : FoldLeft(LAMBDA s, b : Send(s, a, b, <<a>>), c, Span(a + 1, n)),
                          Start(Own(n)), Span(0, n))
    IN  CASE alg \in {"linear", "ring"} ->
                 FoldLeft(LAMBDA s, r : Move(s, r - 1, r, s.buf[r - 1], s.buf[r - 1] \o <<r>>),
                          Start(Own(n)), Span(1, n))
          [] alg = "recursive_doubling" -> ScanDoubling(n)
          [] alg = "pairwise" -> [pairs EXCEPT !.buf = [r \in Ranks(n) |-> Span(0, r + 1)]]
          [] alg = "tree" -> ScanTree(Start(Own(n)), 0, n).c
-----------------------------------------------------------------------------
(* All-to-all: the block from r to c is r * n + c.                           *)

Deliver(s, n, r, c) == Move(s, r, c, <<r * n + c>>, With(s.buf[c], {r * n + c}))
\* Worker r sends to each of the workers To[r], rank by rank.
SendAll(s, n, Targets(_)) ==
    FoldLeft(LAMBDA t, r : FoldLeft(LAMBDA u, c : Deliver(u, n, r, c), t, Targets(r)),
             s, Span(0, n))

Alltoall(n, alg) ==
    LET c0 == Start([r \in Ranks(n) |-> <<r * n + r>>])
        doubled == FoldLeft(LAMBDA s, d : SendAll(s, n, LAMBDA r : IF Partner(r, d) < n
                                                                 THEN <<Partner(r, d)>> ELSE <<>>),
                            c0, Doublings(n))
        missing(r) == SelectSeq(Span(0, n), LAMBDA c : r * n + c \notin ToSet(doubled.buf[c]))
    IN  CASE alg \in {"linear", "tree"} -> SendAll(c0, n, LAMBDA r : Others(n, r))
          [] alg \in {"pairwise", "ring"} ->
                 FoldLeft(LAMBDA s, k : SendAll(s, n, LAMBDA r : <<(r + k) % n>>), c0, Span(1, n))
          [] alg = "recursive_doubling" -> SendAll(doubled, n, missing)
-----------------------------------------------------------------------------
(* Dispatch and selection.                                                   *)

Collective(op, n, root, alg) ==
    CASE op = "BROADCAST" -> Broadcast(n, root, <<root>>, alg)
      [] op = "SCATTER" -> Scatter(n, root, alg)
      [] op = "GATHER" -> Gather(n, root, alg)
      [] op = "REDUCE" -> Reduce(n, root, alg)
      [] op = "ALLGATHER" -> Allgather(n, alg)
      [] op = "ALLREDUCE" -> Allreduce(n, alg)
      [] op = "SCAN" -> Scan(n, alg)
      [] op = "ALLTOALL" -> Alltoall(n, alg)

\* The first rule that matches; large: the message is 64 KiB or more, chain: the
\* topology is a ring, a line or a chain.
SelectAlgorithm(op, n, large, chain) ==
    IF n <= 1 THEN "linear"
    ELSE IF n = 2 THEN "pairwise"
    ELSE IF chain THEN "ring"
    ELSE IF op = "ALLTOALL" THEN "pairwise"
    ELSE IF op \in {"ALLREDUCE", "ALLGATHER"} /\ large THEN "ring"
    ELSE IF op \in {"ALLREDUCE", "ALLGATHER", "SCAN"} /\ PowerOfTwo(n) THEN "recursive_doubling"
    ELSE IF op \in Rooted /\ n >= 4 THEN "tree"
    ELSE "linear"

CollectiveInit == call = [op |-> "none"]

\* A collective run with an algorithm the caller names.
RunNamed ==
    \E op \in Operations, n \in 1 .. MaxRanks, alg \in Algorithms :
        \E root \in (IF op \in Rooted THEN Ranks(n) ELSE {0}) :
            call' = [op |-> op, n |-> n, root |-> root, algorithm |-> alg, chain |-> FALSE,
                     result |-> Collective(op, n, root, alg)]

\* A collective run with the algorithm the rules select.
RunSelected ==
    \E op \in Operations, n \in 1 .. MaxRanks, large, chain \in BOOLEAN :
        \E root \in (IF op \in Rooted THEN Ranks(n) ELSE {0}) :
            LET alg == SelectAlgorithm(op, n, large, chain)
            IN  call' = [op |-> op, n |-> n, root |-> root, algorithm |-> alg, chain |-> chain,
                         result |-> Collective(op, n, root, alg)]

CollectiveNext == call.op = "none" /\ (RunNamed \/ RunSelected)

CollectiveSpec == CollectiveInit /\ [][CollectiveNext]_collectiveVars
-----------------------------------------------------------------------------
(* Properties.                                                               *)

Called == call.op # "none"
Permutation(s, n) == Len(s) = n /\ ToSet(s) = Ranks(n)
BinomialTree == call.algorithm \in {"tree", "recursive_doubling"}

Expected(r) ==
    LET n == call.n
        val == call.result.buf[r]
    IN  CASE call.op = "BROADCAST" -> val = <<call.root>>
          [] call.op = "SCATTER" -> val = <<r>>
          [] call.op = "GATHER" -> val = IF r = call.root THEN Span(0, n) ELSE <<>>
          [] call.op = "ALLGATHER" -> val = Span(0, n)
          [] call.op = "REDUCE" -> IF r # call.root THEN val = <<>>
                                   ELSE IF BinomialTree THEN val = Span(0, n)
                                   ELSE Permutation(val, n) /\ Head(val) = r
          [] call.op = "ALLREDUCE" -> IF call.algorithm = "ring" THEN Permutation(val, n)
                                      ELSE val = Span(0, n)
          [] call.op = "SCAN" -> val = Span(0, r + 1)
          [] call.op = "ALLTOALL" -> ToSet(val) = {q * n + r : q \in Ranks(n)}

\* Whatever the algorithm, a collective gives every worker what its operation
\* promises: nothing lost, nothing twice, and in rank order wherever the
\* schedule keeps it. A binomial broadcast from a root other than 0 is left to
\* BroadcastReachesAll (fabric.py, Collectives).
AlgorithmsAgree ==
    Called /\ ~(call.op = "BROADCAST" /\ BinomialTree /\ call.root # 0)
        => \A r \in Ranks(call.n) : Expected(r)

\* A broadcast reaches every worker in its range, whichever the root
\* (fabric.py, _binomial_bcast: "Binomial broadcast of buf[root] into ranks").
BroadcastReachesAll ==
    Called /\ call.op = "BROADCAST" => \A r \in Ranks(call.n) : Expected(r)
=============================================================================
