---------------------------- MODULE EventStructure ----------------------------
(* The scheduling event structure (ses.py): the dependency edges between the   *)
(* rows of a program, added row by row, the analysis of the partial order they *)
(* generate, and the admission of unordered pairs to one schedule layer. Node  *)
(* i is the i-th row. The reasons written on edges, scopes and reports are     *)
(* left out, and so is an admission that consults a topology.                  *)
EXTENDS CommutationAuthority

CONSTANTS NodeMenu,         \* rows, with link, lane, executable and duration
          Entanglements,    \* what verification may have found: key -> partners
          MaxNodes          \* rows of a program: a model bound
\* A cell that is not NULL names an object.
ASSUME StructureAssumption == \A row \in NodeMenu : row.out # <<>> => ToSet(row.out) # {}

VARIABLES nodes,            \* the rows so far
          edges,            \* pairs of nodes
          partners,         \* entangled_with, of the verified program
          lastWriter,       \* key -> the last node that wrote it
          lastReaders,      \* key -> nodes that read it since
          producer,         \* cell -> the measurement that wrote it
          linkLast, laneLast

structureVars == <<nodes, edges, partners, lastWriter, lastReaders, producer, linkLast, laneLast>>

StructureInit ==
    /\ nodes = <<>> /\ edges = {} /\ partners \in Entanglements
    /\ lastWriter = << >> /\ lastReaders = << >> /\ producer = << >>
    /\ linkLast = << >> /\ laneLast = << >>

At(f, k) == IF k \in DOMAIN f THEN {f[k]} ELSE {}
AtAny(f, keys) == UNION {At(f, k) : k \in keys}
With(f, keys, v) == [k \in DOMAIN f \union keys |-> IF k \in keys THEN v ELSE f[k]]
Named(cell) == IF cell = "-" THEN {} ELSE {cell}

\* The nodes an added row depends on.
Entangling(row) == UNION AtAny(partners, Touches(row))
DataSources(row) ==
    AtAny(lastWriter, Touches(row)) \union UNION AtAny(lastReaders, Writes(row))
WritersOnly(row) == AtAny(lastWriter, Touches(row))   \* mutant: readers are not waited for
Data(row) == DataSources(row)
ControlSource(row) ==
    IF row.op \in ClassicalControl THEN At(producer, IF row.ctrl # <<>> THEN row.ctrl ELSE row.a) ELSE {}
Sources(row) ==
    Data(row) \union ControlSource(row)
    \union AtAny(lastWriter, Entangling(row)) \union AtAny(linkLast, Named(row.link))
    \union (IF row.op \in {"BARRIER", "FENCE", "EPOCH"} THEN DOMAIN nodes ELSE {})
    \union (IF row.op \in {"REGION_BEGIN", "REGION_END"} THEN AtAny(laneLast, Named(row.lane)) ELSE {})

AddRow(row) ==
    LET n == Len(nodes) + 1
    IN  /\ n <= MaxNodes
        /\ nodes' = Append(nodes, row)
        /\ edges' = edges \union {<<m, n>> : m \in Sources(row)}
        /\ producer' = IF row.op \in Destructive /\ row.out # <<>>
                       THEN With(producer, {row.out}, n) ELSE producer
        /\ linkLast' = With(linkLast, Named(row.link), n)
        /\ laneLast' = With(laneLast, Named(row.lane), n)
        /\ lastWriter' = With(lastWriter, Writes(row), n)
        /\ lastReaders' =
              [k \in DOMAIN lastReaders \union Touches(row) |->
                  (IF k \in Writes(row) \/ k \notin DOMAIN lastReaders THEN {} ELSE lastReaders[k])
                  \union (IF k \in Reads(row) THEN {n} ELSE {})]
        /\ UNCHANGED partners

StructureNext == \E row \in NodeMenu : AddRow(row)

StructureSpec == StructureInit /\ [][StructureNext]_structureVars

-----------------------------------------------------------------------------
(* analyze: the partial order.                                               *)

N == DOMAIN nodes
Succ(i) == {e[2] : e \in {f \in edges : f[1] = i}}
Pred(i) == {e[1] : e \in {f \in edges : f[2] = i}}

\* Every edge goes forward, so that Kahn's sort with ties in source order gives
\* the source order, and its reverse visits successors first.
Reach == LET from[k \in 0 .. Len(nodes)] ==              \* of the last k nodes
                IF k = 0 THEN << >>
                ELSE LET i == Len(nodes) + 1 - k
                     IN  With(from[k - 1], {i}, Succ(i) \union UNION {from[k - 1][m] : m \in Succ(i)})
         IN  from[Len(nodes)]
Reduction(reach) == {e \in edges : ~\E m \in Succ(e[1]) \ {e[2]} : e[2] \in reach[m]}

\* Earliest finish, and the predecessor it waits for: one of the latest.
Finish == LET upto[k \in 0 .. Len(nodes)] ==
                 IF k = 0 THEN << >>
                 ELSE With(upto[k - 1], {k}, nodes[k].duration
                           + Max({0} \union {upto[k - 1][p] : p \in Pred(k)}))
          IN  upto[Len(nodes)]
Span == Max({0} \union Range(Finish))
CriticalPath ==
    LET end == Min({i \in N : Finish[i] = Span})
        back[k \in N] ==
            IF \A p \in Pred(k) : Finish[p] = 0 THEN <<k>>
            ELSE LET p == CHOOSE p \in Pred(k) : \A q \in Pred(k) : Finish[q] <= Finish[p]
                 IN  Append(back[p], k)
    IN  IF N = {} THEN <<>> ELSE back[end]
Level == LET upto[k \in 0 .. Len(nodes)] ==
                IF k = 0 THEN << >>
                ELSE With(upto[k - 1], {k}, 1 + Max({-1} \union {upto[k - 1][p] : p \in Pred(k)}))
         IN  upto[Len(nodes)]

\* Kuhn's augmenting search: try the nodes u reaches, in order; a free one, or
\* one whose partner can move on, is matched to u. Seen nodes are not retried.
Augmented(reach, u, st) ==
    LET partial == UNION {[matched -> N] : matched \in SUBSET N}
        states == [match : partial, seen : SUBSET N, found : BOOLEAN]
        try[w \in N, todo \in SUBSET N, s \in states] ==
            IF todo = {} THEN [s EXCEPT !.found = FALSE]
            ELSE LET v == Min(todo)
                     seen == [s EXCEPT !.seen = @ \union {v}]
                     moved == IF v \notin DOMAIN s.match THEN [seen EXCEPT !.found = TRUE]
                              ELSE try[s.match[v], reach[s.match[v]], seen]
                 IN  IF v \in s.seen THEN try[w, todo \ {v}, s]
                     ELSE IF moved.found THEN [moved EXCEPT !.match = With(@, {v}, w)]
                     ELSE try[w, todo \ {v}, moved]
    IN  try[u, reach[u], st]
Width(reach) ==
    LET upto[k \in 0 .. Len(nodes)] ==
            IF k = 0 THEN [match |-> << >>, size |-> 0]
            ELSE LET got == Augmented(reach, k, [match |-> upto[k - 1].match, seen |-> {}, found |-> FALSE])
                 IN  [match |-> got.match, size |-> upto[k - 1].size + IF got.found THEN 1 ELSE 0]
    IN  Len(nodes) - upto[Len(nodes)].size

-----------------------------------------------------------------------------
(* admit_concurrency: what is decided of two nodes that are not ordered.     *)

OwnDisjoint(a, b) == /\ Writes(a) \intersect Touches(b) = {}
                     /\ Writes(b) \intersect Reads(a) = {}
Admit(a, b) ==
    LET status == Verdict(a, b)
    IN  IF ~OwnDisjoint(a, b) THEN "SERIALIZE_OWNERSHIP"
        ELSE IF {a.op, b.op} \subseteq Destructive /\ Reads(a) \intersect Reads(b) # {}
             THEN "SERIALIZE_MEASUREMENT"
        ELSE IF status \in {"NON_COMMUTING", "UNRESOLVED"} THEN "SERIALIZE_COUPLING"
        ELSE IF a.link # "-" /\ a.link = b.link THEN "SERIALIZE_RESOURCE"
        ELSE IF status = "COMMUTING_TARGET_CONDITIONAL" THEN "PARALLEL_TARGET_CONDITIONAL"
        ELSE "PARALLEL_EXACT"
Candidates(reach) ==
    {p \in N \X N : /\ p[1] < p[2] /\ p[2] \notin reach[p[1]]
                    /\ nodes[p[1]].executable /\ nodes[p[2]].executable}

-----------------------------------------------------------------------------
(* Properties.                                                               *)

\* The analysis is exact on the program so far: reachability is the closure of
\* the edges, the reduction is the least relation with that closure, no two
\* nodes of a level are ordered, the critical path is a path as long as the
\* span and no path is longer, and the width is the size of a largest antichain
\* (ses.py, analyze, _exact_max_antichain).
Chains == {p \in {SetToSortSeq(s, LAMBDA i, j : i < j) : s \in (SUBSET N) \ {{}}} :
             \A i \in 1 .. Len(p) - 1 : <<p[i], p[i + 1]>> \in edges}
Duration(path) == FoldSeq(LAMBDA i, t : nodes[i].duration + t, 0, path)
AnalysisIsExact ==
    LET reach == Reach
        paths == Chains
        ordered == {<<p[1], p[Len(p)]>> : p \in {q \in paths : Len(q) > 1}}
        antichains == {s \in SUBSET N : (s \X s) \intersect ordered = {}}
        level == Level
    IN  nodes = <<>> \/
        /\ {p \in N \X N : p[2] \in reach[p[1]]} = ordered
        /\ Reduction(reach) = {e \in edges : ~\E m \in N : {<<e[1], m>>, <<m, e[2]>>} \subseteq ordered}
        /\ \A p \in ordered : level[p[1]] # level[p[2]]
        /\ CriticalPath \in paths
        /\ Duration(CriticalPath) = Max({Duration(p) : p \in paths}) /\ Duration(CriticalPath) = Span
        /\ Width(reach) = Max({Cardinality(s) : s \in antichains})

\* Two that may share a layer commute, if they are gates the authority embeds as they are
\* (ses.py, admit_concurrency).
AdmittedCommute ==
    \A p \in Candidates(Reach) :
        LET a == nodes[p[1]]
            b == nodes[p[2]]
        IN  /\ Admit(a, b) \in {"PARALLEL_EXACT", "PARALLEL_TARGET_CONDITIONAL"}
            /\ IsGate(a) /\ IsGate(b) /\ Oriented(a) /\ Oriented(b)
            => Commute(Meant(a), Meant(b), Touches(a) \union Touches(b))

\* Whatever holds of i and is passed on along the edges holds of j.
Precedes(i, j) ==
    \A S \in SUBSET N : (i \in S /\ \A e \in edges : e[1] \in S => e[2] \in S) => j \in S

Conflict(a, b) ==
    \/ ~OwnDisjoint(a, b)
    \/ a.link = b.link /\ a.link # "-"
    \/ /\ a.op \in Destructive /\ b.op \in ClassicalControl
       /\ a.out = b.ctrl /\ a.out # <<>>

\* Two rows one of which writes what the other touches, that use one link, or of which the
\* first measures the condition of the second, keep their order: the edges lead from the
\* one to the other, whatever rows came between, and never back (ses.py, build_ses).
ConflictsAreOrdered ==
    /\ \A e \in edges : e[1] < e[2]
    /\ \A i, j \in N : i < j /\ Conflict(nodes[i], nodes[j]) => Precedes(i, j)
=============================================================================
