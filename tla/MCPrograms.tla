------------------------------ MODULE MCPrograms ------------------------------
(* What a program goes through, one part at a time: the ownership verifier,    *)
(* the commutation authority, the event structure and its planner, the circuit *)
(* and the engine that runs it, the stabilizer simulator, the ledger of ebits,  *)
(* the composition of errors and the coherence exposure of a lineage.          *)
EXTENDS OwnershipVerifier, Planner, StabilizerEngine, EbitLedger, CircuitRun, ErrorAlgebra

CONSTANTS n1, n2, n3

VARIABLE part

Symmetry == Permutations(Nodes)

\* Rows of programs. Keys and cells are numbered.
Row(op, out, ctrl, a, b) ==
    [op |-> op, out |-> out, ctrl |-> ctrl, a |-> a, b |-> b, link |-> "-", lane |-> "-",
     node |-> "-", schema |-> "ok", quantum |-> FALSE, angle |-> FALSE, executable |-> TRUE,
     duration |-> 1, memory |-> 1, errors |-> 0]
Linked(row, link) == [row EXCEPT !.link = link]

VerifierRows ==
    LET at(row, node) == [row EXCEPT !.node = node]
    IN  {Row("PREP0", <<"q1">>, <<>>, <<>>, <<>>), Row("PREP0", <<"q1", "q2">>, <<>>, <<>>, <<>>),
         at(Row("PREP0", <<"q1">>, <<>>, <<>>, <<>>), "n"), Row("H", <<>>, <<>>, <<"q1">>, <<>>),
         Row("CX", <<>>, <<"q1">>, <<"q2">>, <<>>), Row("CX", <<>>, <<"q1">>, <<"q1">>, <<>>),
         Row("MEASURE", <<"c">>, <<>>, <<"q1">>, <<>>), Row("MEASURE", <<>>, <<"q2">>, <<>>, <<>>),
         Linked(Row("TELEPORT", <<"q2">>, <<>>, <<"q1">>, <<>>), "l"),
         at(Linked(Row("TELEPORT", <<"q2", "q3">>, <<>>, <<"q1", "q2">>, <<>>), "l"), "n"),
         Linked(Row("EPR_RESERVE", <<"e">>, <<>>, <<>>, <<>>), "l"),
         Row("EPR_RELEASE", <<>>, <<>>, <<"e">>, <<>>), Linked(Row("REMOTE_CNOT", <<>>, <<"q1">>, <<"q2">>, <<>>), "l"),
         Row("FEEDBACK", <<"q2">>, <<"c">>, <<"q2">>, <<>>), Row("DEPHASE", <<>>, <<>>, <<"q2">>, <<>>),
         Row("MERGE", <<"q3">>, <<>>, <<"q1">>, <<"q2">>), Row("NOTE", <<>>, <<>>, <<>>, <<>>),
         [Row("NOTE", <<>>, <<>>, <<>>, <<>>) EXCEPT !.schema = "unknown"],
         Row("DECLARE_NODE", <<"n">>, <<>>, <<>>, <<>>), Linked(Row("HERALD", <<>>, <<>>, <<"e">>, <<>>), "l")}
DeclaredSets == {{}, {"l", "n"}}

OneWire == {"I", "X", "Y", "Z", "H", "S", "SDG", "T", "TDG", "RX", "RY", "RZ", "PHASE", "U",
            "DEPHASE", "DEPOLARIZE", "MEASURE", "FEEDBACK", "BARRIER"}
AuthorityRows ==
    LET angled(row) == [row EXCEPT !.angle = TRUE]
        wires == {<<1, 2>>, <<2, 1>>, <<2, 3>>}
    IN  {angled(Row(op, <<>>, <<>>, <<1>>, <<>>)) : op \in OneWire}
        \union {angled(Row("RESET", <<>>, <<>>, <<1>>, <<>>)), Row("RX", <<>>, <<>>, <<1>>, <<>>),
                angled(Row("CCX", <<1>>, <<2>>, <<3>>, <<>>))}
        \union {angled(Row(g, <<>>, <<w[1]>>, <<w[2]>>, <<>>)) : g \in {"CX", "CZ", "CY", "CH"}, w \in wires}
        \union {angled(Row(g, <<>>, <<>>, <<w[1]>>, <<w[2]>>)) : g \in {"SWAP", "ISWAP"}, w \in wires}
RowPairs == AuthorityRows \X AuthorityRows

PlannedRows ==
    {Row("H", <<>>, <<>>, <<1>>, <<>>), [Row("X", <<>>, <<>>, <<2>>, <<>>) EXCEPT !.errors = 1],
     [Row("MEASURE", <<4>>, <<>>, <<1>>, <<>>) EXCEPT !.duration = 3],
     [Row("CX", <<>>, <<1>>, <<2>>, <<>>) EXCEPT !.duration = 2, !.memory = 2],
     [Linked(Row("CZ", <<>>, <<1>>, <<3>>, <<>>), "l") EXCEPT !.duration = 2, !.memory = 2],
     [Linked(Row("REGION_BEGIN", <<>>, <<>>, <<>>, <<>>), "l") EXCEPT !.lane = "k", !.executable = FALSE]}
StructureRows ==
    PlannedRows \union
    {Row("FEEDBACK", <<3>>, <<4>>, <<3>>, <<>>),
     [Linked(Row("HERALD", <<>>, <<>>, <<2>>, <<>>), "l") EXCEPT !.lane = "k", !.duration = 4],
     Row("BARRIER", <<>>, <<>>, <<>>, <<>>)}
Pairings == {<< >>, (1 :> {2} @@ 2 :> {1})}
Lineage3 == (1 :> "L1" @@ 2 :> "L2" @@ 3 :> "L1")
QuarterWeights == [cut |-> 4, comm |-> 4, remote |-> 24, ebits |-> 16, latency |-> 2,
                   memory |-> 4, compute |-> 4, makespan |-> 2]
Machines == LET machine(name, n) == [name |-> name, capacity |-> n, memory |-> 6, ops |-> {}, valid |-> TRUE]
            IN  <<machine("N0", 2), machine("N1", 2), [machine("N2", 1) EXCEPT !.ops = {"H", "X"}]>>
RouteDelay == (<<"N0", "N1">> :> 2 @@ <<"N1", "N0">> :> 2 @@ <<"N1", "N2">> :> 1)

CircuitMenu ==
    LET row(face, basis, r) == r @@ [face |-> face, basis |-> basis, chances |-> 0]
        exec(r) == row("EXEC", "Z", r)
        channel(op, n) == [row("NOISE", "Z", Row(op, <<>>, <<>>, <<"q1">>, <<>>))
                              EXCEPT !.angle = n > 0, !.chances = n]
    IN  {exec(Row("H", <<>>, <<>>, <<"q1">>, <<>>)), exec(Row("CX", <<>>, <<"q1">>, <<"q2">>, <<>>)),
         exec([Row("RX", <<>>, <<>>, <<"q3">>, <<>>) EXCEPT !.angle = TRUE]),
         exec(Row("CX", <<>>, <<"q1">>, <<"q1">>, <<>>)), exec(Row("CCX", <<>>, <<"q1">>, <<"q3">>, <<"q2">>)),
         row("MEASURE", "Z", Row("MEASURE", <<"c">>, <<>>, <<"q1">>, <<"q2">>)),
         row("MEASURE", "Z", Row("MEASURE_X", <<"d">>, <<>>, <<"q2">>, <<>>)),
         row("MEASURE", "BELL", Row("MEASURE_BASIS", <<>>, <<>>, <<"q3">>, <<>>)),
         exec(Row("S", <<>>, <<>>, <<"q1">>, <<>>)), channel("DEPOLARIZE", 1), channel("PAULI_CHANNEL", 3),
         channel("PAULI_CHANNEL", 1),
         row("NOISE", "Z", Row("READOUT_ERROR", <<>>, <<>>, <<"q2">>, <<>>)),
         row("PREPARE", "Z", Row("PREP_PLUS", <<"q1">>, <<>>, <<>>, <<>>)),
         row("PREPARE", "X", Row("PREP_BASIS", <<"q2">>, <<>>, <<>>, <<>>)),
         row("PREPARE", "Z", Row("RESET", <<>>, <<>>, <<"q3">>, <<>>)),
         row("CONTROL", "Z", Row("CLASSICAL_IF", <<>>, <<"c">>, <<>>, <<>>)),
         row("PROTOCOL", "Z", Row("TELEPORT", <<"q2">>, <<>>, <<"q1">>, <<>>)),
         row("MEASURE", "Z", Row("SAMPLE", <<"s">>, <<>>, <<"q1">>, <<>>)),
         row("MODEL", "Z", Row("NOTE", <<>>, <<>>, <<>>, <<>>))}
PlannerSummaries ==
    {[qubits |-> n, clifford |-> c, channels |-> ch, feedback |-> FALSE, shots |-> s, circuits |-> k,
      trajectories |-> t, bond |-> b] :
        n \in 1 .. 4, c \in BOOLEAN, ch \in BOOLEAN, s \in {0, 1024}, k \in {1, 8, 65}, t \in {0, 64}, b \in {0, 1}}

DeclaredTerms ==
    LET term(value, unit, kind, claim, epoch) ==
            [value |-> value, unit |-> unit, kind |-> kind, independence |-> claim, correlation |-> << >>,
             epoch |-> epoch, confidence |-> 0, root |-> 0]
        spread(root, kind, claim, corr) ==
            [term(IF kind = "variance" THEN <<root * root, 1>> ELSE <<root, 1>>, "second", kind, claim, 0)
                EXCEPT !.root = root, !.correlation = corr]
        failure(n, claim, epoch) == term(<<n, 4>>, "probability", "failure_probability", claim, epoch)
    IN  "f1" :> [failure(1, "independent", 1) EXCEPT !.confidence = 2]
        @@ "f2" :> failure(2, "independent", 0) @@ "f3" :> [failure(1, "unknown_correlation", 1) EXCEPT !.confidence = 1]
        @@ "f4" :> failure(1, "small_error", 2)
        @@ "i1" :> term(<<1, 4>>, "probability", "infidelity", "independent", 0)
        @@ "s1" :> term(<<3, 4>>, "probability", "success_probability", "exact_multiplicative", 0)
        @@ "s2" :> term(<<1, 2>>, "probability", "success_probability", "independent", 0)
        @@ "d1" :> term(<<3, 1>>, "second", "duration", "independent", 0)
        @@ "d2" :> term(<<2, 1>>, "second", "duration", "independent", 0)
        @@ "v1" :> spread(2, "variance", "correlated", "v2" :> <<1, 2>>)
        @@ "v2" :> spread(3, "variance", "correlated", << >>)
        @@ "v3" :> spread(1, "variance", "independent", "v1" :> <<-1, 2>> @@ "v2" :> <<0, 1>>)
        @@ "v4" :> spread(2, "variance", "independent", << >>)
        @@ "w1" :> spread(1, "std_dev", "independent", << >>) @@ "w2" :> spread(3, "std_dev", "independent", "w1" :> <<1, 2>>)
        @@ "p1" :> [spread(1, "std_dev", "independent", << >>) EXCEPT !.unit = "probability"]
        @@ "p2" :> [spread(2, "variance", "independent", << >>) EXCEPT !.unit = "dimensionless"]

resultVars == <<circuitVars, errorVars>>
programVars == <<part, verifierVars, authorityVars, plannerVars, stabilizerVars, lvars, resultVars>>

ProgramInit ==
    /\ part \in {"verifier", "authority", "structure", "planner", "stabilizer", "ebits", "circuit", "errors", "coherence"}
    /\ VerifierInit /\ (part # "verifier" => declared = {})
    /\ PlannerInit /\ (part \notin {"structure", "planner"} => partners = << >>)
    /\ AuthorityInit /\ StabilizerInit /\ Init /\ CircuitInit
    /\ (IF part = "errors" THEN ErrorInit ELSE pool = {}) /\ ExposureInit

ProgramNext ==
    /\ part' = part
    /\ \/ /\ part = "verifier" /\ VerifierNext
          /\ UNCHANGED <<authorityVars, plannerVars, stabilizerVars, lvars, resultVars>>
       \/ /\ part = "authority" /\ AuthorityNext
          /\ UNCHANGED <<verifierVars, plannerVars, stabilizerVars, lvars, resultVars>>
       \/ /\ part = "structure" /\ StructureNext /\ plan' = plan
          /\ UNCHANGED <<verifierVars, authorityVars, stabilizerVars, lvars, resultVars>>
       \/ /\ part = "planner" /\ PlannerNext
          /\ Len(nodes') <= MaxPlanned /\ \A i \in DOMAIN nodes' : nodes'[i] \in PlannedRows
          /\ UNCHANGED <<verifierVars, authorityVars, stabilizerVars, lvars, resultVars>>
       \/ /\ part = "stabilizer" /\ StabilizerNext
          /\ UNCHANGED <<verifierVars, authorityVars, plannerVars, lvars, resultVars>>
       \/ /\ part = "ebits" /\ Next
          /\ UNCHANGED <<verifierVars, authorityVars, plannerVars, stabilizerVars, resultVars>>
       \/ /\ part = "circuit" /\ CircuitNext
          /\ UNCHANGED <<verifierVars, authorityVars, plannerVars, stabilizerVars, lvars, errorVars>>
       \/ /\ part = "errors" /\ ErrorNext
          /\ UNCHANGED <<verifierVars, authorityVars, plannerVars, stabilizerVars, lvars, circuitVars>>
       \/ /\ part = "coherence" /\ ExposureNext
          /\ UNCHANGED <<verifierVars, authorityVars, plannerVars, stabilizerVars, lvars, circuitVars>>

ProgramSpec == ProgramInit /\ [][ProgramNext]_programVars
-----------------------------------------------------------------------------
\* What is reported of a program is true of it: the analysis of its order, its plan, the depth
\* of its circuit, the seconds its lineages are exposed for and the value of its errors
\* (analyze, admit_concurrency, partition, place, schedule, Circuit.resource,
\* CoherenceExposure.check, compose).
ReportsAreTrue == PlanIsSound /\ DepthIsLongestChain /\ ExposureIsWhole /\ ValuesAreTrue
=============================================================================
