------------------------------ MODULE CircuitRun ------------------------------
(* From a program to a numerical run (simulator.py): the circuit extracted from *)
(* its executable rows, the rule cascade that plans a backend, the three        *)
(* engines, and the numerics of the ledger build (ledgers.py, _numerics), which *)
(* falls back on the statevector engine when the planned one refuses.           *)
(* Amplitudes and outcomes are left out: an engine either applies an operation, *)
(* refuses it (SimulationError), or lets an error of kraus_operators out. Of the *)
(* tableau the bits stay, without the signs: they decide whether it refuses.    *)
EXTENDS Language

CONSTANTS CircuitRows,    \* the rows programs are made of, each with its face, its basis and
                          \* its chances: how many of the first numbers of PARAM can be the
                          \* probabilities of one channel, in 0 .. 1 and together at most 1
          MaxCircuitRows, \* bound on the rows of a program
          ShotCounts,     \* the shots a run may be asked for
          Summaries,      \* circuit summaries the planner is asked about on their own
          MemoryBudget,   \* memory_budget, in bytes
          LocalQubits     \* local_statevector_max_qubits

\* A row's cells name qubits.
ASSUME CircuitAssumption ==
    \A row \in CircuitRows : {row.ctrl, row.a, row.b, row.out} \subseteq Seq(STRING)

VARIABLES rowsRead,        \* the rows of the program so far
          circuit,        \* the extracted qubits, classical bits and operations
          planned,        \* the plan, with the summary it answers
          execution       \* the run: its status, engine, next operation and measurements

circuitVars == <<rowsRead, circuit, planned, execution>>
-----------------------------------------------------------------------------
(* Extraction.                                                               *)

ExecutableFaces == {"EXEC", "PREPARE", "MEASURE", "NOISE", "CONTROL", "COMM", "PROTOCOL"}
ParametricGates == {"RX", "RY", "RZ", "PHASE", "U"}
Readouts == {"SAMPLE", "EXPECT", "VARIANCE"}
ClassicalFlow == {"CLASSICAL_IF", "CLASSICAL_SWITCH", "REPEAT", "UNTIL", "WHILE", "SHOT_LOOP",
                  "PARAM_BIND"}

\* The elements of a sequence, each where it comes first.
Distinct(s) ==
    LET first == {i \in DOMAIN s : \A j \in 1 .. i - 1 : s[j] # s[i]}
    IN  [n \in 1 .. Cardinality(first) |->
            s[CHOOSE i \in first : Cardinality({j \in first : j <= i}) = n]]
Noted(seen, names) == Distinct(seen \o names)
RowTargets(row) == Distinct(row.ctrl \o row.a \o row.b)
Destination(row) == IF row.out = <<>> THEN RowTargets(row) ELSE row.out

BasisOf(row) == CASE row.op = "MEASURE_X" -> "X"
                  [] row.op = "MEASURE_Y" -> "Y"
                  [] row.op = "MEASURE_Z" -> "Z"
                  [] OTHER -> row.basis

\* The operation of an executable row, or {} when the extractor raises.
Operation(row) ==
    LET op(kind, targets, basis, bits) ==
            {[op |-> row.op, kind |-> kind, targets |-> targets, basis |-> basis, bits |-> bits,
              out |-> row.out, angle |-> row.angle, chances |-> row.chances,
              condition |-> IF kind = "control" THEN IF row.ctrl # <<>> THEN row.ctrl ELSE row.a
                                                ELSE <<>>]}
        targets == RowTargets(row)
    IN  IF row.op \in GatesWithArity
        THEN IF Len(targets) = Arity(row.op) /\ (row.op \in ParametricGates => row.angle)
             THEN op("gate", targets, "-", <<>>) ELSE {}
        ELSE IF row.op \in Destructive \union Readouts
        THEN IF targets = <<>> THEN {}
             ELSE op(IF row.op \in Destructive THEN "measure" ELSE "protocol",
                     targets, BasisOf(row), row.out)
        ELSE IF row.op \in Noise
        THEN IF targets = <<>> THEN {} ELSE op("channel", targets, "-", <<>>)
        ELSE IF row.op \in Prepares
        THEN IF Destination(row) = <<>> THEN {}
             ELSE op(IF row.op = "RESET" THEN "reset" ELSE "prepare", Destination(row),
                     IF row.op = "PREP_BASIS" THEN BasisOf(row) ELSE "-", <<>>)
        ELSE IF row.op \in ClassicalFlow THEN op("control", <<>>, "-", <<>>)
        ELSE IF row.op \in Protocols \/ row.face \in {"PROTOCOL", "COMM", "CONTROL"}
        THEN op("protocol", targets, "-", IF row.face \in {"COMM", "CONTROL"} THEN row.out ELSE <<>>)
        ELSE {}

\* One more row of the program: a row of another face adds nothing.
ReadRow(row) ==
    /\ execution.status = "EXTRACTING" /\ Len(rowsRead) < MaxCircuitRows
    /\ rowsRead' = Append(rowsRead, row)
    /\ IF row.face \notin ExecutableFaces THEN UNCHANGED <<circuit, execution>>
       ELSE IF Operation(row) = {}
       THEN execution' = [execution EXCEPT !.status = "UNRESOLVED"] /\ UNCHANGED circuit
       ELSE \E op \in Operation(row) :
               /\ circuit' = [qubits |-> Noted(circuit.qubits, op.targets),
                              bits |-> Noted(circuit.bits, op.bits),
                              ops |-> Append(circuit.ops, op)]
               /\ UNCHANGED execution
    /\ UNCHANGED planned
-----------------------------------------------------------------------------
(* Resources and the rule cascade.                                           *)

Clifford1Q == {"H", "S", "SDG", "X", "Y", "Z", "I"}
Clifford2Q == {"CX", "CNOT", "CZ", "SWAP"}
IsClifford(op) == \/ op.op \in Clifford1Q /\ Len(op.targets) = 1
                  \/ op.op \in Clifford2Q /\ Len(op.targets) = 2
OfKind(ops, kind) == {i \in DOMAIN ops : ops[i].kind = kind}

Highest(numbers) == FoldSet(LAMBDA x, y : IF x > y THEN x ELSE y, 0, numbers)
Layered(frontier, op) ==
    LET layer == Highest({frontier[t] : t \in ToSet(op.targets)}) + 1
    IN  [q \in DOMAIN frontier |-> IF q \in ToSet(op.targets) THEN layer ELSE frontier[q]]
Resource(c) ==
    LET gates == OfKind(c.ops, "gate")
        frontier == FoldLeft(LAMBDA f, op : IF op.targets = <<>> THEN f ELSE Layered(f, op),
                             [q \in ToSet(c.qubits) |-> 0], c.ops)
    IN  [gate_count |-> Cardinality(gates), measurement_count |-> Cardinality(OfKind(c.ops, "measure")),
         two_qubit_gate_count |-> Cardinality({i \in gates : Len(c.ops[i].targets) >= 2}),
         clifford_count |-> Cardinality({i \in gates : IsClifford(c.ops[i])}),
         t_count |-> Cardinality({i \in gates : c.ops[i].op \in {"T", "TDG"}}),
         depth |-> Highest({frontier[q] : q \in DOMAIN frontier})]

Summary(c, shots, circuits, trajectories) ==
    [qubits |-> Len(c.qubits), clifford |-> \A i \in OfKind(c.ops, "gate") : IsClifford(c.ops[i]),
     channels |-> OfKind(c.ops, "channel") # {}, feedback |-> OfKind(c.ops, "protocol") # {},
     shots |-> shots, circuits |-> circuits, trajectories |-> trajectories, bond |-> 0]

Pure == {"local_statevector", "distributed_statevector"}
Density == {"local_density", "distributed_density"}
Farms == {"shot_farm", "circuit_farm", "trajectory_farm"}
Backends == Pure \union Density \union Farms \union {"stabilizer", "tensor_network"}
CircuitFarmMin == 8
ShotFarmMin == 1024
TrajectoryFarmMin == 64

StatevectorBytes(n) == 2 ^ n * 16
DensityBytes(n) == 2 ^ (2 * n) * 16
Decision(backend, rejected, bytes) == [backend |-> backend, rejected |-> rejected, memory |-> bytes]

\* Rule 2: noise channels need a density matrix, or a farm of trajectories.
NoisyPlan(s) ==
    LET bytes == DensityBytes(s.qubits)
        others == {"stabilizer", "tensor_network", "shot_farm", "circuit_farm"} \union Pure
    IN  IF s.trajectories >= TrajectoryFarmMin
        THEN Decision("trajectory_farm", others \union Density, StatevectorBytes(s.qubits))
        ELSE IF bytes <= MemoryBudget
        THEN Decision("local_density", others \union {"distributed_density", "trajectory_farm"}, bytes)
        ELSE Decision("distributed_density", others \union {"local_density", "trajectory_farm"}, bytes)

\* Rules 5 to 7: a declared bond dimension beyond the dense limit, else dense amplitudes.
DensePlan(s, rejected) ==
    LET bytes == StatevectorBytes(s.qubits)
        bonded == s.qubits * s.bond * s.bond * 2 * 16
        rest == rejected \union {"tensor_network"}
    IN  IF s.qubits > LocalQubits /\ s.bond > 0 /\ bonded <= MemoryBudget
        THEN Decision("tensor_network", rejected \union Pure, bonded)
        ELSE IF s.qubits <= LocalQubits /\ bytes <= MemoryBudget
        THEN Decision("local_statevector", rest \union {"distributed_statevector"}, bytes)
        ELSE Decision("distributed_statevector", rest \union {"local_statevector"}, bytes)

\* Rules 3 and 4: farms of independent circuits and of independent shots.
NoiselessPlan(s) ==
    LET rejected == {"stabilizer", "trajectory_farm"} \union Density
        bytes == StatevectorBytes(s.qubits)
        single == Pure \union {"tensor_network"}
    IN  IF s.circuits >= CircuitFarmMin
        THEN Decision("circuit_farm", rejected \union single \union {"shot_farm"},
                      bytes * (IF s.circuits < 64 THEN s.circuits ELSE 64))
        ELSE IF s.shots >= ShotFarmMin /\ ~s.feedback
        THEN Decision("shot_farm", rejected \union single \union {"circuit_farm"}, bytes)
        ELSE DensePlan(s, rejected \union {"circuit_farm", "shot_farm"})

\* Rule 1 before the others: all gates Clifford and no channel.
PlanFor(s) ==
    IF s.clifford /\ ~s.channels
    THEN Decision("stabilizer", Backends \ {"stabilizer"}, (2 * s.qubits + 1) * (2 * s.qubits + 1))
    ELSE IF s.channels THEN NoisyPlan(s) ELSE NoiselessPlan(s)
-----------------------------------------------------------------------------
(* The run.                                                                  *)

EngineOf(backend) == CASE backend = "stabilizer" -> "stabilizer"
                       [] backend \in Density \union {"trajectory_farm"} -> "density"
                       [] OTHER -> "statevector"
ShardedRun(backend) == backend \notin {"stabilizer", "local_density", "local_statevector"}

\* The plan of the ledger build, and the run it starts.
PlanRun(shots) ==
    /\ execution.status = "EXTRACTING"
    /\ LET s == Summary(circuit, shots, 1, 0)
           plan == PlanFor(s)
       IN  /\ planned' = <<[summary |-> s, decision |-> plan]>>
           /\ execution' = [execution EXCEPT
                  !.status = IF circuit.qubits = <<>> THEN "BLOCKED" ELSE "RUNNING",
                  !.engine = EngineOf(plan.backend), !.sharded = ShardedRun(plan.backend)]
    /\ UNCHANGED <<rowsRead, circuit>>

\* A summary that does not come from a circuit (NumericalPlanner.plan).
Consult(s) == /\ execution.status = "EXTRACTING" /\ rowsRead = <<>>
              /\ planned' = <<[summary |-> s, decision |-> PlanFor(s)]>>
              /\ execution' = [execution EXCEPT !.status = "CONSULTED"]
              /\ UNCHANGED <<rowsRead, circuit>>

PrepareSequences == {"PREP0", "PREP1", "PREP_PLUS", "PREP_MINUS"}
KrausChannels == {"DEPOLARIZE", "DEPHASE", "PHASE_FLIP", "BIT_FLIP", "AMPLITUDE_DAMP", "PHASE_DAMP",
                  "PAULI_CHANNEL"}

Outs(measured) == {measured[i].out : i \in DOMAIN measured}
Bound(op) == op.condition = <<>> \/ op.condition \in Outs(execution.measured)

DispatchRefuses(allowChannels, op) ==
    CASE op.kind = "measure" -> op.basis \notin {"X", "Y", "Z"}
      [] op.kind = "channel" -> ~allowChannels
      [] op.kind = "prepare" -> op.op \notin PrepareSequences
      [] op.kind = "control" -> ~Bound(op)
      [] op.kind = "protocol" -> TRUE
      [] OTHER -> FALSE
\* What the tableau cannot express.
StabilizerRefuses(op) ==
    CASE op.kind = "gate" -> op.angle /\ Len(op.targets) = 1
      [] op.kind = "measure" -> op.basis # "Z"
      [] op.kind = "prepare" -> op.op \notin PrepareSequences
      [] op.kind = "reset" -> FALSE
      [] OTHER -> TRUE

\* The tableau's bits: row i stabilizes, with dual i its destabilizer, and a row is the
\* qubits it has an X on and those it has a Z on. The Paulis change signs only.
Traded(s, a, b) == {IF q = a THEN b ELSE IF q = b THEN a ELSE q : q \in s}
OnRow(gate, t, row) ==
    LET a == t[1]
        b == t[Len(t)]
        when(q, s, r) == IF q \in s THEN {r} ELSE {}
    IN  CASE gate = "H" -> [x |-> (row.x \ {a}) \union (row.z \intersect {a}),
                            z |-> (row.z \ {a}) \union (row.x \intersect {a})]
          [] gate \in {"S", "SDG"} -> [row EXCEPT !.z = SymDiff(@, row.x \intersect {a})]
          [] gate \in {"CX", "CNOT"} -> [x |-> SymDiff(row.x, when(a, row.x, b)),
                                         z |-> SymDiff(row.z, when(b, row.z, a))]
          [] gate = "CZ" -> [row EXCEPT !.z = SymDiff(@, when(a, row.x, b) \union when(b, row.x, a))]
          [] gate = "SWAP" -> [x |-> Traded(row.x, a, b), z |-> Traded(row.z, a, b)]
          [] OTHER -> row
OnTableau(gate, t, tableau) ==
    [tableau EXCEPT !.rows = [i \in DOMAIN @ |-> OnRow(gate, t, @[i])],
                    !.duals = [i \in DOMAIN @ |-> OnRow(gate, t, @[i])]]

\* Measuring q multiplies the first row p that has an X on it into the others that have.
\* The phase of a product is odd when its rows anticommute, which the engine refuses: the
\* destabilizer of p, about to be replaced, is multiplied like any other row.
OddProduct(r, s) == Cardinality(r.x \intersect s.z) % 2 # Cardinality(r.z \intersect s.x) % 2
Collapse(tableau, q) ==
    LET hit == {i \in DOMAIN tableau.rows : q \in tableau.rows[i].x}
        p == Min(hit)
        by == tableau.rows[p]
        times(row) == IF q \in row.x THEN [x |-> SymDiff(row.x, by.x), z |-> SymDiff(row.z, by.z)]
                                     ELSE row
    IN  IF hit = {} THEN tableau
        ELSE [rows |-> [i \in DOMAIN tableau.rows |->
                           IF i = p THEN [x |-> {}, z |-> {q}] ELSE times(tableau.rows[i])],
              duals |-> [i \in DOMAIN tableau.duals |-> IF i = p THEN by ELSE times(tableau.duals[i])],
              odd |-> \/ tableau.odd
                      \/ \E row \in Range(tableau.rows) \union Range(tableau.duals) :
                            q \in row.x /\ OddProduct(row, by)]

Rotated == {"PREP_PLUS", "PREP_MINUS"}      \* the preparations that end in an H
Tracked(tableau, op) ==
    LET prepared(t, q) == IF op.op \in Rotated THEN OnTableau("H", <<q>>, Collapse(t, q)) ELSE Collapse(t, q)
    IN  CASE op.kind = "gate" -> OnTableau(op.op, op.targets, tableau)
          [] op.kind \in {"measure", "reset"} -> FoldLeft(Collapse, tableau, op.targets)
          [] op.kind = "prepare" -> FoldLeft(prepared, tableau, op.targets)
          [] OTHER -> tableau
FreshTableau(qubits) == [rows |-> [i \in DOMAIN qubits |-> [x |-> {}, z |-> {qubits[i]}]],
                         duals |-> [i \in DOMAIN qubits |-> [x |-> {qubits[i]}, z |-> {}]], odd |-> FALSE]

\* The tableau engine meets an odd phase by the n-th operation of c.
OddPhase(c, n) == FoldLeft(Tracked, FreshTableau(c.qubits), SubSeq(c.ops, 1, n)).odd

Refuses(engine, op) ==
    IF engine = "stabilizer" THEN StabilizerRefuses(op) \/ OddPhase(circuit, execution.next)
                             ELSE DispatchRefuses(engine = "density", op)

\* kraus_operators wants its probabilities, and has no form for the numbers PARAM gives a
\* KRAUS_CHANNEL: its ValueError, or IndexError, nothing above it catches.
Chances == [name \in KrausChannels |-> IF name = "PAULI_CHANNEL" THEN 3 ELSE 1]
Escapes(engine, op) == /\ engine = "density" /\ op.kind = "channel"
                       /\ ~(op.op \in KrausChannels /\ op.chances >= Chances[op.op])

Measured(op) == IF op.kind # "measure" THEN <<>>
                ELSE [i \in DOMAIN op.targets |-> [qubit |-> op.targets[i], basis |-> op.basis, out |-> op.out]]

Current == circuit.ops[execution.next]
Running == execution.status = "RUNNING" /\ execution.next <= Len(circuit.ops)

ApplyOperation ==
    /\ Running /\ ~Refuses(execution.engine, Current)
    /\ execution' = IF Escapes(execution.engine, Current) THEN [execution EXCEPT !.status = "ESCAPED"]
                    ELSE [execution EXCEPT !.next = @ + 1, !.measured = @ \o Measured(Current)]
    /\ UNCHANGED <<rowsRead, circuit, planned>>

\* The planned backend refuses: the statevector engine starts over.
Continued(run) ==       \* mutant: what the first engine measured is kept
    [run EXCEPT !.substituted = TRUE, !.engine = "statevector", !.sharded = FALSE, !.next = 1]
Restarted(run) ==
    [run EXCEPT !.substituted = TRUE, !.engine = "statevector", !.sharded = FALSE, !.next = 1,
                !.measured = <<>>]
RefuseOperation ==
    /\ Running /\ Refuses(execution.engine, Current)
    /\ execution' = IF execution.substituted THEN [execution EXCEPT !.status = "BLOCKED"]
                    ELSE Restarted(execution)
    /\ UNCHANGED <<rowsRead, circuit, planned>>

\* A result is labelled by its engine, or as distributed.
LabelOf(run) == IF run.sharded THEN "CLASSICAL_DISTRIBUTED_STATEVECTOR_SIMULATION"
                ELSE CASE run.engine = "statevector" -> "CLASSICAL_LOCAL_STATEVECTOR_SIMULATION"
                       [] run.engine = "density" -> "CLASSICAL_LOCAL_DENSITY_MATRIX_SIMULATION"
                       [] run.engine = "stabilizer" -> "CLASSICAL_STABILIZER_TABLEAU_SIMULATION"
FinishRun ==
    /\ execution.status = "RUNNING" /\ execution.next = Len(circuit.ops) + 1
    /\ execution' = [execution EXCEPT
           !.status = IF execution.substituted THEN "EXECUTED_WITH_RECORDED_SUBSTITUTION" ELSE "EXECUTED",
           !.label = LabelOf(execution)]
    /\ UNCHANGED <<rowsRead, circuit, planned>>

CircuitInit ==
    /\ rowsRead = <<>> /\ planned = <<>>
    /\ circuit = [qubits |-> <<>>, bits |-> <<>>, ops |-> <<>>]
    /\ execution = [status |-> "EXTRACTING", engine |-> "-", sharded |-> FALSE, next |-> 1,
                    measured |-> <<>>, substituted |-> FALSE, label |-> "-"]

CircuitNext == \/ \E row \in CircuitRows : ReadRow(row)
               \/ \E shots \in ShotCounts : PlanRun(shots)
               \/ \E s \in Summaries : Consult(s)
               \/ ApplyOperation \/ RefuseOperation \/ FinishRun

CircuitSpec == CircuitInit /\ [][CircuitNext]_circuitVars
-----------------------------------------------------------------------------
(* Properties.                                                               *)

Executed == execution.status \in {"EXECUTED", "EXECUTED_WITH_RECORDED_SUBSTITUTION"}

\* The extractor "never silently drops an executable row".
NothingDropped ==
    execution.status # "UNRESOLVED" =>
        Len(circuit.ops) = Cardinality({i \in DOMAIN rowsRead : rowsRead[i].face \in ExecutableFaces})

\* The reported depth is the longest chain of operations that share qubits.
DepthIsLongestChain ==
    LET ops == circuit.ops
        wires(i) == ToSet(ops[i].targets)
        chain[i \in DOMAIN ops] ==
            IF wires(i) = {} THEN 0
            ELSE 1 + Highest({chain[j] : j \in {k \in 1 .. i - 1 : wires(k) \cap wires(i) # {}}})
    IN  Resource(circuit).depth = Highest({chain[i] : i \in DOMAIN ops})

\* What the operations ask for, whatever engine runs them: the conditions were measured
\* before, nothing is left to compile, every basis and preparation is one the engines know.
Simulable ==
    LET ops == circuit.ops IN
    /\ circuit.qubits # <<>>
    /\ \A i \in DOMAIN ops :
          /\ ops[i].kind # "protocol"
          /\ ops[i].kind = "measure" => ops[i].basis \in {"X", "Y", "Z"}
          /\ ops[i].op \notin {"PREP_BASIS", "PREP_STATE"}
          /\ ops[i].condition # <<>> =>
                \E j \in 1 .. i - 1 : ops[j].kind = "measure" /\ ops[j].out = ops[i].condition

\* Every planned backend is accounted for, holds what it has to hold, and fits.
PlanFits ==
    planned # <<>> =>
        LET d == planned[1].decision
            s == planned[1].summary
        IN  /\ d.rejected = Backends \ {d.backend}
            /\ s.channels => d.backend \in Density \union {"trajectory_farm"}
            /\ d.backend \in {"local_statevector", "local_density", "tensor_network"} =>
                  d.memory <= MemoryBudget
            /\ d.backend = "local_statevector" => s.qubits <= LocalQubits
            /\ d.backend = "shot_farm" => ~s.feedback

\* A run ends with every operation applied by an engine that can hold the state exactly
\* when the program asks for nothing beyond the engines: the planned backend may refuse,
\* the substitution is then recorded, and only the tableau is ever replaced with success:
\* exactly when the circuit has an operation it cannot express (another basis than Z, a
\* control, a gate with a parameter) or makes it meet a product of rows of odd phase.
OutcomeIsRight ==
    /\ Executed => /\ Simulable
                   /\ OfKind(circuit.ops, "channel") # {} => execution.engine = "density"
                   /\ execution.substituted <=>
                         /\ planned[1].decision.backend = "stabilizer"
                         /\ \E i \in DOMAIN circuit.ops :
                               StabilizerRefuses(circuit.ops[i]) \/ OddPhase(circuit, i)
    /\ execution.status = "BLOCKED" => ~Simulable

\* The first n operations reported what they measured, each after the ones before it, and
\* nothing else was reported: operation i after the first from[i] reports.
ReportedInOrder(n) ==
    \E from \in [1 .. n + 1 -> 0 .. Len(execution.measured)] :
        /\ from[1] = 0 /\ from[n + 1] = Len(execution.measured)
        /\ \A i \in 1 .. n :
              LET reports == Measured(circuit.ops[i])
              IN  /\ from[i + 1] = from[i] + Len(reports)
                  /\ \A k \in 1 .. Len(reports) : execution.measured[from[i] + k] = reports[k]

\* Every measurement is reported once and in order, by the engine that finished.
MeasurementsAreWhole == Executed => ReportedInOrder(Len(circuit.ops))

\* simulator.py and ledgers.py from extraction to result: no row is lost, the plan fits, and
\* what can be simulated is, completely.
CircuitsRun == NothingDropped /\ PlanFits /\ OutcomeIsRight /\ MeasurementsAreWhole
=============================================================================
