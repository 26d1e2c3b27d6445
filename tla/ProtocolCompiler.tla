-------------------------- MODULE ProtocolCompiler --------------------------
(* protocols.py: the compiler and what its plan allows, and the purification  *)
(* of pairs. PROTOCOL rows become steps that depend on earlier steps, and the  *)
(* steps run in any order that respects the dependencies. A template is its   *)
(* steps, the side each runs on and the step of the row it follows. Details,   *)
(* ebit flags and the names of the steps are left out: a step is its index in  *)
(* the plan. Entanglement pumping is the BBPSSW step: two pairs are consumed   *)
(* and one comes back, or none. A fidelity is a fraction <<p, q>>.             *)
EXTENDS Integers, Sequences, FiniteSets

CONSTANTS Links,           \* the declared links: [link -> its two ends]
          ProtocolRows,    \* the programs: sequences of [op, node, link], link "." if none
          Fidelities,      \* of the generated pairs
          MaxPairs         \* bound: pairs generated

\* No declared node has the name the compiler gives a peer it does not know.
NoPeer == "N_REMOTE"
ASSUME ProtocolAssumption ==
    /\ ProtocolRows \subseteq Seq([op : STRING, node : STRING \ {NoPeer}, link : STRING])
    /\ MaxPairs \in Nat
    /\ Fidelities \subseteq Nat \X (Nat \ {0}) /\ \A f \in Fidelities : f[1] <= f[2]

VARIABLES program, steps, ran,
          pairs,           \* the pairs there are: [fidelity, of: the two it came from]
          generated, consumed
compilerVars == <<program, steps, ran>>
purifyVars == <<pairs, generated, consumed>>

NoLink == "."
St(kind, side, dep) == [kind |-> kind, side |-> side, dep |-> dep]

\* _template: the steps of one row; dep 0: the step follows none of its row. Side
\* "a" is the row's node, "b" its peer.
Template(op) ==
    CASE op \in {"ENTANGLE_LINK", "EPR_RESERVE"} ->
            <<St("EPR_GENERATE", "a", 0), St("EPR_HERALD", "b", 1)>>
      [] op = "HERALD" -> <<St("EPR_HERALD", "a", 0)>>
      [] op = "EPR_RELEASE" -> <<St("OWNERSHIP_TRANSFER", "a", 0)>>
      [] op = "TELEPORT" ->
            <<St("EPR_GENERATE", "a", 0), St("EPR_HERALD", "b", 1), St("LOCAL_BELL", "a", 2),
              St("MEASURE", "a", 3), St("CLASSICAL_SEND", "a", 4), St("CLASSICAL_RECV", "b", 5),
              St("PAULI_CORRECT", "b", 6), St("OWNERSHIP_TRANSFER", "b", 7)>>
      [] op \in {"REMOTE_CNOT", "REMOTE_CONTROL"} ->
            <<St("EPR_GENERATE", "a", 0), St("EPR_HERALD", "b", 1), St("LOCAL_BELL", "a", 2),
              St("MEASURE", "a", 3), St("CLASSICAL_SEND", "a", 4), St("CLASSICAL_RECV", "b", 5),
              St("PAULI_CORRECT", "b", 6), St("LOCAL_BELL", "b", 7), St("MEASURE", "b", 8),
              St("CLASSICAL_SEND", "b", 9), St("CLASSICAL_RECV", "a", 10), St("PAULI_CORRECT", "a", 11)>>
      [] op = "REMOTE_MEASURE" ->
            <<St("MEASURE", "a", 0), St("CLASSICAL_SEND", "a", 1), St("CLASSICAL_RECV", "b", 2)>>
      [] op = "ENTANGLEMENT_SWAP" ->
            <<St("EPR_GENERATE", "a", 0), St("EPR_HERALD", "b", 1), St("EPR_GENERATE", "b", 2),
              St("EPR_HERALD", "b", 3), St("LOCAL_BELL", "b", 4), St("MEASURE", "b", 5),
              St("CLASSICAL_SEND", "b", 6), St("CLASSICAL_RECV", "a", 7), St("PAULI_CORRECT", "a", 8),
              St("EPR_HERALD", "a", 9)>>
      [] op = "PURIFY" ->
            <<St("EPR_GENERATE", "a", 0), St("EPR_HERALD", "b", 1), St("EPR_GENERATE", "a", 2),
              St("EPR_HERALD", "b", 3), St("LOCAL_BELL", "a", 4), St("MEASURE", "a", 5),
              St("CLASSICAL_SEND", "a", 6), St("CLASSICAL_RECV", "b", 7), St("EPR_HERALD", "b", 8)>>
      [] op = "CLASSICAL_FEEDBACK" ->
            <<St("CLASSICAL_SEND", "a", 0), St("CLASSICAL_RECV", "b", 1), St("PAULI_CORRECT", "b", 2)>>
      [] op = "QCHANNEL_SEND" -> <<St("OWNERSHIP_TRANSFER", "a", 0)>>
      [] op = "QCHANNEL_RECEIVE" -> <<St("OWNERSHIP_TRANSFER", "b", 0)>>
      [] op = "SYNC_QCLOCK" -> <<St("CLASSICAL_SEND", "a", 0), St("CLASSICAL_RECV", "b", 1)>>

SupportedOps == {"ENTANGLE_LINK", "EPR_RESERVE", "EPR_RELEASE", "HERALD", "TELEPORT", "REMOTE_CNOT",
                 "REMOTE_CONTROL", "REMOTE_MEASURE", "ENTANGLEMENT_SWAP", "PURIFY", "CLASSICAL_FEEDBACK",
                 "QCHANNEL_SEND", "QCHANNEL_RECEIVE", "SYNC_QCLOCK"}

\* The other end of the row's link: its first end that is not the row's node.
PeerNode(row) ==
    IF row.link = NoLink \/ \A i \in 1 .. 2 : Links[row.link][i] = row.node THEN NoPeer
    ELSE IF Links[row.link][1] # row.node THEN Links[row.link][1] ELSE Links[row.link][2]

\* compile: the first step of a row follows the last step emitted for its link;
\* rows without a link follow nothing.
OnLink(done, link) == {i \in DOMAIN done : done[i].link = link}
FirstStep(done, link) ==                               \* mutant: rows follow the first step of the link
    IF link = NoLink \/ OnLink(done, link) = {} THEN {}
    ELSE {CHOOSE i \in OnLink(done, link) : \A j \in OnLink(done, link) : i <= j}
Prior(done, link) ==
    IF link = NoLink \/ OnLink(done, link) = {} THEN {}
    ELSE {CHOOSE i \in OnLink(done, link) : \A j \in OnLink(done, link) : j <= i}

RowSteps(done, row, r) ==
    LET t == Template(row.op)
    IN  [k \in DOMAIN t |->
           [kind |-> t[k].kind, link |-> row.link, row |-> r,
            node |-> IF t[k].side = "a" THEN row.node ELSE PeerNode(row),
            deps |-> IF t[k].dep > 0 THEN {Len(done) + t[k].dep}
                     ELSE IF k = 1 THEN Prior(done, row.link) ELSE {}]]
Compiled(rows) ==
    LET done[r \in 0 .. Len(rows)] ==
            IF r = 0 THEN <<>>
            ELSE LET before == done[r - 1] IN before \o RowSteps(before, rows[r], r)
    IN  done[Len(rows)]

\* validate: fails unless the steps can be ordered, a correction follows a
\* receive and a receive follows a send.
DependsOn(all, i, kind) == \E d \in all[i].deps : all[d].kind = kind
\* topological_order: pass after pass, the steps whose dependencies are placed.
Placed(all) ==
    LET placed[n \in 0 .. Len(all)] ==
            IF n = 0 THEN {}
            ELSE LET before == placed[n - 1] IN {i \in DOMAIN all : all[i].deps \subseteq before}
    IN  placed[Len(all)]

Valid(all) ==
    /\ Placed(all) = DOMAIN all
    /\ \A i \in DOMAIN all : /\ all[i].kind = "PAULI_CORRECT" => DependsOn(all, i, "CLASSICAL_RECV")
                             /\ all[i].kind = "CLASSICAL_RECV" => DependsOn(all, i, "CLASSICAL_SEND")

CompilerInit ==
    /\ program \in ProtocolRows /\ ran = {}
    /\ steps = IF \E r \in DOMAIN program : program[r].op \notin SupportedOps THEN <<>>
               ELSE IF Valid(Compiled(program)) THEN Compiled(program) ELSE <<>>

\* Any step all of whose dependencies have run.
Run(i) == /\ i \notin ran /\ steps[i].deps \subseteq ran
          /\ ran' = ran \union {i} /\ UNCHANGED <<program, steps>>
CompilerNext == \E i \in DOMAIN steps : Run(i)

CompilerSpec == CompilerInit /\ [][CompilerNext]_compilerVars
-----------------------------------------------------------------------------
Less(f, g) == f[1] * g[2] < g[1] * f[2]
Half == <<1, 2>>
\* BBPSSW_MIN_FIDELITY: outside its domain purify refuses.
Anywhere(f) == TRUE                                    \* mutant: the domain is not tested
InDomain(f) == Less(Half, f)

\* The weights of the four Bell states of a Werner pair, over 3q.
Phi(f) == 3 * f[1]
Rest(f) == f[2] - f[1]
SuccessWeight(f, g) == (Phi(f) + Rest(f)) * (Phi(g) + Rest(g)) + 4 * Rest(f) * Rest(g)
OutputFidelity(f, g) == <<Phi(f) * Phi(g) + Rest(f) * Rest(g), SuccessWeight(f, g)>>

PurifyInit == pairs = <<>> /\ generated = 0 /\ consumed = 0

Generate(f) ==
    /\ generated < MaxPairs /\ generated' = generated + 1
    /\ pairs' = Append(pairs, [fidelity |-> f, of |-> {}]) /\ UNCHANGED consumed

\* The pairs but two, in their order.
Past(k, i) == IF k < i THEN k ELSE k + 1
Others(i, j) == IF i < j THEN [k \in 1 .. Len(pairs) - 2 |-> pairs[Past(Past(k, i), j)]]
                ELSE [k \in 1 .. Len(pairs) - 2 |-> pairs[Past(Past(k, j), i)]]
Purify(i, j) ==
    /\ i # j /\ InDomain(pairs[i].fidelity) /\ InDomain(pairs[j].fidelity)
    /\ pairs[i].of = {} \/ pairs[j].of = {} \/ Len(pairs) <= 2       \* bound: the size of the fractions
    /\ LET out == [fidelity |-> OutputFidelity(pairs[i].fidelity, pairs[j].fidelity),
                   of |-> {pairs[i].fidelity, pairs[j].fidelity}]
       IN  pairs' \in {Append(Others(i, j), out), Others(i, j)}
    /\ consumed' = consumed + 2 /\ UNCHANGED generated

PurifyNext == \/ \E f \in Fidelities : Generate(f)
              \/ \E i, j \in DOMAIN pairs : Purify(i, j)

PurifySpec == PurifyInit /\ [][PurifyNext]_purifyVars
-----------------------------------------------------------------------------
(* Properties.                                                               *)

RanOf(row, kind) == {i \in ran : steps[i].row = row /\ steps[i].kind = kind}

\* Gated: a correction has its bit: its node has received what its peer sent, and
\* the peer had measured, unless the row only forwards a bit.
Gated ==
    \A c \in ran : steps[c].kind = "PAULI_CORRECT" =>
       LET row == steps[c].row
           peers == {n \in {steps[i].node : i \in RanOf(row, "CLASSICAL_SEND")} : n # steps[c].node}
       IN  /\ \E r \in RanOf(row, "CLASSICAL_RECV") : steps[r].node = steps[c].node
           /\ \E n \in peers : \/ program[row].op = "CLASSICAL_FEEDBACK"
                               \/ \E m \in RanOf(row, "MEASURE") : steps[m].node = n
\* Serial: when a row's step has run, every earlier row of its link is over.
Serial == \A i \in ran : \A j \in DOMAIN steps :
              steps[j].link = steps[i].link /\ steps[i].link # NoLink /\ steps[j].row < steps[i].row
              => j \in ran
\* Whole: no order gets stuck.
Whole == (\A i \in DOMAIN steps \ ran : ~(steps[i].deps \subseteq ran)) => ran = DOMAIN steps

\* In whatever order the steps of a compiled plan are run, no correction comes
\* before the bits of its own row were measured, sent and received at the node
\* that corrects; rows that share a link use it one after the other, in program
\* order; every order ends with all steps run; and every supported program
\* compiles (ProtocolCompiler.compile, _template, ProtocolPlan.validate).
PlanIsOrdered ==
    /\ Gated /\ Serial /\ Whole
    /\ (\A r \in DOMAIN program : program[r].op \in SupportedOps) => (steps = <<>> <=> program = <<>>)

\* A purified pair is better than the worse of the two it came from, better than
\* both when they were alike (unless they were perfect), a probability, and good
\* enough to be purified again; so pumping never leaves the model's domain, and
\* no pair comes back that was not paid for with two (purify).
PumpingImproves ==
    /\ \A i \in DOMAIN pairs : LET p == pairs[i] IN
          p.of # {} =>
             /\ InDomain(p.fidelity) /\ Less(Half, p.fidelity) /\ ~Less(<<1, 1>>, p.fidelity)
             /\ \E f \in p.of : Less(f, p.fidelity) \/ f[1] = f[2]
             /\ Cardinality(p.of) = 1 => \A f \in p.of : Less(f, p.fidelity) \/ f[1] = f[2]
    /\ consumed <= 2 * (generated - Len(pairs))
=============================================================================
