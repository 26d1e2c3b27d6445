------------------------- MODULE CommutationAuthority -------------------------
(* The commutation authority (commutation.py): the cascade of rules that       *)
(* decides whether two operations commute, its bounded matrix oracle, and the  *)
(* rewrites planned from its verdicts. A node is a row of Language. The proof  *)
(* ledger, rule names and exactness labels are left out. Wires are numbers in  *)
(* the order of their names, and every rotation is by a quarter turn.          *)
EXTENDS Language, Clifford

CONSTANTS Pairs,            \* the pairs of nodes to classify
          MaxOracleQubits   \* MATRIX_ORACLE_MAX_QUBITS

VARIABLES pair, verdict, rewrite

authorityVars == <<pair, verdict, rewrite>>

AuthorityInit == pair = <<NullRow, NullRow>> /\ verdict = "none" /\ rewrite = "none"

Boundaries == Destructive \union ClassicalControl \union {"BARRIER", "FENCE"}
DiagonalGates == {"I", "Z", "S", "SDG", "T", "TDG", "RZ", "PHASE", "CZ"}
CliffordGates == {"I", "X", "Y", "Z", "H", "S", "SDG", "CX", "CNOT", "CZ", "SWAP"}
Paulis == {"I", "X", "Y", "Z"}
Axis(op) == CASE op = "RX" -> "X" [] op = "RY" -> "Y" [] op \in {"RZ", "PHASE"} -> "Z"
              [] OTHER -> "none"

\* The symplectic product of two Pauli strings counts the shared wires where
\* they anticommute. Every wire of a node carries the node's one Pauli.
Anticommute(p, q) == "I" \notin {p, q} /\ p # q
Symplectic(a, b) ==
    IF Anticommute(a.op, b.op) THEN Cardinality(Touches(a) \intersect Touches(b)) % 2 ELSE 0

\* Conjugating the Pauli q by the Clifford g gives q back, with its sign.
Tabulated == {"H", "S", "SDG", "X", "Y", "Z", "I"} \X {"X", "Y", "Z"}
FixedUpToSign(g, q) == g \in {"I", q} \/ (g \in {"S", "SDG"} /\ q = "Z") \/ (g = "H" /\ q = "Y")
Fixed(g, q) == g \in {"I", q} \/ (g \in {"S", "SDG"} /\ q = "Z")

\* The operator of a node as the oracle embeds it: on its wires in their order,
\* not that of its cells. A rotation needs an angle in the node's claims, and
\* so does U, which with one angle is the rotation RY.
InOrder(wires) == SortSeq(SetToSeq(wires), LAMBDA v, w : v < w)
Rotations == {"RX", "RY", "RZ", "PHASE"}
HasMatrix(node) ==
    \/ /\ node.op \in Gates1Q /\ Cardinality(Touches(node)) = 1
       /\ node.op \in Rotations \union {"U"} => node.angle
    \/ node.op \in Gates2Q /\ Cardinality(Touches(node)) = 2
Embedded(node) == <<node.op, InOrder(Touches(node))>>

\* Two products of operators are the same when they give every basis state the
\* same amplitudes; paths of opposite phase cancel.
Paths(g, h, c) == UNION {{q} \X Image(h[1], h[2], q[1]) : q \in Image(g[1], g[2], c)}
Amplitude(paths, d, k) ==
    LET at(j) == Cardinality({p \in paths : p[2][1] = d /\ (p[1][2] + p[2][2]) % 8 = j})
    IN  at(k) - at(k + 4)
\* 1, w, w^2, w^3 are independent over the integers, w an eighth of a turn
Same(one, two) ==
    \A d \in {p[2][1] : p \in one \union two}, k \in 0 .. 3 : Amplitude(one, d, k) = Amplitude(two, d, k)
Commute(g, h, wires) == \A c \in [wires -> {0, 1}] : Same(Paths(g, h, c), Paths(h, g, c))

Exact(commuting) == IF commuting THEN "COMMUTING_EXACT" ELSE "NON_COMMUTING"
ByOracle(a, b) ==
    LET wires == Touches(a) \union Touches(b)
    IN  IF ~(HasMatrix(a) /\ HasMatrix(b) /\ Cardinality(wires) <= MaxOracleQubits) THEN "UNRESOLVED"
        ELSE IF Commute(Embedded(a), Embedded(b), wires) THEN "COMMUTING_NUMERICALLY_VERIFIED"
        ELSE "NON_COMMUTING"

\* classify_pair: the first rule that applies decides.
Verdict(a, b) ==
    LET ops == {a.op, b.op}
    IN  IF Touches(a) \intersect Touches(b) = {} THEN "DISJOINT"
        ELSE IF ops \intersect (Boundaries \union {"RESET"}) # {} THEN "NON_COMMUTING"
        ELSE IF ops \subseteq DiagonalGates THEN "COMMUTING_EXACT"
        ELSE IF Axis(a.op) = Axis(b.op) /\ Axis(a.op) # "none" /\ Touches(a) = Touches(b)
             THEN "COMMUTING_EXACT"
        ELSE IF ops \subseteq Paulis THEN Exact(Symplectic(a, b) = 0)
        ELSE IF <<a.op, b.op>> \in Tabulated THEN Exact(Fixed(a.op, b.op))
        ELSE IF ops \intersect Noise # {}
             THEN IF a.op = b.op THEN "COMMUTING_TARGET_CONDITIONAL" ELSE "UNRESOLVED"
        ELSE ByOracle(a, b)

\* plan_rewrites, on two neighbours of one support.
Inverses == {<<"S", "SDG">>, <<"SDG", "S">>, <<"T", "TDG">>, <<"TDG", "T">>}
            \union {<<g, g>> : g \in {"X", "Y", "Z", "H", "CX", "CNOT", "CZ", "SWAP"}}
Planned(a, b) ==
    IF Touches(a) # Touches(b) \/ Touches(a) = {} THEN "none"
    ELSE IF a.op = b.op /\ a.op \in Rotations THEN "ROTATION_FUSION"
    ELSE IF <<a.op, b.op>> \in Inverses THEN "INVERSE_CANCELLATION"
    ELSE IF Verdict(a, b) \in {"COMMUTING_EXACT", "COMMUTING_NUMERICALLY_VERIFIED"}
         THEN "REORDER_CANDIDATE" ELSE "none"

ClassifyPair(p) ==
    /\ verdict = "none"
    /\ pair' = p
    /\ verdict' = Verdict(p[1], p[2]) /\ rewrite' = Planned(p[1], p[2])

AuthorityNext == \E p \in Pairs : ClassifyPair(p)

-----------------------------------------------------------------------------
(* Properties.                                                               *)

\* The operator a node stands for: on the wires of its cells, in their order.
Meant(node) == <<node.op, node.ctrl \o node.a \o node.b>>
IsGate(node) == node.op \in GatesWithArity \ Gates3Q
\* A gate that treats its wires alike, or that names them in the order of their
\* names. The oracle embeds the others with control and target exchanged, and
\* a pair of them may cancel that does not undo itself.
Oriented(node) ==
    \/ Len(Meant(node)[2]) = 1 \/ node.op \in {"CZ", "SWAP", "ISWAP"}
    \/ Meant(node)[2][1] < Meant(node)[2][2]
\* Both in turn give back every basis state, all with one amplitude.
Undoes(g, h, wires) ==
    \E n \in 1 .. 4 : \A c, d \in [wires -> {0, 1}], k \in 0 .. 3 :
        Amplitude(Paths(g, h, c), d, k) = IF d = c /\ k = 0 THEN n ELSE 0
\* Two gates commute when the authority says so and not when it denies it, and
\* two that cancel undo each other, whatever rule decided (commutation.py,
\* classify_pair, plan_rewrites: "only semantics-preserving rewrites").
VerdictsAreSound ==
    verdict # "none" /\ IsGate(pair[1]) /\ IsGate(pair[2]) /\ Oriented(pair[1]) /\ Oriented(pair[2]) =>
        LET g == Meant(pair[1])
            h == Meant(pair[2])
            wires == Touches(pair[1]) \union Touches(pair[2])
            commute == Commute(g, h, wires)
        IN  /\ verdict = "NON_COMMUTING" => ~commute
            /\ verdict \notin {"NON_COMMUTING", "UNRESOLVED"} => commute
            /\ rewrite = "INVERSE_CANCELLATION" => Undoes(g, h, wires)
=============================================================================
