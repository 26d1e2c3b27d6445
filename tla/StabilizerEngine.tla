-------------------------- MODULE StabilizerEngine --------------------------
(* The stabilizer engine (simulator.py, StabilizerEngine): a binary tableau    *)
(* of n destabilizers (rows 0 .. n-1) and n stabilizers (rows n .. 2n-1),      *)
(* rewritten by the Clifford gates and collapsed by Z measurements. The        *)
(* scratch row is a local of the deterministic measurement here: the code      *)
(* clears it before every use. The random generator's bit is a free choice.    *)
EXTENDS Clifford

CONSTANTS NumQubits,        \* wires are 0 .. NumQubits - 1
          MaxOps            \* gates and measurements of one run: a model bound

VARIABLES rows,             \* the tableau: row number -> [x, z, r]
          raised,           \* a row product had an impossible phase
          ops               \* calls so far

stabilizerVars == <<rows, raised, ops>>

Wires == 0 .. NumQubits - 1
LiveRows == 0 .. 2 * NumQubits - 1
Stabilizers == NumQubits .. 2 * NumQubits - 1
Zeros == [w \in Wires |-> 0]
Xor(a, b) == (a + b) % 2

StabilizerInit ==
    /\ rows = [i \in LiveRows |->
                 IF i < NumQubits THEN [x |-> [Zeros EXCEPT ![i] = 1], z |-> Zeros, r |-> 0]
                                  ELSE [x |-> Zeros, z |-> [Zeros EXCEPT ![i - NumQubits] = 1], r |-> 0]]
    /\ raised = FALSE /\ ops = 0

\* The primitive gates, on one row. The others are composed of them.
OnH(row, a) == [x |-> [row.x EXCEPT ![a] = row.z[a]], z |-> [row.z EXCEPT ![a] = row.x[a]],
                r |-> Xor(row.r, row.x[a] * row.z[a])]
OnS(row, a) == [row EXCEPT !.z[a] = Xor(@, row.x[a]), !.r = Xor(@, row.x[a] * row.z[a])]
OnX(row, a) == [row EXCEPT !.r = Xor(@, row.z[a])]
OnZ(row, a) == [row EXCEPT !.r = Xor(@, row.x[a])]
OnY(row, a) == [row EXCEPT !.r = Xor(@, Xor(row.x[a], row.z[a]))]
SignOfBoth(row, a, b) == row.x[a] * row.z[b]
SignOfCX(row, a, b) == row.x[a] * row.z[b] * Xor(Xor(row.x[b], row.z[a]), 1)
OnCX(row, a, b) == [x |-> [row.x EXCEPT ![b] = Xor(@, row.x[a])],
                    z |-> [row.z EXCEPT ![a] = Xor(@, row.z[b])],
                    r |-> Xor(row.r, SignOfCX(row, a, b))]
OnCZ(row, a, b) == OnH(OnCX(OnH(row, b), a, b), b)
OnSwap(row, a, b) == OnCX(OnCX(OnCX(row, a, b), b, a), a, b)

Gates1 == {"H", "S", "SDG", "X", "Y", "Z", "I"}
Gates2 == {"CX", "CZ", "SWAP"}
Calls == {<<g, <<a>>>> : g \in Gates1, a \in Wires}
         \union {<<g, <<a, b>>>> : g \in Gates2, <<a, b>> \in {p \in Wires \X Wires : p[1] # p[2]}}
OnGate(g, t, row) ==
    CASE g = "I" -> row
      [] g = "H" -> OnH(row, t[1])
      [] g = "S" -> OnS(row, t[1])
      [] g = "SDG" -> OnZ(OnS(row, t[1]), t[1])
      [] g = "X" -> OnX(row, t[1])
      [] g = "Y" -> OnY(row, t[1])
      [] g = "Z" -> OnZ(row, t[1])
      [] g = "CX" -> OnCX(row, t[1], t[2])
      [] g = "CZ" -> OnCZ(row, t[1], t[2])
      [] g = "SWAP" -> OnSwap(row, t[1], t[2])
Called == /\ ~raised /\ ops < MaxOps
          /\ ops' = ops + 1
ApplyGate(g, t) ==
    /\ Called
    /\ rows' = [i \in LiveRows |-> OnGate(g, t, rows[i])]
    /\ UNCHANGED raised

\* The product of two rows: its phase, in quarter turns, and the row.
PhaseOf(x1, z1, x2, z2) ==
    CASE x1 = 0 /\ z1 = 0 -> 0
      [] x1 = 1 /\ z1 = 1 -> z2 - x2
      [] x1 = 1 /\ z1 = 0 -> z2 * (2 * x2 - 1)
      [] x1 = 0 /\ z1 = 1 -> x2 * (1 - 2 * z2)
RowPhase(h, i) == (2 * h.r + 2 * i.r
                   + MapThenSumSet(LAMBDA j : PhaseOf(i.x[j], i.z[j], h.x[j], h.z[j]), Wires)) % 4
RowSum(h, i) == [x |-> [w \in Wires |-> Xor(h.x[w], i.x[w])],
                 z |-> [w \in Wires |-> Xor(h.z[w], i.z[w])],
                 r |-> RowPhase(h, i) \div 2]

\* The sign a determined outcome has: the stabilizers whose destabilizer
\* anticommutes with Z on wire a, multiplied into the scratch row.
Scratch(t, a) ==
    LET sum[k \in 0 .. NumQubits] ==
            IF k = 0 THEN [x |-> Zeros, z |-> Zeros, r |-> 0]
            ELSE IF t[k - 1].x[a] = 1 THEN RowSum(sum[k - 1], t[k - 1 + NumQubits])
                                      ELSE sum[k - 1]
    IN  sum[NumQubits]
Undetermined(t, a) == {i \in Stabilizers : t[i].x[a] = 1}
Undecided == 2
Peek(t, a) == IF Undetermined(t, a) = {} THEN Scratch(t, a).r ELSE Undecided

\* A determined outcome changes nothing. For another, the first stabilizer p
\* that anticommutes with Z on a is multiplied into every row that does, in row
\* order, and becomes the destabilizer of the new stabilizer +-Z on a. The row
\* product refuses an odd phase, with the rows before it already rewritten.
KeepDestabilizer(t, p, a, o) ==
    [t EXCEPT ![p] = [x |-> Zeros, z |-> [Zeros EXCEPT ![a] = 1], r |-> o]]
Collapsed(t, p, a, o) ==
    [t EXCEPT ![p - NumQubits] = t[p],
              ![p] = [x |-> Zeros, z |-> [Zeros EXCEPT ![a] = 1], r |-> o]]
Collapses(t, a) ==
    LET p == Min(Undetermined(t, a))
        todo == {i \in LiveRows \ {p} : t[i].x[a] = 1}
        odd == {i \in todo : RowPhase(t[i], t[p]) % 2 = 1}
        product == [i \in LiveRows |-> IF i \in todo /\ \A j \in odd : i < j
                                       THEN RowSum(t[i], t[p]) ELSE t[i]]
    IN  IF odd = {} THEN {[rows |-> Collapsed(product, p, a, o), raised |-> FALSE, out |-> o] : o \in {0, 1}}
        ELSE {[rows |-> product, raised |-> TRUE, out |-> Undecided]}
Measurements(t, a) ==
    IF Undetermined(t, a) = {} THEN {[rows |-> t, raised |-> FALSE, out |-> Scratch(t, a).r]}
    ELSE Collapses(t, a)
Measure(a, m) ==
    /\ Called
    /\ m \in Measurements(rows, a)
    /\ rows' = m.rows /\ raised' = m.raised

\* Reset measures and turns a 1 into a 0.
ResetQubit(a) ==
    /\ Called
    /\ \E m \in Measurements(rows, a) :
          /\ rows' = IF m.out = 1 THEN [i \in LiveRows |-> OnX(m.rows[i], a)] ELSE m.rows
          /\ raised' = m.raised

StabilizerNext == \/ \E c \in Calls : ApplyGate(c[1], c[2])
                  \/ \E a \in Wires : \E m \in Measurements(rows, a) : Measure(a, m)
                  \/ \E a \in Wires : ResetQubit(a)

StabilizerSpec == StabilizerInit /\ [][StabilizerNext]_stabilizerVars

-----------------------------------------------------------------------------
(* Properties.                                                               *)

BasisStates == [Wires -> {0, 1}]
\* A gate rewrites every row, sign included, to the Pauli string that follows
\* the gate as the old one preceded it: on every basis state, the old string and
\* then the gate's operator do what the gate's operator and then the new string
\* do (simulator.py, the Clifford gates of StabilizerEngine).
Conjugates(g, t) ==
    \A i \in LiveRows, c \in BasisStates :
        LET before == Pauli(rows[i], c)
        IN  After(g, t, {<<before[1], before[2] % 8>>})
            = {<<Pauli(rows'[i], q[1])[1], (q[2] + Pauli(rows'[i], q[1])[2]) % 8>> : q \in Image(g, t, c)}
GatesConjugate == [][\A c \in Calls : ApplyGate(c[1], c[2]) => Conjugates(c[1], c[2])]_stabilizerVars

\* A measurement settles its qubit: the same outcome would come again, what was
\* determined of the other qubits still is and as it was, and an outcome that
\* was determined disturbs nothing (simulator.py, measure, peek_z; reset).
Settled(a, o) ==
    /\ Peek(rows', a) = o
    /\ \A w \in Wires \ {a} : Peek(rows, w) # Undecided => Peek(rows', w) = Peek(rows, w)
MeasurementSettles ==
    [][\A a \in Wires :
          /\ \A m \in Measurements(rows, a) : Measure(a, m) /\ ~raised' => Settled(a, m.out)
          /\ ResetQubit(a) /\ ~raised' => Settled(a, 0)]_stabilizerVars

\* The tableau follows every gate, and every measurement settles it
\* (StabilizerEngine's gates, measure, reset).
TableauIsExact == GatesConjugate /\ MeasurementSettles

\* The rows a measurement multiplies always have an even phase between them
\* (simulator.py:893-895: a phase of 1 or 3 "is impossible for a well-formed
\* tableau").
PhasesAreEven == ~raised
=============================================================================
