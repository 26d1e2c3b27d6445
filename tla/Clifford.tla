------------------------------ MODULE Clifford ------------------------------
(* The exact reference operators of the gate catalog (commutation.py, gate     *)
(* matrices; simulator.py, row_pauli), as what they do to a basis state: the   *)
(* basis states they give a non-zero amplitude, each with its phase in eighths *)
(* of a turn. All amplitudes of a gate have one modulus, so that it is left    *)
(* out; where CH is the identity it gives two paths of phases 1 and 7, which   *)
(* add up to the square root of 2. The rotations are by a quarter turn. A      *)
(* basis state is a function from wires to {0, 1}.                             *)
EXTENDS Integers, FiniteSetsExt

Flip(c, a) == [c EXCEPT ![a] = 1 - @]

\* The diagonal gates multiply by a phase that depends on the bits they read.
DiagonalPhase(g, t, c) ==
    CASE g = "I" -> 0
      [] g = "T" -> c[t[1]]
      [] g = "TDG" -> 7 * c[t[1]]
      [] g = "S" -> 2 * c[t[1]]
      [] g = "SDG" -> 6 * c[t[1]]
      [] g = "Z" -> 4 * c[t[1]]
      [] g = "RZ" -> 7 + 2 * c[t[1]]
      [] g = "PHASE" -> 2 * c[t[1]]
      [] g = "CZ" -> 4 * c[t[1]] * c[t[2]]
Diagonal == {"I", "T", "TDG", "S", "SDG", "Z", "RZ", "PHASE", "CZ"}

\* What gate g on wires t makes of the basis state c (ONE_QUBIT_STATIC,
\* two_qubit_matrix).
Image(g, t, c) ==
    CASE g \in Diagonal -> {<<c, DiagonalPhase(g, t, c)>>}
      [] g = "X" -> {<<Flip(c, t[1]), 0>>}
      [] g = "Y" -> {<<Flip(c, t[1]), 2 + 4 * c[t[1]]>>}
      [] g = "H" -> {<<[c EXCEPT ![t[1]] = 0], 0>>, <<[c EXCEPT ![t[1]] = 1], 4 * c[t[1]]>>}
      [] g = "RX" -> {<<c, 0>>, <<Flip(c, t[1]), 6>>}
      [] g \in {"RY", "U"} -> {<<c, 0>>, <<Flip(c, t[1]), 4 * c[t[1]]>>}
      [] g \in {"CX", "CNOT"} -> {<<IF c[t[1]] = 1 THEN Flip(c, t[2]) ELSE c, 0>>}
      [] g = "CY" -> {IF c[t[1]] = 1 THEN <<Flip(c, t[2]), 2 + 4 * c[t[2]]>> ELSE <<c, 0>>}
      [] g = "CH" -> IF c[t[1]] = 0 THEN {<<c, 1>>, <<c, 7>>}
                     ELSE {<<[c EXCEPT ![t[2]] = 0], 0>>, <<[c EXCEPT ![t[2]] = 1], 4 * c[t[2]]>>}
      [] g = "SWAP" -> {<<[c EXCEPT ![t[1]] = c[t[2]], ![t[2]] = c[t[1]]], 0>>}
      [] g = "ISWAP" -> {<<[c EXCEPT ![t[1]] = c[t[2]], ![t[2]] = c[t[1]]],
                           IF c[t[1]] = c[t[2]] THEN 0 ELSE 2>>}

\* Gate g on t after whatever made the image m.
After(g, t, m) ==
    UNION {{<<p[1], (p[2] + q[2]) % 8>> : p \in Image(g, t, q[1])} : q \in m}

\* The signed Pauli string of a tableau row: x flips, z gives a sign, both
\* together are Y (row_pauli).
Pauli(row, c) ==
    <<[w \in DOMAIN c |-> (c[w] + row.x[w]) % 2],
      4 * row.r + MapThenSumSet(LAMBDA w : 4 * row.z[w] * c[w] + 2 * row.x[w] * row.z[w],
                                DOMAIN c)>>
=============================================================================
