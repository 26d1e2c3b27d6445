------------------------------ MODULE Language ------------------------------
(* Rows of a PA-LCTL program (lang.py): the families of the operation catalog  *)
(* that the verifier, the event structure and the commutation authority tell   *)
(* apart, and the objects a row reads and writes. A cell that names objects is *)
(* the sequence of their keys, << >> when it is NULL.                          *)
EXTENDS Integers, Sequences, FiniteSets, SequencesExt

Gates1Q == {"I", "X", "Y", "Z", "H", "S", "SDG", "T", "TDG", "RX", "RY", "RZ", "PHASE", "U"}
Gates2Q == {"CX", "CNOT", "CY", "CZ", "CH", "SWAP", "ISWAP"}
Gates3Q == {"CSWAP", "CCX", "TOFFOLI"}
GatesWithArity == Gates1Q \union Gates2Q \union Gates3Q
Arity(op) == IF op \in Gates1Q THEN 1 ELSE IF op \in Gates2Q THEN 2 ELSE 3
ControlledGates == {"CX", "CNOT", "CY", "CZ", "CH", "CSWAP", "CCX", "TOFFOLI", "CU", "MCU"}
Prepares == {"PREP0", "PREP1", "PREP_PLUS", "PREP_MINUS", "PREP_BASIS", "PREP_STATE", "RESET"}
Destructive == {"MEASURE", "MEASURE_Z", "MEASURE_X", "MEASURE_Y", "MEASURE_BASIS", "POVM",
                "REMOTE_MEASURE"}
Noise == {"DEPOLARIZE", "DEPHASE", "BIT_FLIP", "PHASE_FLIP", "AMPLITUDE_DAMP", "PHASE_DAMP",
          "PAULI_CHANNEL", "KRAUS_CHANNEL", "READOUT_ERROR", "LEAKAGE_MODEL", "CROSSTALK_MODEL"}
Protocols == {"ENTANGLE_LINK", "EPR_RESERVE", "EPR_RELEASE", "TELEPORT", "REMOTE_CONTROL",
              "REMOTE_CNOT", "REMOTE_MEASURE", "CLASSICAL_FEEDBACK", "ENTANGLEMENT_SWAP",
              "PURIFY", "HERALD", "SYNC_QCLOCK", "QCHANNEL_SEND", "QCHANNEL_RECEIVE"}
ClassicalControl == {"CLASSICAL_IF", "CLASSICAL_SWITCH", "FEEDBACK", "CLASSICAL_FEEDBACK"}

NullRow == [op |-> "NOTE", out |-> <<>>, ctrl |-> <<>>, a |-> <<>>, b |-> <<>>]

Reads(row) == ToSet(row.ctrl) \union ToSet(row.a) \union ToSet(row.b)

\* A gate works in place: it writes its operands, a controlled gate only A.
InPlaceOps(row) ==
    IF row.op \in ControlledGates THEN ToSet(row.a)
    ELSE IF row.op \in GatesWithArity \union Noise THEN Reads(row) ELSE {}
Writes(row) == ToSet(row.out) \union InPlaceOps(row)
Touches(row) == Reads(row) \union Writes(row)
=============================================================================
