SPECIFICATION StabilizerSpec
CONSTANTS
    NumQubits = 1
    MaxOps = 4
INVARIANT PhasesAreEven
CHECK_DEADLOCK FALSE
