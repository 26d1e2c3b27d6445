SPECIFICATION ContractSpec
CONSTANTS
    MaxReplicas = 4
    MaxFailures = 2
INVARIANT QuorumSurvives
