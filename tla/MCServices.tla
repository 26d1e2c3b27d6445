----------------------------- MODULE MCServices -----------------------------
(* The services of the core, one at a time: they share no state. Channels of   *)
(* one item under two senders of one item each and two receivers; classical    *)
(* feedback with latencies on both sides of the timeout; supervision of one    *)
(* subject with a budget of one at every level; one checkpoint of two values;  *)
(* one recovery transaction; consistency contracts over up to four replicas;   *)
(* protocol plans of every two rows and some of four, on two links; three      *)
(* pairs to purify; routers on four nodes; a witness on four machines of       *)
(* different widths, one of them broken or not.                                *)
EXTENDS Channel, ClassicalFeedback, Recovery, CheckpointStore,
        ConsistencyContract, ProtocolCompiler, Routing, WitnessFabric

VARIABLE part

Budgets == <<1, 1, 1, 1>>
\* The classical content "a" is a string with the repr of the quantum one.
Canonical(content) == IF content = Quantum THEN "a" ELSE content
PRow(op, node, link) == [op |-> op, node |-> node, link |-> link]
TwoLinks == [L1 |-> <<"A", "B">>, L2 |-> <<"B", "C">>]
MenuRows == {PRow(op, "A", "L1") : op \in SupportedOps} \union {PRow(op, "B", "L2") : op \in SupportedOps}
            \union {PRow("CLASSICAL_FEEDBACK", "C", NoLink), PRow("COPY_QUBIT", "A", "L1")}
RowSequences ==
    {<<r, s>> : r, s \in MenuRows}
    \union {<<PRow("TELEPORT", "A", "L1"), PRow("REMOTE_CNOT", "B", "L2"), PRow("TELEPORT", "B", "L1")>>,
            <<PRow("EPR_RESERVE", "A", "L1"), PRow("REMOTE_CONTROL", "A", "L1"),
              PRow("QCHANNEL_RECEIVE", "B", "L2"), PRow("PURIFY", "C", "L1")>>}
PairFidelities == {<<1, 2>>, <<4, 6>>, <<5, 6>>, <<1, 1>>}

ClassicalLinks == <<[ends |-> <<1, 2>>, cost |-> 1, capacity |-> 2, zone |-> "F0"],
                    [ends |-> <<2, 3>>, cost |-> 1, capacity |-> 1, zone |-> "F1"],
                    [ends |-> <<1, 3>>, cost |-> 3, capacity |-> 2, zone |-> "F0"],
                    [ends |-> <<3, 4>>, cost |-> 2, capacity |-> 2, zone |-> "F0"],
                    [ends |-> <<4, 1>>, cost |-> 4, capacity |-> 1, zone |-> "F1"]>>
QLink(ends, setup, latency, capacity, window, fidelity, pure) ==
    [ends |-> ends, setup |-> setup, herald |-> 1, latency |-> latency, capacity |-> capacity,
     window |-> window, fidelity |-> fidelity, pure |-> pure]
QuantumLinks == <<QLink(<<1, 2>>, 1, 1, 2, 20, <<4, 5>>, TRUE), QLink(<<2, 3>>, 1, 1, 1, 5, <<9, 10>>, FALSE),
                  QLink(<<1, 3>>, 4, 3, 1, 8, <<9, 10>>, TRUE), QLink(<<3, 4>>, 1, 2, 2, 12, <<9, 10>>, TRUE)>>
RoutedPairs == {<<1, 3>>, <<1, 4>>}
AvoidedZones == SUBSET {"F0", "F1"}
EbitDemands == {<<<<1, 3, 2>>>>, <<<<1, 4, 1>>, <<1, 3, 1>>>>, <<<<1, 2, 3>>>>}
FidelityTarget == <<9, 10>>

ImageCeilings == [br |-> 10, qvm |-> 13]
NodeWidths == [N_SMALL |-> 2, N_MEDIUM |-> 3, N_LARGE |-> 4, N_XLARGE |-> 5]
SomeBundles == {<<>>, <<1>>, <<2, 3, 1>>, <<3, 0, 2, 1, 3>>}
BoundNodes == {VmNodes, {"N_MEDIUM", "N_XLARGE"}}
BrokenNodes == {{}, {"N_MEDIUM"}}
AllPrograms == <<"replica", "pipeline", "bsp">>

plannedVars == <<contract, compilerVars, purifyVars, routingVars, witnessVars>>
serviceVars == <<part, channelVars, feedbackVars, recoveryVars, checkpointVars, transactionVars, plannedVars>>

\* Each part from its own initial states, the others from one.
Init == /\ part \in {"channels", "feedback", "supervision", "checkpoints", "transaction", "contracts",
                    "protocols", "pairs", "routes", "witness"}
        /\ ChannelInit /\ FeedbackInit /\ RecoveryInit /\ TransactionInit /\ PurifyInit /\ RoutingInit
        /\ part = "checkpoints" \/ payload = <<"a">>
        /\ CheckpointInit
        /\ ContractInit /\ (part = "contracts" \/ contract.profile = "CAUSAL")
        /\ part = "protocols" \/ program = <<PRow("HERALD", "B", "L2"), PRow("HERALD", "B", "L2")>>
        /\ CompilerInit
        /\ part = "witness" \/ (bundle = <<>> /\ bound = VmNodes /\ broken = {})
        /\ WitnessInit

Supervise == /\ part = "supervision" /\ RecoveryNext /\ part' = part
             /\ UNCHANGED <<channelVars, feedbackVars, checkpointVars, transactionVars, plannedVars>>

Communicate == /\ part = "channels" /\ ChannelNext /\ part' = part
               /\ UNCHANGED <<feedbackVars, recoveryVars, checkpointVars, transactionVars, plannedVars>>

Next == \/ Supervise
        \/ Communicate
        \/ /\ part = "feedback" /\ FeedbackNext /\ part' = part
           /\ UNCHANGED <<channelVars, recoveryVars, checkpointVars, transactionVars, plannedVars>>
        \/ /\ part = "checkpoints" /\ CheckpointNext /\ part' = part
           /\ UNCHANGED <<channelVars, feedbackVars, recoveryVars, transactionVars, plannedVars>>
        \/ /\ part = "transaction" /\ TransactionNext /\ part' = part
           /\ UNCHANGED <<channelVars, feedbackVars, recoveryVars, checkpointVars, plannedVars>>
        \/ /\ part = "contracts" /\ ContractNext /\ part' = part
           /\ UNCHANGED <<channelVars, feedbackVars, recoveryVars, checkpointVars, transactionVars,
                          compilerVars, purifyVars, routingVars, witnessVars>>
        \/ /\ part = "protocols" /\ CompilerNext /\ part' = part
           /\ UNCHANGED <<channelVars, feedbackVars, recoveryVars, checkpointVars, transactionVars, contract,
                          purifyVars, routingVars, witnessVars>>
        \/ /\ part = "pairs" /\ PurifyNext /\ part' = part
           /\ UNCHANGED <<channelVars, feedbackVars, recoveryVars, checkpointVars, transactionVars, contract,
                          compilerVars, routingVars, witnessVars>>
        \/ /\ part = "routes" /\ RoutingNext /\ part' = part
           /\ UNCHANGED <<channelVars, feedbackVars, recoveryVars, checkpointVars, transactionVars, contract,
                          compilerVars, purifyVars, witnessVars>>
        \/ /\ part = "witness" /\ WitnessNext /\ part' = part
           /\ UNCHANGED <<channelVars, feedbackVars, recoveryVars, checkpointVars, transactionVars, contract,
                          compilerVars, purifyVars, routingVars>>

\* The incidents go on to be decided, and the threads of the channels to be run.
Spec == Init /\ [][Next]_serviceVars /\ WF_recoveryVars(Decide) /\ Fairness
=============================================================================
