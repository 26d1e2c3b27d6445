--------------------------- MODULE MCFabricEngines ---------------------------
(* The execution engines of fabric.py and the replication of crdt.py, one at  *)
(* a time: they share no state.                                              *)
(* Three tasks of two priorities and one payload; three futures and drains   *)
(* nested twice; three timers on a wheel of three slots; two tasks, one of *)
(* them pinned, in the deques of three workers; a dataflow graph with a      *)
(* feedback edge and a fan-out; every collective on up to six ranks; two     *)
(* tasks, a resource and a future in the wait-for graph; three workers in     *)
(* federations of several shapes, changed between and during two supersteps;  *)
(* two threads that append to one of two logs; three watched workers, a grain  *)
(* and an elastic group; the replicated types on three replicas.               *)
EXTENDS TaskRuntime, AsyncEngine, TimerWheel, WorkerPool, Dataflow, Collectives,
        DeadlockDetector, Supersteps, EventLog, Adaptation, Crdt

VARIABLE part

SomeJobs == {[prio |-> 0, overdue |-> FALSE], [prio |-> 1, overdue |-> TRUE]}
SomePairs == {<<1, 2>>, <<2, 1>>, <<3, 1>>}
GroupOf == <<1, 1, 2, 1>>
DomainOf == <<1, 1, 1, 1>>
Graph == <<[inputs |-> <<"a">>, outputs |-> <<"b">>, priority |-> 1, deadline |-> NoDeadline],
           [inputs |-> <<"b", "c">>, outputs |-> <<"c">>, priority |-> 1, deadline |-> 5],
           [inputs |-> <<"b">>, outputs |-> <<"a", "c">>, priority |-> 2, deadline |-> NoDeadline]>>

FlatShapes == {<<2, 1, 1>>, <<3, 2, 2>>, <<1, 2, 2>>}
LogOf == [a \in {"a1", "a2"} |-> 1]

Half == <<1, 2>>
TenPercent == <<1, 10>>

Kind(type, policy, given, most) ==
    [type |-> type, policy |-> policy, given |-> given, most |-> most]
AllKinds == {Kind("GCounter", "-", {0, 1}, 2), Kind("PNCounter", "-", {1}, 2),
             Kind("GSet", "-", {1, 2}, 2), Kind("ORSet", "-", {1, 2}, 2), Kind("ORSet", "-", {1}, 3),
             Kind("LWW", "LAMPORT", {1}, 2), Kind("LWW", "VERSION_VECTOR", {}, 3)}

adaptiveVars == <<stragglerVars, grainVars, guardVars, crdtVars>>
federatedVars == <<federationVars, bspVars, logVars, adaptiveVars>>
engineVars == <<part, taskVars, asyncVars, wheelVars, poolVars, dataflowVars,
                collectiveVars, detectorVars, federatedVars>>

Init == /\ part \in {"tasks", "futures", "timers", "pool", "dataflow", "collectives", "waits",
                     "supersteps", "log", "stragglers", "grain", "elastic", "replicas"}
        /\ TaskInit /\ (inProcesses => part = "tasks")
        /\ AsyncInit /\ WheelInit /\ PoolInit /\ DataflowInit
        /\ CollectiveInit /\ DetectorInit
        /\ BspInit /\ (part # "supersteps" => domains = {0}) /\ LogInit
        /\ StragglerInit /\ GrainInit /\ GuardInit
        /\ CrdtInit /\ (part # "replicas" => kind = Kind("GSet", "-", {1, 2}, 2))

Next == /\ part' = part
        /\ \/ /\ part = "tasks" /\ TaskNext
              /\ UNCHANGED <<asyncVars, wheelVars, poolVars, dataflowVars, collectiveVars, detectorVars, federatedVars>>
           \/ /\ part = "futures" /\ AsyncNext
              /\ UNCHANGED <<taskVars, wheelVars, poolVars, dataflowVars, collectiveVars, detectorVars, federatedVars>>
           \/ /\ part = "timers" /\ WheelNext
              /\ UNCHANGED <<taskVars, asyncVars, poolVars, dataflowVars, collectiveVars, detectorVars, federatedVars>>
           \/ /\ part = "pool" /\ PoolNext
              /\ UNCHANGED <<taskVars, asyncVars, wheelVars, dataflowVars, collectiveVars, detectorVars, federatedVars>>
           \/ /\ part = "dataflow" /\ DataflowNext
              /\ UNCHANGED <<taskVars, asyncVars, wheelVars, poolVars, collectiveVars, detectorVars, federatedVars>>
           \/ /\ part = "collectives" /\ CollectiveNext
              /\ UNCHANGED <<taskVars, asyncVars, wheelVars, poolVars, dataflowVars, detectorVars, federatedVars>>
           \/ /\ part = "waits" /\ DetectorNext
              /\ UNCHANGED <<taskVars, asyncVars, wheelVars, poolVars, dataflowVars, collectiveVars, federatedVars>>
           \/ /\ part = "supersteps" /\ BspNext
              /\ UNCHANGED <<taskVars, asyncVars, wheelVars, poolVars, dataflowVars, collectiveVars,
                             detectorVars, logVars, adaptiveVars>>
           \/ /\ part = "log" /\ LogNext
              /\ UNCHANGED <<taskVars, asyncVars, wheelVars, poolVars, dataflowVars, collectiveVars,
                             detectorVars, federationVars, bspVars, adaptiveVars>>
           \/ /\ part = "stragglers" /\ StragglerNext
              /\ UNCHANGED <<taskVars, asyncVars, wheelVars, poolVars, dataflowVars, collectiveVars,
                             detectorVars, federationVars, bspVars, logVars, grainVars, guardVars, crdtVars>>
           \/ /\ part = "grain" /\ GrainNext
              /\ UNCHANGED <<taskVars, asyncVars, wheelVars, poolVars, dataflowVars, collectiveVars,
                             detectorVars, federationVars, bspVars, logVars, stragglerVars, guardVars, crdtVars>>
           \/ /\ part = "elastic" /\ GuardNext
              /\ UNCHANGED <<taskVars, asyncVars, wheelVars, poolVars, dataflowVars, collectiveVars,
                             detectorVars, federationVars, bspVars, logVars, stragglerVars, grainVars,
                             crdtVars>>
           \/ /\ part = "replicas" /\ CrdtNext
              /\ UNCHANGED <<taskVars, asyncVars, wheelVars, poolVars, dataflowVars, collectiveVars,
                             detectorVars, federationVars, bspVars, logVars, stragglerVars, grainVars,
                             guardVars>>

Spec == Init /\ [][Next]_engineVars
=============================================================================
