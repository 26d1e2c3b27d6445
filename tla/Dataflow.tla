------------------------------ MODULE Dataflow ------------------------------
(* The dataflow runtime of fabric.py: scheduling rounds over the registered   *)
(* nodes, the firing rule, and the two places where a round can break off     *)
(* with an exception. Channels are FIFO queues used without waiting; whoever  *)
(* feeds, drains, closes or cancels them acts between two rounds or from      *)
(* inside a node's function. A token is an id; the ids of Quantum are         *)
(* payloads. Logical time is left out but for the passing of the deadlines.   *)
EXTENDS Integers, Sequences, FiniteSets, SequencesExt

CONSTANTS Nodes,         \* the registered nodes, in the order of their ids
          Channels, Capacity,
          Quantum,       \* the tokens that are quantum payloads
          Classical,     \* the others
          MaxActs,       \* bound: what the surroundings do
          MaxSteps       \* max_steps of a run
ASSUME DataflowAssumption ==
    /\ Capacity \in Nat \ {0} /\ MaxActs \in Nat /\ MaxSteps \in Nat
    /\ Quantum \intersect Classical = {}
    /\ \A i \in DOMAIN Nodes : /\ Nodes[i].inputs \in Seq(Channels)
                               /\ Nodes[i].outputs \in Seq(Channels)

VARIABLES queue, closed, cancelled,
          live,          \* the payloads in state LIVE
          failed,        \* the nodes whose owning worker failed
          late,          \* the deadlines have passed
          phase,         \* "idle", "round", or what the firing node is at: "taking" its
                         \* tokens, "inside" its function, "sending" the results
          upcoming,      \* the nodes the round has not come to yet
          node,          \* the node that is firing, or None
          fired,         \* a node fired in this round
          hand,          \* the tokens taken for the function
          outgoing,      \* the tokens it returned, each with the channel it goes to
          rounds, quiet, \* rounds of this run; nothing happened since it stopped
          acts
dataflowVars == <<queue, closed, cancelled, live, failed, late, phase, upcoming, node,
                  fired, hand, outgoing, rounds, quiet, acts>>

NodeIds == DOMAIN Nodes
\* Higher priority first, then the earlier deadline, then the lower id.
GoesFirst(i, j) ==
    \/ Nodes[i].priority > Nodes[j].priority
    \/ /\ Nodes[i].priority = Nodes[j].priority
       /\ \/ Nodes[i].deadline < Nodes[j].deadline
          \/ Nodes[i].deadline = Nodes[j].deadline /\ i < j
HasTurn(n) == n \in upcoming /\ \A m \in upcoming \ {n} : GoesFirst(n, m)
None == 0
NoDeadline == 1000

Peeked(n) == {Head(queue[c]) : c \in {d \in ToSet(Nodes[n].inputs) : queue[d] # <<>>}}
InputsAvailable(n) == \A c \in ToSet(Nodes[n].inputs) : queue[c] # <<>>
LiveOnly(n) == Peeked(n) \intersect Quantum \subseteq live    \* mutant: fan-out allowed
OwnershipOk(n) == \A t \in Peeked(n) \intersect Quantum :
                      t \in live /\ Len(Nodes[n].outputs) <= 1
BackpressureOk(n) == \A c \in ToSet(Nodes[n].outputs) :
                         Len(queue[c]) < Capacity /\ c \notin closed
DeadlineOk(n) == Nodes[n].deadline = NoDeadline \/ ~late
Fires(n) == /\ InputsAvailable(n) /\ OwnershipOk(n) /\ n \notin failed
            /\ BackpressureOk(n) /\ DeadlineOk(n)

DataflowInit ==
    /\ queue = [c \in Channels |-> <<>>] /\ closed = {} /\ cancelled = {}
    /\ live = Quantum /\ failed = {} /\ late = FALSE
    /\ phase = "idle" /\ upcoming = NodeIds /\ node = None /\ fired = FALSE
    /\ hand = <<>> /\ outgoing = <<>>
    /\ rounds = 0 /\ quiet = FALSE /\ acts = 0
-----------------------------------------------------------------------------
(* The surroundings: other code between rounds, or a node's function.        *)

\* Nobody sends a payload that is in a channel already.
InFlight == ToSet(hand) \union UNION {ToSet(queue[c]) : c \in Channels}
Feed(c, t) ==
    /\ c \notin closed /\ Len(queue[c]) < Capacity
    /\ t \notin Quantum \intersect InFlight
    /\ queue' = [queue EXCEPT ![c] = Append(@, t)]
    /\ UNCHANGED <<closed, cancelled, live, failed, late>>
TakeFrom(c) ==
    /\ queue[c] # <<>> /\ c \notin cancelled
    /\ queue' = [queue EXCEPT ![c] = Tail(@)]
    /\ UNCHANGED <<closed, cancelled, live, failed, late>>
Close(c) ==
    /\ closed' = closed \union {c}
    /\ cancelled' \in {cancelled, cancelled \union {c}}
    /\ UNCHANGED <<queue, live, failed, late>>
Consume(p) ==
    /\ p \in live /\ live' = live \ {p}
    /\ UNCHANGED <<queue, closed, cancelled, failed, late>>
FailWorker(n) ==
    /\ failed' = failed \union {n}
    /\ UNCHANGED <<queue, closed, cancelled, live, late>>
\* Every log entry ticks the clock, inside a round too.
DeadlinesPass ==
    /\ ~late /\ late' = TRUE
    /\ UNCHANGED <<queue, closed, cancelled, live, failed, phase, upcoming, node, fired, hand,
                   outgoing, rounds, quiet, acts>>

Surroundings ==
    /\ phase \in {"idle", "inside"} /\ acts < MaxActs
    /\ acts' = acts + 1 /\ quiet' = FALSE
    /\ \/ \E c \in Channels : (\E t \in Quantum \union Classical : Feed(c, t))
                                 \/ TakeFrom(c) \/ Close(c)
       \/ \E p \in Quantum : Consume(p)
       \/ \E n \in NodeIds : FailWorker(n)
    /\ UNCHANGED <<phase, upcoming, node, fired, hand, outgoing, rounds>>
-----------------------------------------------------------------------------
(* run, step and the firing of a node.                                       *)

StartRounds ==
    /\ phase = "idle" /\ phase' = "round" /\ upcoming' = NodeIds /\ fired' = FALSE
    /\ rounds' = 1 /\ quiet' = FALSE
    /\ UNCHANGED <<queue, closed, cancelled, live, failed, late, node, hand, outgoing, acts>>

Hold ==
    /\ phase = "round"
    /\ \E n \in NodeIds : HasTurn(n) /\ ~Fires(n) /\ upcoming' = upcoming \ {n}
    /\ UNCHANGED <<queue, closed, cancelled, live, failed, late, phase, node, fired, hand,
                   outgoing, rounds, quiet, acts>>

\* A node fires: it takes a token from each input, one after the other.
Fire ==
    /\ phase = "round"
    /\ \E n \in NodeIds : /\ HasTurn(n) /\ Fires(n)
                          /\ node' = n /\ upcoming' = upcoming \ {n}
    /\ phase' = "taking" /\ hand' = <<>>
    /\ UNCHANGED <<queue, closed, cancelled, live, failed, late, fired, outgoing, rounds,
                   quiet, acts>>

AllTaken == Len(hand) = Len(Nodes[node].inputs)
NextInput == Nodes[node].inputs[Len(hand) + 1]
Receivable(c) == queue[c] # <<>> /\ c \notin cancelled

TakeToken ==
    /\ phase = "taking" /\ ~AllTaken /\ Receivable(NextInput)
    /\ hand' = Append(hand, Head(queue[NextInput]))
    /\ queue' = [queue EXCEPT ![NextInput] = Tail(@)]
    /\ UNCHANGED <<closed, cancelled, live, failed, late, phase, upcoming, node, fired,
                   outgoing, rounds, quiet, acts>>

\* An exception leaves step and run.
Escape == /\ phase' = "idle" /\ upcoming' = NodeIds /\ node' = None /\ fired' = FALSE
          /\ hand' = <<>> /\ outgoing' = <<>> /\ rounds' = 0
          /\ UNCHANGED <<queue, closed, cancelled, live, failed, late, quiet, acts>>

\* receive raises on an input that is cancelled, or that is empty because an
\* earlier input of the node is the same channel: the tokens taken are gone.
TakeRefused == phase = "taking" /\ ~AllTaken /\ ~Receivable(NextInput) /\ Escape

EnterFunction ==
    /\ phase = "taking" /\ AllTaken /\ phase' = "inside"
    /\ UNCHANGED <<queue, closed, cancelled, live, failed, late, upcoming, node, fired, hand,
                   outgoing, rounds, quiet, acts>>

FunctionRaises == phase = "inside" /\ Escape

\* A function returns tokens it was given or new ones, and may repeat them; what
\* it returns beyond the node's outputs is dropped.
Results(n) ==
    UNION {[1 .. k -> ToSet(hand) \union Classical] : k \in 0 .. Len(Nodes[n].outputs)}

FunctionReturns ==
    /\ phase = "inside" /\ phase' = "sending" /\ hand' = <<>>
    /\ \E r \in Results(node) :
          outgoing' = [k \in 1 .. Len(r) |-> <<Nodes[node].outputs[k], r[k]>>]
    /\ UNCHANGED <<queue, closed, cancelled, live, failed, late, upcoming, node, fired, rounds,
                   quiet, acts>>

Sendable(c) == c \notin closed /\ Len(queue[c]) < Capacity

SendResult ==
    /\ phase = "sending" /\ outgoing # <<>> /\ Sendable(Head(outgoing)[1])
    /\ queue' = [queue EXCEPT ![Head(outgoing)[1]] = Append(@, Head(outgoing)[2])]
    /\ outgoing' = Tail(outgoing)
    /\ UNCHANGED <<closed, cancelled, live, failed, late, phase, upcoming, node, fired,
                   hand, rounds, quiet, acts>>

\* send raises: the results sent before stay where they are, the rest is gone.
SendRefused ==
    phase = "sending" /\ outgoing # <<>> /\ ~Sendable(Head(outgoing)[1]) /\ Escape

Fired ==
    /\ phase = "sending" /\ outgoing = <<>>
    /\ phase' = "round" /\ node' = None /\ fired' = TRUE
    /\ UNCHANGED <<queue, closed, cancelled, live, failed, late, upcoming, hand, outgoing,
                   rounds, quiet, acts>>

OneRound == FALSE                                   \* mutant: the run is one round
Again == fired
\* A round without a firing ends the run, and so does the last round allowed.
EndRound ==
    /\ phase = "round" /\ upcoming = {} /\ upcoming' = NodeIds /\ fired' = FALSE
    /\ IF Again /\ rounds < MaxSteps THEN rounds' = rounds + 1 /\ UNCHANGED <<phase, quiet>>
       ELSE phase' = "idle" /\ rounds' = 0 /\ quiet' = ~Again
    /\ UNCHANGED <<queue, closed, cancelled, live, failed, late, node, hand, outgoing, acts>>

DataflowNext ==
    \/ Surroundings \/ DeadlinesPass \/ StartRounds \/ Hold \/ EndRound
    \/ Fire \/ TakeToken \/ TakeRefused \/ EnterFunction
    \/ FunctionRaises \/ FunctionReturns \/ SendResult \/ SendRefused \/ Fired
DataflowSpec == DataflowInit /\ [][DataflowNext]_dataflowVars
-----------------------------------------------------------------------------
(* Properties.                                                               *)

Spots(c, t) == {i \in 1 .. Len(queue[c]) : queue[c][i] = t}
Copies(t) == UNION {{c} \X Spots(c, t) : c \in Channels}
\* However the functions fork and the rounds break off, a quantum payload is in
\* one channel at most (DataflowRuntime.evaluate: "no unknown quantum state is
\* duplicated").
NoPayloadTwice == \A t \in Quantum : Cardinality(Copies(t)) <= 1

\* A run that stopped by itself left no node that could fire: a node held early
\* in a round is tried again after the firings that follow it
\* (DataflowRuntime.run).
RunQuiesces == quiet => \A n \in NodeIds : ~Fires(n)

\* Whatever raises or passes in between: one place for a quantum payload, and nothing
\* left undone by a run that stopped by itself (DataflowRuntime.run, evaluate, step).
DataflowIsSafe == NoPayloadTwice /\ RunQuiesces
=============================================================================
