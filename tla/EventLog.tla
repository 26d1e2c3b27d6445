------------------------------ MODULE EventLog ------------------------------
(* The append-only logs and the logical clocks of fabric.py. Every node has a *)
(* log, a Lamport clock the log draws its times from, and a vector clock; two *)
(* threads append, some with a time they drew earlier, while another seals.   *)
(* append tests the seal before it takes the lock, and seal takes none. Nodes *)
(* exchange stamped messages. The contents of the events are left out, but    *)
(* for their causes.                                                          *)
EXTENDS Integers, Sequences, FiniteSets

CONSTANTS NumNodes, Appenders,
          NodeOf,           \* the node whose log an appender appends to
          MaxTimes          \* bound: times drawn from the clocks
ASSUME EventLogAssumption == NodeOf \in [Appenders -> 1 .. NumNodes] /\ MaxTimes \in Nat
                             /\ IsFiniteSet(Appenders)
LogNodes == 1 .. NumNodes

VARIABLES events,           \* EventLog._events: [time, drew], drew: the event drew its own time
          sealed, digest,   \* the seal, and the events its hash covers (-1: no hash yet)
          doing,            \* an appender's place: "out", or "tested" the seal
          early,            \* the time it drew before the call, or 0
          before,           \* the appenders that had passed the test when the log was sealed
          lamport, vector,  \* the clocks
          stamps,           \* what was stamped: [node, time, clock, past]
          drawn             \* times drawn so far
logVars == <<events, sealed, digest, doing, early, before, lamport, vector, stamps, drawn>>

LogInit ==
    /\ events = [n \in LogNodes |-> <<>>] /\ sealed = [n \in LogNodes |-> FALSE]
    /\ digest = [n \in LogNodes |-> -1]
    /\ doing = [a \in Appenders |-> "out"] /\ early = [a \in Appenders |-> 0]
    /\ before = {} /\ lamport = [n \in LogNodes |-> 0]
    /\ vector = [n \in LogNodes |-> [m \in LogNodes |-> 0]] /\ stamps = <<>>
    /\ drawn = 0

Draw == drawn < MaxTimes /\ drawn' = drawn + 1
Ticked(n) == Draw /\ lamport' = [lamport EXCEPT ![n] = @ + 1]        \* LamportClock.tick
-----------------------------------------------------------------------------
(* append, with the time drawn by the caller (logical_time) or under the lock. *)

DrawEarly(a) ==
    /\ doing[a] = "out" /\ early[a] = 0 /\ Ticked(NodeOf[a])
    /\ early' = [early EXCEPT ![a] = lamport'[NodeOf[a]]]
    /\ UNCHANGED <<events, sealed, digest, doing, before, vector, stamps>>

NoTest(a) == TRUE                                     \* mutant: the seal is not tested
Open(a) == ~sealed[NodeOf[a]]
TestSeal(a) ==
    /\ doing[a] = "out" /\ Open(a)
    /\ doing' = [doing EXCEPT ![a] = "tested"]
    /\ UNCHANGED <<events, sealed, digest, early, before, lamport, vector, stamps, drawn>>

\* Sealed: append raises, and the time it was given is gone.
RefusedAppend(a) ==
    /\ doing[a] = "out" /\ ~Open(a) /\ early[a] > 0
    /\ early' = [early EXCEPT ![a] = 0]
    /\ UNCHANGED <<events, sealed, digest, doing, before, lamport, vector, stamps, drawn>>

AppendEvent(a) ==
    /\ doing[a] = "tested" /\ doing' = [doing EXCEPT ![a] = "out"]
    /\ LET n == NodeOf[a]
       IN  IF early[a] > 0
           THEN /\ events' = [events EXCEPT ![n] = Append(@, [time |-> early[a], drew |-> FALSE])]
                /\ early' = [early EXCEPT ![a] = 0] /\ UNCHANGED <<lamport, drawn>>
           ELSE /\ Ticked(n)
                /\ events' = [events EXCEPT ![n] = Append(@, [time |-> lamport'[n], drew |-> TRUE])]
                /\ UNCHANGED early
    /\ UNCHANGED <<sealed, digest, before, vector, stamps>>

\* seal sets the flag and then hashes the events there are.
Seal(n) ==
    /\ ~sealed[n] /\ sealed' = [sealed EXCEPT ![n] = TRUE]
    /\ before' = before \union {a \in Appenders : NodeOf[a] = n /\ doing[a] = "tested"}
    /\ UNCHANGED <<events, digest, doing, early, lamport, vector, stamps, drawn>>
Hash(n) ==
    /\ sealed[n] /\ digest[n] = -1 /\ digest' = [digest EXCEPT ![n] = Len(events[n])]
    /\ UNCHANGED <<events, sealed, doing, early, before, lamport, vector, stamps, drawn>>
-----------------------------------------------------------------------------
(* The clocks alone: a stamp carries both times of its node, and its causes.  *)

LargerOf(x, y) == IF x > y THEN x ELSE y
OwnStamps(n) == {i \in DOMAIN stamps : stamps[i].node = n}
Stamp(n, causes) ==
    stamps' = Append(stamps, [node |-> n, time |-> lamport'[n], clock |-> vector'[n],
                              past |-> UNION {{i} \union stamps[i].past : i \in causes}])

Stamped(n) ==                                            \* a local event, or a message's stamp
    /\ Ticked(n)
    /\ vector' = [vector EXCEPT ![n][n] = @ + 1] /\ Stamp(n, OwnStamps(n))
    /\ UNCHANGED <<events, sealed, digest, doing, early, before>>

NotMerged(n, i) == vector[n]                          \* mutant: the sender's clock is ignored
Merged(n, i) == [m \in LogNodes |-> LargerOf(vector[n][m], stamps[i].clock[m])]
\* A message may come late, out of order or twice.
Receive(n, i) ==
    /\ Draw /\ stamps[i].node # n
    /\ lamport' = [lamport EXCEPT ![n] = LargerOf(@, stamps[i].time) + 1]
    /\ vector' = [vector EXCEPT ![n] = [Merged(n, i) EXCEPT ![n] = @ + 1]]
    /\ Stamp(n, OwnStamps(n) \union {i})
    /\ UNCHANGED <<events, sealed, digest, doing, early, before>>

LogNext == \/ \E a \in Appenders : DrawEarly(a) \/ TestSeal(a) \/ RefusedAppend(a) \/ AppendEvent(a)
           \/ \E n \in LogNodes : Seal(n) \/ Hash(n) \/ Stamped(n) \/ \E i \in DOMAIN stamps : Receive(n, i)
-----------------------------------------------------------------------------
(* Properties.                                                               *)

HappensBefore(c, d) == /\ \A m \in LogNodes : c[m] <= d[m]     \* VectorClock.happens_before
                       /\ \E m \in LogNodes : c[m] < d[m]

\* The events that drew their own time are ordered by it, whoever appends.
TimesRise == \A n \in LogNodes : \A i, j \in DOMAIN events[n] :
                 i < j /\ events[n][i].drew /\ events[n][j].drew
                 => events[n][i].time < events[n][j].time
\* Only calls that were past the test when the log was sealed can still add to
\* what the hash covers, one event each.
SealHolds == \A n \in LogNodes : digest[n] # -1 =>
                 Len(events[n]) - digest[n] <= Cardinality({a \in before : NodeOf[a] = n})
\* The vector clocks tell exactly the causes of an event, and the Lamport times
\* follow them.
ClocksTell == \A i, j \in DOMAIN stamps :
                 /\ (i \in stamps[j].past) <=> HappensBefore(stamps[i].clock, stamps[j].clock)
                 /\ i \in stamps[j].past => stamps[i].time < stamps[j].time

\* A log's own times rise, a sealed log grows by no later call, and the clocks of
\* nodes that exchange messages in any order agree with causality
\* (EventLog.append, EventLog.seal, LamportClock, VectorClock.happens_before).
LogIsCausal == TimesRise /\ SealHolds /\ ClocksTell
=============================================================================
