----------------------------- MODULE Supersteps -----------------------------
(* The BSP engine of fabric.py over a federation that may change under it:    *)
(* local compute in the order of the worker ids, the messages of the plan,    *)
(* the hierarchical barrier, and the places where a superstep can raise after *)
(* it changed something. A plan, and a barrier's level, is chosen when used.   *)
EXTENDS Federation

CONSTANTS MaxAttempts,     \* bound: calls of superstep
          MaxBspActs,         \* bound: those calls and changes of the federation together
          MaxPlan          \* bound: messages of one plan
ASSUME SuperstepsAssumption == MaxAttempts \in Nat /\ MaxBspActs \in Nat /\ MaxPlan \in Nat

Levels == <<"worker_group", "domain", "federation">>
Refused == 0               \* a message to an unknown worker, or with a quantum payload

VARIABLES inboxes,         \* the workers the engine was built with, and their messages
          attempt,         \* calls of superstep so far
          stage,           \* "idle", "compute", "communication", "barrier"
          todo,            \* the participants that have not computed yet
          plan,            \* the destinations of the messages not sent yet
          recorded,        \* the supersteps recorded
          barriers,        \* the scopes of the last barrier
          sent, taken   \* per worker: the attempts that sent its messages, and
                           \* the pairs <<sent in, taken in>>
bspVars == <<inboxes, attempt, stage, todo, plan, recorded, barriers, sent, taken>>

BspInit ==
    /\ FederationInit
    /\ inboxes = [w \in WorkerIds |-> <<>>]
    /\ attempt = 0 /\ stage = "idle" /\ todo = {} /\ plan = <<>>
    /\ recorded = 0 /\ barriers = {}
    /\ sent = [w \in Workers |-> <<>>] /\ taken = [w \in Workers |-> <<>>]

Raise == stage' = "idle" /\ todo' = {} /\ plan' = <<>>

\* Other code changes the federation between two supersteps; the engine keeps
\* the inboxes it was built with.
Reshape == stage = "idle" /\ attempt + changes < MaxBspActs /\ FederationNext /\ UNCHANGED bspVars

\* superstep: a participant without an inbox makes it raise before anything else.
Begin ==
    /\ stage = "idle" /\ attempt < MaxAttempts /\ attempt + changes < MaxBspActs /\ attempt' = attempt + 1
    /\ stage' = "compute" /\ todo' \in SUBSET DOMAIN inboxes
    /\ UNCHANGED <<inboxes, plan, recorded, barriers, sent, taken, federationVars>>

\* The function returns, and only then the inbox is emptied.
Emptied(w, raised) == IF raised THEN inboxes[w] ELSE <<>>
TakenFirst(w, raised) == <<>>                   \* mutant: emptied before the function runs
Left(w, raised) == Emptied(w, raised)

TakenNow(w) == [i \in DOMAIN inboxes[w] |-> <<inboxes[w][i], attempt>>]
Compute ==
    /\ stage = "compute" /\ todo # {}
    /\ LET w == Lowest(todo)
       IN  \E raised \in BOOLEAN :
              /\ inboxes' = [inboxes EXCEPT ![w] = Left(w, raised)]
              /\ IF raised THEN Raise /\ UNCHANGED taken
                 ELSE /\ taken' = [taken EXCEPT ![w] = @ \o TakenNow(w)]
                      /\ todo' = todo \ {w} /\ UNCHANGED <<stage, plan>>
    /\ UNCHANGED <<attempt, recorded, barriers, sent, federationVars>>

Plans == UNION {[1 .. n -> Workers \union {Refused}] : n \in 0 .. MaxPlan}
Computed ==
    /\ stage = "compute" /\ todo = {} /\ stage' = "communication" /\ plan' \in Plans
    /\ UNCHANGED <<inboxes, attempt, todo, recorded, barriers, sent, taken, federationVars>>

\* The messages before a refused one stay delivered.
Communicate ==
    /\ stage = "communication" /\ plan # <<>>
    /\ LET dst == Head(plan)
       IN  IF dst \notin DOMAIN inboxes
           THEN Raise /\ UNCHANGED <<inboxes, sent>>
           ELSE /\ inboxes' = [inboxes EXCEPT ![dst] = Append(@, attempt)]
                /\ sent' = [sent EXCEPT ![dst] = Append(@, attempt)]
                /\ plan' = Tail(plan) /\ UNCHANGED <<stage, todo>>
    /\ UNCHANGED <<attempt, recorded, barriers, taken, federationVars>>

\* barrier: every level up to the one asked for, over the federation as it is
\* now. A group or a domain without workers is a scope too.
ScopesAt(l) == CASE l = 1 -> {groupMembers[g] : g \in UNION {groups[d] : d \in domains}}
                 [] l = 2 -> {WorkersIn(d) : d \in domains}
                 [] l = 3 -> {WorkerIds}
LevelsUpTo(l) == 1 .. l
SyncBarrier ==
    /\ stage = "communication" /\ plan = <<>>
    /\ \E top \in DOMAIN Levels :
          barriers' = UNION {{[level |-> l, participants |-> s] : s \in ScopesAt(l)} : l \in LevelsUpTo(top)}
    /\ recorded' = recorded + 1 /\ stage' = "idle"
    /\ UNCHANGED <<inboxes, attempt, todo, plan, sent, taken, federationVars>>

\* An unknown level is found out only now: nothing is recorded, and the
\* messages are delivered.
UnknownLevel ==
    /\ stage = "communication" /\ plan = <<>> /\ Raise
    /\ UNCHANGED <<inboxes, attempt, recorded, barriers, sent, taken, federationVars>>

BspNext == Reshape \/ Begin \/ Compute \/ Computed \/ Communicate \/ SyncBarrier \/ UnknownLevel
-----------------------------------------------------------------------------
(* Properties.                                                               *)

Delivered ==
    /\ \A w \in DOMAIN inboxes :
          sent[w] = [i \in DOMAIN taken[w] |-> taken[w][i][1]] \o inboxes[w]
    /\ \A w \in Workers : \A i \in DOMAIN taken[w] : taken[w][i][1] < taken[w][i][2]
Covered ==
    LET top == {b.level : b \in barriers'}
        scopes(l) == {b.participants : b \in {c \in barriers' : c.level = l}}
    IN  /\ 1 \in top
        /\ \A l \in DOMAIN Levels : (\E m \in top : l <= m) =>
              /\ UNION scopes(l) = WorkerIds
              /\ \A s, t \in scopes(l) : s = t \/ s \intersect t = {}

\* Whatever raises in between, the messages a worker's functions were given and
\* the ones that wait for it are the messages sent to it, in order: none is lost
\* with a function that raised and none is seen twice; and none is taken by
\* the superstep that sent it. A recorded superstep has synchronised every worker
\* of the federation once at each level up to its own, the lowest included
\* (BSPEngine.superstep, BSPEngine.barrier).
SuperstepsDeliver ==
    [][Delivered' /\ (recorded' # recorded => Covered)]_<<federationVars, bspVars>>
=============================================================================
