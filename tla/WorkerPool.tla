----------------------------- MODULE WorkerPool -----------------------------
(***************************************************************************)
(* Work stealing over a federation whose worker groups may grow and shrink *)
(* (fabric.py, WorkStealing and ElasticWorkerGroup).  Workers are numbered *)
(* in the order of their ids; the deques are those of the workers that     *)
(* existed when WorkStealing was made.  The migration rules permit each    *)
(* move that the tasks permit.  The adaptation rate, which is only         *)
(* reported, and the steal records are left out.                           *)
(***************************************************************************)
EXTENDS Naturals, Sequences, FiniteSets, SequencesExt

CONSTANTS Items, Pinned,  \* Pinned: the tasks that are not movable
          First,          \* the workers at the start are 1..First
          MaxWorkers,     \* bound on the workers ever added
          Group, Domain,  \* of each worker
          Elastic,        \* the group that grows and shrinks
          MinSize, MaxSize

ASSUME PoolAssumption == First \in Nat

VARIABLES members,        \* the workers in the federation now
          next,           \* _next: the number of the next worker
          deques,         \* WorkStealing.deques
          unknown,        \* tasks that hold a live unknown payload
          notWaiting,     \* tasks whose state is not PENDING or READY
          handed,         \* the worker each task was handed to, 0 for none
          outcome,        \* how the last attempt_steal ended
          pushed,         \* history: the tasks that were pushed
          dropped         \* history: those that a steal which raised took off a deque

tasksVars == <<unknown, notWaiting>>
historyOfTasks == <<pushed, dropped>>
poolVars == <<members, next, deques, tasksVars, handed, outcome, historyOfTasks>>
-----------------------------------------------------------------------------
NoSteal == [thief |-> 0, result |-> "none yet"]
WithDeque == 1..First                   \* the workers that have a deque

PoolInit == /\ members = 1..First /\ next = First + 1
            /\ deques = [w \in WithDeque |-> <<>>]
            /\ unknown = {} /\ notWaiting = {} /\ handed = [t \in Items |-> 0] /\ outcome = NoSteal
            /\ pushed = {} /\ dropped = {}

Queued(t) == \E w \in WithDeque : t \in ToSet(deques[w])

\* The client pushes a task that is queued nowhere and was handed to nobody.
Push(w, t) == /\ w \in WithDeque /\ ~Queued(t) /\ handed[t] = 0
              /\ deques' = [deques EXCEPT ![w] = Append(@, t)]
              /\ outcome' = NoSteal /\ pushed' = pushed \cup {t} /\ dropped' = dropped \ {t}
              /\ UNCHANGED <<members, next, tasksVars, handed>>

\* A payload reaches a task, or leaves it (TaskRuntime.transfer_ownership).
Payload(t) == /\ unknown' = IF t \in unknown THEN unknown \ {t} ELSE unknown \cup {t}
              /\ outcome' = NoSteal
              /\ UNCHANGED <<members, next, deques, notWaiting, handed, historyOfTasks>>

\* The task is run, cancelled or timed out where the queues are not told (TaskRuntime).
Settles(t) == /\ t \notin notWaiting /\ notWaiting' = notWaiting \cup {t} /\ outcome' = NoSteal
              /\ UNCHANGED <<members, next, deques, unknown, handed, historyOfTasks>>

Scope(thief, level) == {w \in members : \/ level = "federation"
                                        \/ level = "domain" /\ Domain[w] = Domain[thief]
                                        \/ level = "worker_group" /\ Group[w] = Group[thief]}

\* The order of the victims of a level: deepest queue first, then by id.
Comes(v, w) == \/ Len(deques[v]) > Len(deques[w])
               \/ Len(deques[v]) = Len(deques[w]) /\ v < w

Movable(t) == t \notin Pinned /\ t \notin unknown
Stealable(t) == Movable(t) /\ t \notin notWaiting

FirstOnly(q) == IF q # <<>> /\ Stealable(q[1]) THEN {1} ELSE {}   \* mutant: only the head is looked at
\* The places in a deque of the tasks a thief may take.
Candidates(q) == {i \in DOMAIN q : Stealable(q[i])}

Levels3 == <<"worker_group", "domain", "federation">>

\* The levels the walk gets to: looking up the depth of a worker without a deque raises.
Reached(thief) == {l \in 1..3 : \A k \in 1..l : Scope(thief, Levels3[k]) \subseteq WithDeque}

\* The stops of the walk, a level and a victim, in their order; and those with a candidate.
Stops(thief) == {s \in Reached(thief) \X members : s[2] \in Scope(thief, Levels3[s[1]]) \ {thief}}
Earlier(s, t) == s[1] < t[1] \/ (s[1] = t[1] /\ Comes(s[2], t[2]))
Found(thief) == {s \in Stops(thief) : Candidates(deques[s[2]]) # {}}
FirstStop(S) == {s \in S : \A t \in S \ {s} : Earlier(s, t)}
FirstTask(q) == {i \in Candidates(q) : \A j \in Candidates(q) : i <= j}

End(thief, result) == outcome' = [thief |-> thief, result |-> result]

\* attempt_steal pops the thief's own deque first, whatever the task is.
PopLocal(thief) ==
    /\ thief \in WithDeque /\ deques[thief] # <<>>
    /\ handed' = [handed EXCEPT ![Last(deques[thief])] = thief]
    /\ deques' = [deques EXCEPT ![thief] = Front(@)]
    /\ End(thief, "local")
    /\ UNCHANGED <<members, next, tasksVars, historyOfTasks>>

\* A worker that was added later has no deque, and one that was removed is not looked up.
Fails(thief) == /\ (thief \in WithDeque => thief \notin members /\ deques[thief] = <<>>)
                /\ End(thief, "raised")
                /\ UNCHANGED <<members, next, deques, tasksVars, handed, historyOfTasks>>

CanWalk(thief) == thief \in WithDeque \cap members /\ deques[thief] = <<>>

StealFrom(thief, victim, i) ==
    /\ deques' = [deques EXCEPT ![victim] = RemoveAt(@, i)]
    /\ handed' = [handed EXCEPT ![deques[victim][i]] = thief]

Steal(thief) ==
    /\ CanWalk(thief)
    /\ IF Found(thief) = {}
       THEN /\ End(thief, IF Reached(thief) = 1..3 THEN "none" ELSE "raised")
            /\ UNCHANGED <<deques, handed>>
       ELSE /\ \E s \in FirstStop(Found(thief)) : \E i \in FirstTask(deques[s[2]]) : StealFrom(thief, s[2], i)
            /\ End(thief, "stolen")
    /\ UNCHANGED <<members, next, tasksVars, historyOfTasks>>

\* strict: the first task met that holds unknown state ends the walk.
StrictRefusal(thief) ==
    /\ CanWalk(thief)
    /\ \E s \in Stops(thief) : \E j \in DOMAIN deques[s[2]] :
          /\ deques[s[2]][j] \in unknown
          /\ \A t \in Found(thief) : Earlier(s, t) \/ (t = s /\ \A c \in Candidates(deques[s[2]]) : c > j)
    /\ End(thief, "refused")
    /\ UNCHANGED <<members, next, deques, tasksVars, handed, historyOfTasks>>

\* steal_specific: the task, whatever its state, goes to the back of the thief's deque.
\* The federation is asked for both workers first; it knows a thief that was added later,
\* which has no deque: the task is off the victim's deque when the look-up raises.
StealSpecific(thief, victim, i) ==
    /\ thief \in members /\ victim \in WithDeque \cap members
    /\ i \in DOMAIN deques[victim] /\ Movable(deques[victim][i])
    /\ LET t == deques[victim][i]
           without == [deques EXCEPT ![victim] = RemoveAt(@, i)]
       IN  IF thief \in WithDeque
           THEN deques' = [without EXCEPT ![thief] = Append(@, t)] /\ dropped' = dropped
           ELSE deques' = without /\ dropped' = dropped \cup {t}
    /\ outcome' = NoSteal
    /\ UNCHANGED <<members, next, tasksVars, handed, pushed>>

GroupMembers == {w \in members : Group[w] = Elastic}

Grow == /\ next <= MaxWorkers /\ Cardinality(GroupMembers) < MaxSize
        /\ members' = members \cup {next} /\ next' = next + 1 /\ outcome' = NoSteal
        /\ UNCHANGED <<deques, tasksVars, handed, historyOfTasks>>

\* shrink removes the last id; the deque of the removed worker stays where it is.
Shrink == /\ Cardinality(GroupMembers) > MinSize
          /\ members' = members \ {CHOOSE w \in GroupMembers : \A v \in GroupMembers : v <= w}
          /\ outcome' = NoSteal
          /\ UNCHANGED <<next, deques, tasksVars, handed, historyOfTasks>>

PoolNext == \/ \E t \in Items : Payload(t) \/ Settles(t) \/ \E w \in 1..First : Push(w, t)
            \/ \E w \in 1..next - 1 : PopLocal(w) \/ Fails(w) \/ Steal(w) \/ StrictRefusal(w)
            \/ \E w \in 1..next - 1, v \in 1..First : \E i \in DOMAIN deques[v] : StealSpecific(w, v, i)
            \/ Grow \/ Shrink
-----------------------------------------------------------------------------
Reachable(t) == \E w \in members \cap WithDeque : t \in ToSet(deques[w])

\* A walk that ends with nothing has missed nothing: no worker of the federation has a task
\* queued that could be stolen. One that raises may well have: it does when the federation
\* has grown or shrunk since the deques were made, for the thief or for a worker it comes
\* to, and says nothing of what is queued. Whatever the steals, a task that was pushed is
\* queued, was handed to a worker, or was dropped, and is dropped only when the federation
\* has grown (attempt_steal, its scopes and victim order, steal_specific).
WalkIsComplete ==
    /\ outcome.result = "none" => \A t \in Items : Reachable(t) => ~Stealable(t)
    /\ outcome.result = "raised" => outcome.thief \notin WithDeque \cap members \/ next > First + 1
    /\ \A t \in pushed : Queued(t) \/ handed[t] # 0 \/ t \in dropped
    /\ dropped # {} => next > First + 1
=============================================================================
