------------------------------ MODULE Recovery ------------------------------
(***************************************************************************)
(* From a failure to an action (resilience.py): RecoveryPlanner.classify,  *)
(* Supervisor.decide and SupervisionTree.handle, as run_campaign drives    *)
(* them.  One handle call is a walk up the tree, one Decide per level.     *)
(* Evidence hashes, reasons, seeds and the details of an event are left    *)
(* out; a context is its resolved values, defaults applied.                *)
(***************************************************************************)
EXTENDS Naturals, Sequences

CONSTANTS Subjects,       \* what the failures attach to
          Scenarios,      \* the scenario ids that are injected
          Budget,         \* max_attempts, a function of the level
          MaxIncidents    \* bound on the failures handled

VARIABLES attempts,       \* Supervisor.attempts of each level
          walk,           \* the handle call under way, or Idle
          entry,          \* the campaign's entry for the last call that ended
          incidents       \* history: failures so far, for the bound

recoveryVars == <<attempts, walk, entry, incidents>>
-----------------------------------------------------------------------------
Levels == <<"TASK", "WORKER", "DOMAIN", "FEDERATION">>

Undetectable == {"stale_calibration", "route_degradation", "stale_topology"}

\* The scenarios each rule of classify lists.
EbitFailures == {"ebit_generation_failure", "ebit_expiration"}
Crashes      == {"worker_crash", "process_crash"}
Preparable   == Crashes \cup {"qpu_unavailable", "stale_calibration",
                              "coherence_deadline_exceeded", "quantum_link_failure"}
Reroutable   == {"route_invalidation", "route_degradation", "quantum_link_failure",
                 "node_unavailable", "domain_loss"}
Damages      == Crashes \cup {"checkpoint_corruption", "shard_corruption", "memory_exhaustion"}
Repeatable   == {"dropped_message", "duplicate_message", "corrupt_message",
                 "classical_packet_loss", "classical_link_timeout",
                 "stale_reservation", "stale_topology"}

Context == [unknown : BOOLEAN,         \* unknown quantum state is held
            known : BOOLEAN,           \* the state is classically known
            fromCheckpoint : BOOLEAN, duplication : BOOLEAN,
            routes : BOOLEAN,          \* some alternative route exists
            boundary : BOOLEAN,        \* an admissible boundary is named
            idempotent : BOOLEAN, classicalOnly : BOOLEAN, target : BOOLEAN]

Unrecoverable(c) == c.unknown /\ ~c.known

RulesReversed(sid, c) == ~c.routes /\ Unrecoverable(c)    \* mutant: an alternative route excuses it

\* I1 to I4: what no rule below may promote.
Impossible(sid, c) ==
    /\ Unrecoverable(c)
    /\ \/ c.fromCheckpoint \/ c.duplication
       \/ sid = "coherence_deadline_exceeded" /\ ~c.boundary
       \/ sid = "quantum_link_failure" /\ ~c.routes /\ ~c.boundary

\* R1 to R8 and I5, in the order they are tried; R9 is the last.
Rules(sid, c) ==
    << <<sid \in EbitFailures,                       "REGENERATE_ENTANGLEMENT">>,
       <<c.known /\ sid \in Preparable,              "REPREPARE_KNOWN_STATE">>,
       <<c.routes /\ sid \in Reroutable,             "REROUTE_SAFE">>,
       <<c.target,                                   "RECOVERY_TARGET_SPECIFIC">>,
       <<c.classicalOnly /\ c.boundary,              "RESTART_FROM_CLASSICAL_BOUNDARY">>,
       <<c.classicalOnly /\ sid \in Damages,         "ROLLBACK_CLASSICAL_ONLY">>,
       <<c.idempotent \/ sid \in Repeatable,         "RETRY_SAFE">>,
       <<c.unknown /\ c.boundary,                    "RESTART_FROM_CLASSICAL_BOUNDARY">>,
       <<c.unknown,                                  "RECOVERY_IMPOSSIBLE">>,
       <<TRUE,                                       "RESTART_FROM_CLASSICAL_BOUNDARY">> >>

FirstRule(rules) == CHOOSE i \in DOMAIN rules : rules[i][1] /\ \A j \in 1..i-1 : ~rules[j][1]

Ordinary(sid, c) == LET rules == Rules(sid, c) IN rules[FirstRule(rules)][2]

Classify(sid, c) == IF Impossible(sid, c) THEN "RECOVERY_IMPOSSIBLE" ELSE Ordinary(sid, c)
-----------------------------------------------------------------------------
Quiet == [busy |-> FALSE]
NoEntry == [action |-> "none"]

RecoveryInit == /\ attempts = [l \in 1..Len(Levels) |-> [s \in Subjects |-> 0]]
                /\ walk = Quiet /\ entry = NoEntry
                /\ incidents = 0

\* FailureInjector.inject and RecoveryPlanner.classify: all that a scenario and its context
\* leave for the supervisors.  extended: the context names an extended detector.
Incident(sid, c, extended) ==
    [class |-> Classify(sid, c), detected |-> sid \notin Undetectable \/ extended,
     forbidden |-> Unrecoverable(c) /\ (c.fromCheckpoint \/ c.duplication)]

Incidents == {Incident(sid, c, extended) : sid \in Scenarios, c \in Context, extended \in BOOLEAN}

\* handle(start_level) begins.
Inject(i, s, start) ==
    /\ ~walk.busy /\ incidents < MaxIncidents
    /\ walk' = [busy |-> TRUE, subject |-> s, level |-> start, start |-> start, incident |-> i]
    /\ incidents' = incidents + 1 /\ entry' = NoEntry
    /\ UNCHANGED attempts

\* The action a level maps a class to.
ActionOf(class) ==
    CASE class = "REROUTE_SAFE"                                 -> "reroute"
      [] class \in {"RETRY_SAFE", "REGENERATE_ENTANGLEMENT"}    -> "retry"
      [] class \in {"RESTART_FROM_CLASSICAL_BOUNDARY", "REPREPARE_KNOWN_STATE",
                    "ROLLBACK_CLASSICAL_ONLY"}                  -> "restart"
      [] OTHER                                                  -> "escalate"

OverBudget(n, l) == n > Budget[l]

\* Supervisor.decide: every decision is an attempt, an abort and an escalation too.
Decision(n, l, class) ==
    IF class = "RECOVERY_IMPOSSIBLE" THEN "abort"
    ELSE IF OverBudget(n, l) THEN "escalate"
    ELSE ActionOf(class)

\* The campaign's entry: recovered only if it was detected and acted upon.
Close(action) == /\ entry' = [action |-> action, walk |-> walk,
                              recovered |-> walk.incident.detected
                                            /\ action \in {"retry", "restart", "reroute"}]
                 /\ walk' = Quiet

NoEnd(l) == FALSE            \* mutant: nothing is raised past the last level
PastLast(l) == l = Len(Levels)

\* One round of handle's loop: the level decides, or passes the incident to its parent;
\* past FEDERATION the call raises SupervisionEscalation and the campaign aborts.
Decide ==
    /\ walk.busy
    /\ LET l == walk.level
           n == attempts[l][walk.subject] + 1
           d == Decision(n, l, walk.incident.class)
       IN  /\ attempts' = [attempts EXCEPT ![l][walk.subject] = n]
           /\ \/ d # "escalate" /\ Close(d)
              \/ d = "escalate" /\ PastLast(l) /\ Close("exhausted")
              \/ d = "escalate" /\ l < Len(Levels) /\ entry' = entry
                 /\ walk' = [walk EXCEPT !.level = l + 1]
    /\ UNCHANGED incidents

RecoveryNext == \/ \E i \in Incidents, s \in Subjects, start \in DOMAIN Levels : Inject(i, s, start)
                \/ Decide
-----------------------------------------------------------------------------
\* A failure whose recovery would need to rebuild or to copy unknown quantum state is
\* aborted by the first supervisor asked, whatever else its context offers and whatever
\* budget is left (classify's rule order, decide's first test).
ForbiddenAborts ==
    entry # NoEntry /\ entry.walk.incident.forbidden =>
        entry.action = "abort" /\ entry.walk.level = entry.walk.start /\ ~entry.recovered

\* Every incident ends, in an action or past the last supervisor, and a forbidden
\* one by being aborted at once (SupervisionTree.handle, Supervisor.decide).
IncidentsEnd == []ForbiddenAborts /\ (walk.busy ~> ~walk.busy)
=============================================================================
