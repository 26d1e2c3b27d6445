----------------------------- MODULE TaskRuntime -----------------------------
(***************************************************************************)
(* The task runtime of the fabric (fabric.py, TaskRuntime) and the quantum *)
(* payloads its tasks own.                                                 *)
(*                                                                         *)
(* The deterministic profiles execute one task at a time, on the call      *)
(* stack of whoever called run: the program, or the function of a task,    *)
(* which may spawn, cancel, await, wait and fence like the program.  The   *)
(* process profiles harvest a whole run at once from child processes.      *)
(* What a function computes is left out: it makes any calls and then       *)
(* returns or raises.                                                      *)
(***************************************************************************)
EXTENDS Naturals, Sequences

CONSTANTS MaxTasks,     \* bound on the tasks spawned
          Jobs,         \* what is spawned: a priority, and whether the declared cost
                        \* exceeds timeout_ticks
          Payloads,     \* quantum payload handles
          MaxDepth      \* bound on the call stack

ASSUME RuntimeAssumption == /\ MaxTasks \in Nat
                            /\ Jobs \subseteq [prio : Nat, overdue : BOOLEAN]
                            /\ MaxDepth \in Nat

VARIABLES inProcesses,  \* the profile: tasks run in child processes
          tasks,        \* _tasks; a task is named by its place in the list, and seq is
                        \* what the schedule sorts by: its own place, or its original's
          stack,        \* the calls in progress: the program, a task's function, or a run
                        \* (for run, await_task, wait_event or barrier) with
                        \* todo, the tasks it still has to execute, and
                        \* upto, how many tasks were spawned at the call
          consumed,     \* the payloads in state CONSUMED; the others are LIVE
          ownerOf,      \* _owner_of: payload -> task, 0 for no entry
          logged,       \* the ownership that EventLog.reconstruct finds in the log
          settled       \* history: how tasks stood while no call was in progress

taskVars == <<inProcesses, tasks, stack, consumed, ownerOf, logged, settled>>
-----------------------------------------------------------------------------
Final  == {"DONE", "FAILED", "CANCELLED", "TIMED_OUT"}
Ids    == 1..MaxTasks

Spawned == 1..Len(tasks)
RetryFailed == {t \in Spawned : tasks[t].state \in {"READY", "FAILED"}}    \* mutant
Ready == {t \in Spawned : tasks[t].state = "READY"}
FinishedPairs(ts) == {<<t, ts[t].state>> : t \in {u \in 1..Len(ts) : ts[u].state \in Final}}
HoldsQuantum(t) == tasks[t].held \ consumed # {}

Top == stack[Len(stack)]
Popped == SubSeq(stack, 1, Len(stack) - 1)

\* The tasks whose functions are on the stack, and 0 for the program.
Executing == {stack[i].task : i \in {j \in 1..Len(stack) : stack[j].kind = "task"}}

\* The program at the bottom of the stack, or the function on top, makes the next call.
MayCall == Top.kind = "task"
Program == [kind |-> "task", task |-> 0, todo |-> {}, upto |-> 0]

Step(ts, calls) ==
    /\ tasks' = ts /\ stack' = calls
    /\ settled' = IF Len(calls) = 1 THEN settled \cup FinishedPairs(ts) ELSE settled
    /\ UNCHANGED inProcesses

WithState(t, s) == [tasks EXCEPT ![t].state = s]
-----------------------------------------------------------------------------
TaskInit == /\ inProcesses \in BOOLEAN
            /\ tasks = <<>>
            /\ stack = <<Program>>
            /\ consumed = {}
            /\ ownerOf = [p \in Payloads |-> 0]
            /\ logged = [p \in Payloads |-> 0]
            /\ settled = {}

Added(priority, over, number) ==
    /\ MayCall /\ Len(tasks) < MaxTasks
    /\ Step(Append(tasks, [state |-> "READY", prio |-> priority, overdue |-> over,
                           seq |-> number, held |-> {}]), stack)
    /\ UNCHANGED <<consumed, ownerOf, logged>>

Spawn(job) == Added(job.prio, job.overdue, Len(tasks) + 1)

\* speculate: a replica of any task without a live payload, finished or not, goes before
\* it and takes neither its payloads nor its timeout.
Speculate(t) ==
    /\ t \in Spawned /\ ~HoldsQuantum(t)
    /\ Added(tasks[t].prio + 1, FALSE, tasks[t].seq)

\* cancel: a finished task is left alone; a running one is not interrupted.
Cancel(t) ==
    /\ MayCall /\ t \in Spawned /\ tasks[t].state \notin Final
    /\ Step(WithState(t, "CANCELLED"), stack)
    /\ UNCHANGED <<consumed, ownerOf, logged>>

\* first_valid_completion: raises unless one is DONE, cancels the other like cancel, and
\* leaves it alone when it is finished too.
FirstValidCompletion(t, u) ==
    /\ {t, u} \subseteq Spawned /\ t # u /\ tasks[t].seq = tasks[u].seq
    /\ tasks[t].state = "DONE" /\ Cancel(u)
-----------------------------------------------------------------------------
\* run in this process: the tasks ready now are executed, later ones are not.
StartRun ==
    /\ ~inProcesses /\ Len(stack) < MaxDepth
    /\ Step(tasks, Append(stack, [kind |-> "run", task |-> 0, todo |-> Ready,
                                  upto |-> Len(tasks)]))

\* run in child processes: nothing with a live payload crosses, and a function that
\* raises makes the whole run raise with nothing recorded (no step).
Harvest ==
    /\ inProcesses /\ Ready # {} /\ \A t \in Ready : ~HoldsQuantum(t)
    /\ Step([t \in Spawned |-> IF t \in Ready THEN [tasks[t] EXCEPT !.state = "DONE"]
                                              ELSE tasks[t]], stack)

Runs == /\ MayCall
        /\ StartRun \/ Harvest
        /\ UNCHANGED <<consumed, ownerOf, logged>>

\* run, and wait_event while its event is not set: it drains the pending work first.
Run == Runs
Barrier == Runs

\* await_task of a finished task returns or raises at once.
Await(t) == t \in Spawned /\ tasks[t].state \notin Final /\ Runs

\* The schedule: by priority, then in submission order; the sort is stable.
Before(t, u) == \/ tasks[t].prio > tasks[u].prio
                \/ tasks[t].prio = tasks[u].prio /\ tasks[t].seq < tasks[u].seq
                \/ tasks[t].prio = tasks[u].prio /\ tasks[t].seq = tasks[u].seq /\ t <= u

\* _execute skips a cancelled task and executes any other, a finished one included:
\* the list was made when run was called.
Executes(t) ==
    LET rest == [stack EXCEPT ![Len(stack)].todo = @ \ {t}]
    IN  CASE tasks[t].state = "CANCELLED" -> Step(tasks, rest)
          [] tasks[t].state # "CANCELLED" /\ tasks[t].overdue ->
                 Step(WithState(t, "TIMED_OUT"), rest)
          [] OTHER ->
                 Step(WithState(t, "RUNNING"),
                      Append(rest, [kind |-> "task", task |-> t, todo |-> {},
                                    upto |-> Len(tasks)]))

Execute == /\ \E t \in Top.todo : /\ \A u \in Top.todo : Before(t, u)
                                  /\ Executes(t)
           /\ UNCHANGED <<consumed, ownerOf, logged>>

\* The function returns or raises: the state is overwritten, CANCELLED too.
Return == /\ Len(stack) > 1 /\ Top.kind = "task"
          /\ \E s \in {"DONE", "FAILED"} : Step(WithState(Top.task, s), Popped)
          /\ UNCHANGED <<consumed, ownerOf, logged>>

SomeLeft == TRUE                   \* mutant: run may return before its list is executed

RunIsOver == Top.todo = {}

\* run, await_task, wait_event or barrier returns to its caller.
RunEnds == /\ Top.kind # "task" /\ RunIsOver
           /\ Step(tasks, Popped)
           /\ UNCHANGED <<consumed, ownerOf, logged>>
-----------------------------------------------------------------------------
KeepInBoth(t, p) == [tasks EXCEPT ![t].held = @ \cup {p}]   \* mutant: not taken away

\* A payload is taken from the list of the task that _owner_of names.
Moved(t, p) == [u \in Spawned |->
                   CASE u = t -> [tasks[u] EXCEPT !.held = @ \cup {p}]
                     [] u # t /\ u = ownerOf[p] -> [tasks[u] EXCEPT !.held = @ \ {p}]
                     [] OTHER -> tasks[u]]

\* reconstruct: a move gives the payload to its destination, a consumption takes it away.
ReplayedMove(p, t) == [logged EXCEPT ![p] = t]
ReplayedConsume(p) == [logged EXCEPT ![p] = 0]

\* transfer_ownership refuses consumed payloads and ones the task holds already.
Transfer(t, p) ==
    /\ MayCall /\ t \in Spawned /\ p \notin consumed /\ p \notin tasks[t].held
    /\ Step(Moved(t, p), stack)
    /\ ownerOf' = [ownerOf EXCEPT ![p] = t]
    /\ logged' = ReplayedMove(p, t)
    /\ UNCHANGED consumed

\* release_ownership asks neither whether the task holds the payload nor its state.
Release(t, p) ==
    /\ MayCall /\ t \in Spawned
    /\ Step([tasks EXCEPT ![t].held = @ \ {p}], stack)
    /\ consumed' = consumed \cup {p}
    /\ ownerOf' = [ownerOf EXCEPT ![p] = 0]
    /\ logged' = ReplayedConsume(p)
-----------------------------------------------------------------------------
TaskNext == \/ \E job \in Jobs : Spawn(job)
            \/ \E t \in Ids : Cancel(t) \/ Await(t) \/ Speculate(t)
            \/ \E t, u \in Ids : FirstValidCompletion(t, u)
            \/ Run \/ Barrier \/ Execute \/ Return \/ RunEnds
            \/ \E t \in Ids, p \in Payloads : Transfer(t, p) \/ Release(t, p)

TaskSpec == TaskInit /\ [][TaskNext]_taskVars
-----------------------------------------------------------------------------
\* A live payload is in the list of the task that a replay of the log finds, and in no
\* other: no two tasks ever hold one lineage (transfer_ownership, release_ownership).
OwnedOnce ==
    \A p \in Payloads \ consumed :
        {t \in Spawned : p \in tasks[t].held} = {logged[p]} \ {0}

\* A task that was finished while no call was in progress is never executed, cancelled
\* or timed out again, whatever runs, nested or not, follow (run's list, cancel).
SettledStays == \A pair \in settled : tasks[pair[1]].state = pair[2]

\* A barrier is a fence: when run, await_task or barrier returns, every task spawned
\* before the call is finished, or is itself waiting for that return.
RunFences ==
    Top.kind # "task" /\ Len(stack') < Len(stack) =>
        \A n \in 1 .. Top.upto : tasks'[n].state \in Final \/ n \in Executing

\* What finished between two calls stays as it is, and a call that returns leaves
\* nothing older unfinished (TaskRuntime.run, cancel, barrier).
FinishedForGood == [][SettledStays' /\ RunFences]_taskVars

\* The runtime's promise, replicas included: one owner for a live payload, one end for a
\* task, and no return before what is older has ended.
TasksAreSafe == []OwnedOnce /\ FinishedForGood
=============================================================================
