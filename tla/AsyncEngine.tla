----------------------------- MODULE AsyncEngine -----------------------------
(***************************************************************************)
(* Futures, the completion queue and the happens-before graph (fabric.py,  *)
(* AsyncEngine and AsyncFuture).  drain runs the thunk of every pending    *)
(* future whose dependencies are done; a thunk is client code that may     *)
(* itself submit, cancel, add edges and drain.  Calls under way are a      *)
(* stack.  Values, done callbacks (nothing registers one) and the events   *)
(* emitted for the log are left out.                                       *)
(***************************************************************************)
EXTENDS Naturals, Sequences, SequencesExt

CONSTANTS MaxFutures,     \* bound on the futures submitted
          Related,        \* the pairs of futures a client may put in order
          MaxDrains        \* bound on the drains under way

VARIABLES futures,        \* the state of each future, in order of submission
          hb,             \* _hb, as pairs of ids; an id may be of no future yet
          pending,        \* _pending
          drains,         \* the drain calls under way, the innermost last
          completed,      \* every id put in completion_queue
          popped,         \* how many of them were popped
          runs,           \* history: how often each thunk was run
          inside,         \* history: the futures that a thunk submitted
          abandoned       \* history: what drains that raised had left to look at

asyncVars == <<futures, hb, pending, drains, completed, popped, runs, inside, abandoned>>
historyVars == <<inside, abandoned>>
-----------------------------------------------------------------------------
Submitted == 1..Len(futures)
Drain == drains[Len(drains)]
SetDrain(frame) == [drains EXCEPT ![Len(drains)] = frame]

\* The client acts when no drain is under way, and inside a thunk.
ClientActs == drains # <<>> => Drain.running # 0

AsyncInit == /\ futures = <<>> /\ hb = {} /\ pending = <<>> /\ drains = <<>>
             /\ completed = <<>> /\ popped = 0 /\ runs = <<>>
             /\ inside = {} /\ abandoned = {}

Submit(after) ==
    /\ ClientActs /\ Len(futures) < MaxFutures
    /\ LET f == Len(futures) + 1
       IN  /\ \A a \in after : <<a, f>> \in Related
           /\ futures' = Append(futures, "PENDING")
           /\ hb' = hb \cup {<<a, f>> : a \in after}
           /\ pending' = Append(pending, f)
    /\ runs' = Append(runs, 0)
    /\ inside' = inside \cup (IF drains = <<>> THEN {} ELSE {Len(futures) + 1})
    /\ UNCHANGED <<drains, completed, popped, abandoned>>

AddHappensBefore(pair) == /\ ClientActs /\ hb' = hb \cup {pair}
                          /\ UNCHANGED <<futures, pending, drains, completed, popped, runs, historyVars>>

CancelFuture(f) == /\ ClientActs /\ futures[f] = "PENDING"
                   /\ futures' = [futures EXCEPT ![f] = "CANCELLED"]
                   /\ UNCHANGED <<hb, pending, drains, completed, popped, runs, historyVars>>

PopCompletion == /\ ClientActs /\ popped < Len(completed) /\ popped' = popped + 1
                 /\ UNCHANGED <<futures, hb, pending, drains, completed, runs, historyVars>>

KeepPending == pending      \* mutant: the list is not taken over
TakenOver == <<>>

StartDrain == /\ ClientActs /\ Len(drains) < MaxDrains
              /\ drains' = Append(drains, [remaining |-> pending, still |-> <<>>,
                                           progress |-> FALSE, running |-> 0])
              /\ pending' = TakenOver
              /\ UNCHANGED <<futures, hb, completed, popped, runs, historyVars>>

Waiting(f) == \E e \in hb : e[2] = f /\ e[1] \in Submitted /\ futures[e[1]] = "PENDING"

\* The next future of this pass: kept for the next one, or its thunk is called.
TakeNext == /\ drains # <<>> /\ Drain.running = 0 /\ Drain.remaining # <<>>
            /\ LET f == Head(Drain.remaining)
               IN  IF Waiting(f)
                   THEN /\ drains' = SetDrain([Drain EXCEPT !.remaining = Tail(@), !.still = Append(@, f)])
                        /\ runs' = runs
                   ELSE /\ drains' = SetDrain([Drain EXCEPT !.remaining = Tail(@), !.running = f])
                        /\ runs' = [runs EXCEPT ![f] = @ + 1]
            /\ UNCHANGED <<futures, hb, pending, completed, popped, historyVars>>

\* The thunk returns or raises, and its future takes the result or the error.
Resolve(outcome) ==
    /\ drains # <<>> /\ Drain.running # 0 /\ futures[Drain.running] = "PENDING"
    /\ futures' = [futures EXCEPT ![Drain.running] = outcome]
    /\ completed' = Append(completed, Drain.running)
    /\ drains' = SetDrain([Drain EXCEPT !.running = 0, !.progress = TRUE])
    /\ UNCHANGED <<hb, pending, popped, runs, historyVars>>

\* The future was cancelled: set_result raises, then set_error, and drain is left with
\* what it had taken over.
DrainRaises == /\ drains # <<>> /\ Drain.running # 0 /\ futures[Drain.running] # "PENDING"
               /\ drains' = Front(drains)
               /\ abandoned' = abandoned \cup ToSet(Drain.remaining) \cup ToSet(Drain.still)
               /\ UNCHANGED <<futures, hb, pending, completed, popped, runs, inside>>

OnePass == TRUE             \* mutant: what waited for this pass's results is left
NoProgress == ~Drain.progress \/ Drain.still = <<>>

EndOfPass ==
    /\ drains # <<>> /\ Drain.running = 0 /\ Drain.remaining = <<>>
    /\ IF NoProgress
       THEN drains' = Front(drains) /\ pending' = Drain.still
       ELSE /\ drains' = SetDrain([Drain EXCEPT !.remaining = Drain.still, !.still = <<>>,
                                            !.progress = FALSE])
            /\ pending' = pending
    /\ UNCHANGED <<futures, hb, completed, popped, runs, historyVars>>

AsyncNext == \/ \E after \in SUBSET (1..MaxFutures) : Submit(after)
             \/ \E pair \in Related : AddHappensBefore(pair)
             \/ \E f \in Submitted : CancelFuture(f)
             \/ PopCompletion \/ StartDrain \/ TakeNext \/ DrainRaises \/ EndOfPass
             \/ \E outcome \in {"DONE", "FAILED"} : Resolve(outcome)
-----------------------------------------------------------------------------
\* Each thunk runs at most once, over all drains, nested ones too, and completion_queue
\* reports each future that a drain resolved exactly once.
RunsOnce ==
    /\ \A f \in Submitted : runs[f] <= 1
    /\ IsInjective(completed)
    /\ ToSet(completed) = {f \in Submitted : futures[f] \in {"DONE", "FAILED"}}

\* A drain that returns leaves only futures whose turn can come later: each one it puts
\* back waits for a future that is not done.
DrainReturns ==
    drains # <<>> /\ drains' = Front(drains) /\ pending' = Drain.still =>
        \A i \in DOMAIN Drain.still : Waiting(Drain.still[i]) \/ futures[Drain.still[i]] # "PENDING"

Held(f) == \/ f \in ToSet(pending)
           \/ \E d \in DOMAIN drains : \/ f \in ToSet(drains[d].remaining)
                                       \/ f \in ToSet(drains[d].still) \/ f = drains[d].running
\* What is forgotten was submitted by a thunk, or was left by a drain that raised.
Forgotten == {f \in Submitted : futures[f] = "PENDING" /\ ~Held(f)}
ForgottenForAReason == Forgotten \subseteq inside \cup abandoned

\* No thunk runs twice; a drain that returns puts back only what must wait; and a future
\* submitted outside the thunks is never forgotten by a drain that returns, nested drains
\* and submissions in between included. The two exceptions are the code's: drain sets
\* _pending to what it has left over whatever its thunks have submitted meanwhile, and a
\* drain that raises takes what it had not looked at with it (drain's docstring: "Resolve
\* every pending future in deterministic dependency order").
ThunksRunOnce == [][RunsOnce' /\ DrainReturns /\ ForgottenForAReason']_asyncVars
=============================================================================
