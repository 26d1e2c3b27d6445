----------------------------- MODULE TimerWheel -----------------------------
(***************************************************************************)
(* The logical timer wheel (fabric.py, TimerWheel).  A timer's callback is *)
(* client code: it may schedule timers, advance the wheel itself, return   *)
(* or raise.  Advances under way are a stack.  Timer ids are in order of   *)
(* creation.                                                               *)
(***************************************************************************)
EXTENDS Naturals, Sequences, SequencesExt

CONSTANTS Slots,          \* the wheel's span
          MaxTimers,      \* bound on the timers scheduled
          MaxTick,        \* bound on the ticks
          MaxNesting      \* bound on the advances under way
ASSUME WheelAssumption == Slots \in Nat \ {0}

VARIABLES now, fireTick,  \* fireTick: of each timer, in order of creation
          wheel,          \* the timers in each slot
          firedTimers,          \* the timers fired, in order
          advances,       \* the advance calls under way, the innermost last
          delay,          \* history: the delay of each timer
          raisers          \* history: the timers whose callback raised

wheelVars == <<now, fireTick, wheel, firedTimers, advances, delay, raisers>>
-----------------------------------------------------------------------------
Timers == 1..Len(fireTick)
SlotOf(tick) == tick % Slots
ThisAdvance == advances[Len(advances)]

\* The client acts outside advance, and inside a callback.
Calling == advances # <<>> => ThisAdvance.callback

WheelInit == /\ now = 0 /\ fireTick = <<>> /\ delay = <<>> /\ firedTimers = <<>> /\ advances = <<>>
             /\ raisers = {}
             /\ wheel = [s \in 0..Slots - 1 |-> {}]

FitsWheel(d) == d < Slots

Schedule(d) ==
    /\ Calling /\ FitsWheel(d) /\ Len(fireTick) < MaxTimers
    /\ fireTick' = Append(fireTick, now + d) /\ delay' = Append(delay, d)
    /\ wheel' = [wheel EXCEPT ![SlotOf(now + d)] = @ \cup {Len(fireTick) + 1}]
    /\ UNCHANGED <<now, firedTimers, advances, raisers>>

\* advance(ticks), one tick at a time.
StartAdvance(ticks) ==
    /\ Calling /\ Len(advances) < MaxNesting
    /\ advances' = Append(advances, [left |-> ticks, due |-> {}, callback |-> FALSE])
    /\ UNCHANGED <<now, fireTick, wheel, firedTimers, delay, raisers>>

\* mutant: one timer per tick
FirstDue(tick) == LET due == {t \in wheel[SlotOf(tick)] : fireTick[t] = tick}
                  IN  {t \in due : \A u \in due : t <= u}
\* The timers of this very tick, which are called by id.
Due(tick) == {t \in wheel[SlotOf(tick)] : fireTick[t] = tick}
NextDue == CHOOSE t \in ThisAdvance.due : \A u \in ThisAdvance.due : t <= u

SetAdvance(frame) == [advances EXCEPT ![Len(advances)] = frame]

Tick == /\ advances # <<>> /\ ~ThisAdvance.callback /\ ThisAdvance.due = {} /\ ThisAdvance.left > 0
        /\ now < MaxTick
        /\ now' = now + 1
        /\ advances' = SetAdvance([ThisAdvance EXCEPT !.left = @ - 1, !.due = Due(now + 1)])
        /\ UNCHANGED <<fireTick, wheel, firedTimers, delay, raisers>>

\* The next due timer leaves its slot and its callback runs; then it counts as fired.
Call == /\ advances # <<>> /\ ~ThisAdvance.callback /\ ThisAdvance.due # {}
        /\ wheel' = [wheel EXCEPT ![SlotOf(fireTick[NextDue])] = @ \ {NextDue}]
        /\ advances' = SetAdvance([ThisAdvance EXCEPT !.callback = TRUE])
        /\ UNCHANGED <<now, fireTick, firedTimers, delay, raisers>>

CallbackReturns ==
    /\ advances # <<>> /\ ThisAdvance.callback
    /\ firedTimers' = Append(firedTimers, NextDue)
    /\ advances' = SetAdvance([ThisAdvance EXCEPT !.due = @ \ {NextDue}, !.callback = FALSE])
    /\ UNCHANGED <<now, fireTick, wheel, delay, raisers>>

\* advance has no handler: the timer has left its slot and does not count as fired, the
\* others of its tick stay in theirs, and the caller of advance gets the exception, a
\* callback of an outer advance perhaps.
CallbackRaises ==
    /\ advances # <<>> /\ ThisAdvance.callback
    /\ raisers' = raisers \cup {NextDue} /\ advances' = Front(advances)
    /\ UNCHANGED <<now, fireTick, wheel, firedTimers, delay>>

AdvanceReturns ==
    /\ advances # <<>> /\ ~ThisAdvance.callback /\ ThisAdvance.due = {} /\ ThisAdvance.left = 0
    /\ advances' = Front(advances)
    /\ UNCHANGED <<now, fireTick, wheel, firedTimers, delay, raisers>>

WheelNext == \/ \E d \in 0..Slots : Schedule(d)
             \/ \E ticks \in 0..2 : StartAdvance(ticks)
             \/ Tick \/ Call \/ CallbackReturns \/ CallbackRaises \/ AdvanceReturns
-----------------------------------------------------------------------------
InHand(t) == \E i \in DOMAIN advances : t \in advances[i].due
CalledBack == ToSet(firedTimers) \cup raisers
\* An earlier timer of the same tick raised.
LeftBehind(t) == \E u \in raisers : u < t /\ fireTick[u] = fireTick[t]

\* A timer's callback is called once at most, in the advance that reaches its tick, also
\* when callbacks schedule timers, advance the wheel and raise; it fires unless it raises.
\* What a passed tick leaves uncalled is exactly this: a timer behind one of its own tick
\* that raised, and a timer of delay 0, whose tick no advance has yet to reach: it stays
\* in the wheel and is never called (advance increments now before it looks).
TimersFireOnce ==
    /\ IsInjective(firedTimers) /\ ToSet(firedTimers) \cap raisers = {}
    /\ \A t \in CalledBack : fireTick[t] <= now /\ delay[t] > 0
    /\ \A t \in Timers : delay[t] > 0 /\ fireTick[t] <= now =>
                           t \in CalledBack \/ InHand(t) \/ LeftBehind(t)
    /\ \A t \in Timers : delay[t] = 0 => t \in wheel[SlotOf(fireTick[t])]
=============================================================================
