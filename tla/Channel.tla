------------------------------- MODULE Channel -------------------------------
(***************************************************************************)
(* The bounded, closable channels of the fabric (fabric.py, Channel and    *)
(* select) used by several threads.  Every critical section of a method    *)
(* is one step; a wait_for on the channel's condition gives the lock up,   *)
(* and the thread runs on after a notify_all or when its timeout expires.  *)
(* try_send, try_receive and select test the channel in one critical       *)
(* section and act in another.  Metrics and event logging are left out.    *)
(***************************************************************************)
EXTENDS Naturals, Sequences

CONSTANTS Senders, Receivers,   \* threads
          NumChans,             \* channels 1..NumChans, in select's order
          Capacity,             \* of every channel
          MaxSends              \* bound on the items each sender tries to send

ASSUME ChannelAssumption == /\ Senders \cap Receivers = {}
                            /\ NumChans \in Nat /\ NumChans >= 1
                            /\ Capacity \in Nat /\ Capacity >= 1
                            /\ MaxSends \in Nat

VARIABLES q,          \* _q of each channel
          closed,     \* _closed
          cancelled,  \* _cancelled
          th,         \* where each thread is
          woken,      \* the waiting threads that were notified
          calls       \* the sends each sender has completed, one way or another

channelVars == <<q, closed, cancelled, th, woken, calls>>
-----------------------------------------------------------------------------
Threads == Senders \cup Receivers
Chans   == 1..NumChans
Items   == Senders \X (1..MaxSends)

\* The places of a thread between two critical sections:
\*   idle      between two calls
\*   waitSend  in send's wait_for            waitRecv  in receive's wait_for
\*   trySend   try_send has seen room        tryRecv   try_receive, or select, has
\*                                                     seen an item
\*   select    about to peek at channel ch   selected  every peek found nothing
Places == {"idle", "waitSend", "waitRecv", "trySend", "tryRecv", "select", "selected"}

\* timed: the wait has a deadline.
ThreadState == [at : Places, ch : Chans, timed : BOOLEAN]

At(place, c, timed) == [at |-> place, ch |-> c, timed |-> timed]
AtRest == At("idle", 1, FALSE)

Waiting(t) == th[t].at \in {"waitSend", "waitRecv"}

\* The predicates of the two wait_for calls.
SendReady(c) == Len(q[c]) < Capacity \/ closed[c]
RecvReady(c) == q[c] # <<>> \/ closed[c]

\* The predicate thread t is waiting for.
Ready(t) == IF th[t].at = "waitSend" THEN SendReady(th[t].ch) ELSE RecvReady(th[t].ch)

WaitersOn(c) == {t \in Threads : Waiting(t) /\ th[t].ch = c}

NotifyOne(c) ==             \* mutant: notify instead of notify_all
    IF WaitersOn(c) = {} THEN {} ELSE {CHOOSE t \in WaitersOn(c) : TRUE}

\* The threads that notify_all on channel c wakes.
Notified(c) == WaitersOn(c)

\* The item sender s sends next, or is sending.
Item(s) == <<s, calls[s] + 1>>
-----------------------------------------------------------------------------
ChannelInit == /\ q = [c \in Chans |-> <<>>]
               /\ closed = [c \in Chans |-> FALSE]
               /\ cancelled = [c \in Chans |-> FALSE]
               /\ th = [t \in Threads |-> AtRest]
               /\ woken = {}
               /\ calls = [s \in Senders |-> 0]

\* A call returns or raises; a sender goes on to its next item.
Returns(t) ==
    /\ th' = [th EXCEPT ![t] = AtRest]
    /\ calls' = IF t \in Senders THEN [calls EXCEPT ![t] = @ + 1] ELSE calls

Moves(t, place, c, timed) == /\ th' = [th EXCEPT ![t] = At(place, c, timed)]
                             /\ UNCHANGED calls

\* send from the end of its wait: append and notify, or raise on a closed channel.
FinishSend(s, c) ==
    \/ /\ closed[c]
       /\ Returns(s) /\ woken' = woken \ {s} /\ UNCHANGED q
    \/ /\ ~closed[c]
       /\ q' = [q EXCEPT ![c] = Append(@, Item(s))]
       /\ Returns(s) /\ woken' = (woken \cup Notified(c)) \ {s}

\* send: raise, append at once, or wait for room.
EnterSend(s, c, timed) ==
    \/ SendReady(c) /\ FinishSend(s, c)
    \/ /\ ~SendReady(c)
       /\ Moves(s, "waitSend", c, timed) /\ UNCHANGED <<q, woken>>

NothingLeft(c) == q[c] = <<>>        \* mutant: a cancelled channel is drained
GivesNothing(c) == cancelled[c] \/ q[c] = <<>>

\* receive from the end of its wait: a closed channel is drained, a cancelled one
\* gives nothing.
FinishReceive(r, c) ==
    \/ /\ GivesNothing(c)
       /\ Returns(r) /\ woken' = woken \ {r} /\ UNCHANGED q
    \/ /\ ~GivesNothing(c)
       /\ q' = [q EXCEPT ![c] = Tail(@)]
       /\ Returns(r) /\ woken' = (woken \cup Notified(c)) \ {r}

\* receive: raise, take at once, or wait for an item.
EnterReceive(r, c, timed) ==
    \/ RecvReady(c) /\ FinishReceive(r, c)
    \/ /\ ~RecvReady(c)
       /\ Moves(r, "waitRecv", c, timed) /\ UNCHANGED <<q, woken>>
-----------------------------------------------------------------------------
CanSend(s) == th[s].at = "idle" /\ calls[s] < MaxSends

ChannelSend(s, c, timed) == /\ CanSend(s) /\ EnterSend(s, c, timed)
                            /\ UNCHANGED <<closed, cancelled>>

\* try_send, first critical section: False, or go on to send(timeout=0).
TrySend(s, c) ==
    /\ CanSend(s)
    /\ \/ /\ closed[c] \/ Len(q[c]) >= Capacity
          /\ Returns(s)
       \/ /\ ~closed[c] /\ Len(q[c]) < Capacity
          /\ Moves(s, "trySend", c, TRUE)
    /\ UNCHANGED <<q, closed, cancelled, woken>>

\* mutant: try_send relies on its first test
TrySendUntested(s) == /\ th[s].at = "trySend" /\ FinishSend(s, th[s].ch)
                      /\ UNCHANGED <<closed, cancelled>>

TrySendGoesOn(s) == /\ th[s].at = "trySend" /\ EnterSend(s, th[s].ch, TRUE)
                    /\ UNCHANGED <<closed, cancelled>>

ChannelReceive(r, c, timed) == /\ th[r].at = "idle" /\ EnterReceive(r, c, timed)
                               /\ UNCHANGED <<closed, cancelled>>

\* try_receive, first critical section: False, or go on to receive(timeout=0).
TryReceive(r, c) ==
    /\ th[r].at = "idle"
    /\ IF q[c] = <<>> THEN Returns(r) ELSE Moves(r, "tryRecv", c, TRUE)
    /\ UNCHANGED <<q, closed, cancelled, woken>>

\* The second critical section of try_receive, and of select on a ready channel.
TryReceiveGoesOn(r) == /\ th[r].at = "tryRecv" /\ EnterReceive(r, th[r].ch, TRUE)
                       /\ UNCHANGED <<closed, cancelled>>

\* select with a timeout (timed) or without: it looks at the channels in order.
ChannelSelect(r, timed) == /\ th[r].at = "idle" /\ Moves(r, "select", 1, timed)
                           /\ UNCHANGED <<q, closed, cancelled, woken>>

MoreChannels(c) == c < NumChans

\* One peek: an item is there, or on to the next channel.
SelectPeek(r) ==
    LET c == th[r].ch
    IN  /\ th[r].at = "select"
        /\ IF q[c] # <<>> THEN Moves(r, "tryRecv", c, TRUE)
           ELSE IF MoreChannels(c) THEN Moves(r, "select", c + 1, th[r].timed)
           ELSE Moves(r, "selected", c, th[r].timed)
        /\ UNCHANGED <<q, closed, cancelled, woken>>

\* No peek found an item: raise if every channel is closed, else at the deadline
\* (at once without a timeout), else look again.
SelectGivesUp(r) ==
    /\ th[r].at = "selected"
    /\ IF \A c \in Chans : closed[c] THEN Returns(r)
       ELSE \/ Returns(r)
            \/ th[r].timed /\ Moves(r, "select", 1, TRUE)
    /\ UNCHANGED <<q, closed, cancelled, woken>>

\* A waiting thread has the lock again, notified or at its deadline: it tests its
\* predicate, and goes on, raises, or waits again.
Resume(t) ==
    /\ Waiting(t) /\ (t \in woken \/ th[t].timed)
    /\ \/ /\ Ready(t)
          /\ IF th[t].at = "waitSend" THEN FinishSend(t, th[t].ch)
                                      ELSE FinishReceive(t, th[t].ch)
       \/ /\ ~Ready(t) /\ th[t].timed
          /\ Returns(t) /\ woken' = woken \ {t} /\ UNCHANGED q
       \/ /\ ~Ready(t) /\ t \in woken
          /\ woken' = woken \ {t} /\ UNCHANGED <<q, th, calls>>
    /\ UNCHANGED <<closed, cancelled>>

ChannelClose(c) == /\ closed' = [closed EXCEPT ![c] = TRUE]
                   /\ woken' = woken \cup Notified(c)
                   /\ UNCHANGED <<q, cancelled, th, calls>>

ChannelCancel(c) == /\ closed' = [closed EXCEPT ![c] = TRUE]
                    /\ cancelled' = [cancelled EXCEPT ![c] = TRUE]
                    /\ woken' = woken \cup Notified(c)
                    /\ UNCHANGED <<q, th, calls>>
-----------------------------------------------------------------------------
SenderStep(s) ==
    \/ \E c \in Chans, timed \in BOOLEAN : ChannelSend(s, c, timed)
    \/ \E c \in Chans : TrySend(s, c)
    \/ TrySendGoesOn(s)

ReceiverStep(r) ==
    \/ \E c \in Chans, timed \in BOOLEAN : ChannelReceive(r, c, timed)
    \/ \E c \in Chans : TryReceive(r, c)
    \/ TryReceiveGoesOn(r)
    \/ \E timed \in BOOLEAN : ChannelSelect(r, timed)
    \/ SelectPeek(r)
    \/ SelectGivesUp(r)

ChannelNext == \/ \E s \in Senders : SenderStep(s)
               \/ \E r \in Receivers : ReceiverStep(r)
               \/ \E t \in Threads : Resume(t)
               \/ \E c \in Chans : ChannelClose(c) \/ ChannelCancel(c)

ChannelSpec == ChannelInit /\ [][ChannelNext]_channelVars

\* The threads the interpreter may run are eventually run: a notified one, one at its
\* deadline, and one between the two critical sections of a probe.
Fairness == /\ \A t \in Threads : WF_channelVars(Resume(t))
            /\ \A s \in Senders : WF_channelVars(TrySendGoesOn(s))
            /\ \A r \in Receivers : WF_channelVars(TryReceiveGoesOn(r))

FairChannelSpec == ChannelSpec /\ Fairness
-----------------------------------------------------------------------------
ChannelTypeOK == /\ q \in [Chans -> Seq(Items)]
                 /\ closed \in [Chans -> BOOLEAN]
                 /\ cancelled \in [Chans -> BOOLEAN]
                 /\ th \in [Threads -> ThreadState]
                 /\ woken \subseteq Threads
                 /\ calls \in [Senders -> Nat] /\ \A s \in Senders : calls[s] <= MaxSends

\* However sends, receives, probes and selects of several threads interleave between
\* the test and the transfer, no channel ever holds more than its capacity: send tests
\* again after every wait, and after try_send's own test.
CapacityKept == \A c \in Chans : Len(q[c]) <= Capacity

\* A thread left waiting without a pending notification has nothing to wake up for:
\* every change that makes its predicate true notifies it.
NoLostWakeup == \A t \in Threads : Waiting(t) /\ t \notin woken => ~Ready(t)

\* The threaded channels implement bounded FIFO queues.
Fifo == INSTANCE BoundedFifo

\* No item is lost, duplicated, overtaken, accepted after close or handed out after
\* cancel (the abstract specification BoundedFifo).
RefinesFifo == Fifo!FSpec

\* No thread is left waiting forever on a channel that stays ready for it, after
\* whatever sequence of sends, receives, timeouts, closes and cancellations.
ReadyIsServed == \A t \in Threads : []<>(~Waiting(t) \/ ~Ready(t))

\* "raises ChannelClosedError when every channel is closed and empty": a select that
\* gives up because its channels are closed leaves nothing in them.
DrainedMeansEmpty ==
    [][\A r \in Receivers :
          /\ th[r].at = "selected" /\ th'[r].at = "idle"
          /\ \A c \in Chans : closed[c]
          => \A c \in Chans : q[c] = <<>>]_channelVars
=============================================================================
