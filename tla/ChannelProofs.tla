---------------------------- MODULE ChannelProofs ----------------------------
(***************************************************************************)
(* Proofs about Channel, for any threads, any number of channels and any   *)
(* capacity: the type invariant, the capacity, no lost wake-up, and that   *)
(* the threaded channels implement BoundedFifo.                            *)
(***************************************************************************)
EXTENDS Channel, TLAPS

\* Only a sender waits in send or stands between the halves of try_send, and then it
\* has an item left to send; only a receiver waits in receive, probes or selects.
Placed ==
    /\ \A t \in Threads : th[t].at \in {"waitSend", "trySend"} =>
                              t \in Senders /\ calls[t] < MaxSends
    /\ \A t \in Threads : th[t].at \in {"waitRecv", "tryRecv", "select", "selected"} =>
                              t \in Receivers

\* The inductive invariant.
IInv == ChannelTypeOK /\ Placed /\ CapacityKept /\ NoLostWakeup

USE ChannelAssumption
-----------------------------------------------------------------------------
\* The next item of a sender that has sends left is one of the items.
LEMMA ItemIsItem ==
    ASSUME ChannelTypeOK, NEW s \in Senders, calls[s] < MaxSends
    PROVE  Item(s) \in Items
<1>1. calls[s] + 1 \in 1..MaxSends
  BY DEF ChannelTypeOK
<1> QED
  BY <1>1 DEF Item, Items

\* A thread that returns, with the calls of the others and every queue as they were.
LEMMA ReturnTypes ==
    ASSUME ChannelTypeOK, Placed, NEW t \in Threads, Returns(t),
           t \in Senders => calls[t] < MaxSends
    PROVE  /\ th' \in [Threads -> ThreadState] /\ th'[t].at = "idle"
           /\ \A u \in Threads \ {t} : th'[u] = th[u]
           /\ calls' \in [Senders -> Nat] /\ \A s \in Senders : calls'[s] <= MaxSends
           /\ \A s \in Senders \ {t} : calls'[s] = calls[s]
           /\ Placed'
<1>1. AtRest \in ThreadState /\ AtRest.at = "idle"
  BY DEF AtRest, At, ThreadState, Places, Chans
<1>2. /\ th' \in [Threads -> ThreadState] /\ th'[t].at = "idle"
      /\ \A u \in Threads \ {t} : th'[u] = th[u]
  BY <1>1 DEF Returns, ChannelTypeOK
<1>3. /\ calls' \in [Senders -> Nat] /\ \A s \in Senders : calls'[s] <= MaxSends
      /\ \A s \in Senders \ {t} : calls'[s] = calls[s]
  BY DEF Returns, ChannelTypeOK
<1>4. Placed'
  BY <1>2, <1>3 DEF Placed, ChannelTypeOK, ThreadState, Places, Threads
<1> QED
  BY <1>2, <1>3, <1>4
-----------------------------------------------------------------------------
\* A thread that goes to another place: it waits only if it is not ready.
LEMMA MoveKeeps ==
    ASSUME IInv, NEW t \in Threads, NEW place \in Places, NEW c \in Chans,
           NEW timed \in BOOLEAN, Moves(t, place, c, timed),
           UNCHANGED <<q, closed, cancelled, woken>>,
           place \in {"waitSend", "trySend"} => t \in Senders /\ calls[t] < MaxSends,
           place \in {"waitRecv", "tryRecv", "select", "selected"} => t \in Receivers,
           place = "waitSend" => ~SendReady(c),
           place = "waitRecv" => ~RecvReady(c)
    PROVE  IInv'
<1>1. At(place, c, timed) \in ThreadState
  BY DEF At, ThreadState
<1>2. /\ th' \in [Threads -> ThreadState]
      /\ th'[t] = At(place, c, timed)
      /\ \A u \in Threads \ {t} : th'[u] = th[u]
  BY <1>1 DEF Moves, IInv, ChannelTypeOK
<1>3. At(place, c, timed).at = place /\ At(place, c, timed).ch = c
  BY DEF At
<1>4. ChannelTypeOK' /\ CapacityKept'
  BY <1>2 DEF IInv, ChannelTypeOK, CapacityKept, Moves
<1>5. Placed'
  BY <1>2, <1>3 DEF IInv, Placed, Moves
<1>6. NoLostWakeup'
  BY <1>2, <1>3 DEF IInv, NoLostWakeup, Waiting, Ready, SendReady, RecvReady
<1> QED
  BY <1>4, <1>5, <1>6 DEF IInv

\* A thread that returns and leaves the queues alone.
LEMMA ReturnKeeps ==
    ASSUME IInv, NEW t \in Threads, Returns(t),
           woken' = woken \ {t} \/ UNCHANGED woken,
           UNCHANGED <<q, closed, cancelled>>,
           t \in Senders => calls[t] < MaxSends
    PROVE  IInv'
<1>1. /\ th' \in [Threads -> ThreadState] /\ th'[t].at = "idle"
      /\ \A u \in Threads \ {t} : th'[u] = th[u]
      /\ calls' \in [Senders -> Nat] /\ \A s \in Senders : calls'[s] <= MaxSends
      /\ Placed'
  BY ReturnTypes DEF IInv
<1>2. ChannelTypeOK' /\ CapacityKept'
  BY <1>1 DEF IInv, ChannelTypeOK, CapacityKept
<1>3. NoLostWakeup'
  BY <1>1 DEF IInv, NoLostWakeup, Waiting, Ready, SendReady, RecvReady
<1> QED
  BY <1>1, <1>2, <1>3 DEF IInv

\* A thread that changes queue c notifies every thread waiting on c.
LEMMA TransferWakes ==
    ASSUME IInv, NEW t \in Threads, NEW c \in Chans, Returns(t),
           t \in Senders => calls[t] < MaxSends,
           woken' = (woken \cup Notified(c)) \ {t},
           UNCHANGED <<closed, cancelled>>,
           \A d \in Chans \ {c} : q'[d] = q[d]
    PROVE  woken' \subseteq Threads /\ NoLostWakeup'
<1>1. th'[t].at = "idle" /\ \A u \in Threads \ {t} : th'[u] = th[u]
  BY ReturnTypes DEF IInv
<1>2. woken' \subseteq Threads
  BY DEF IInv, ChannelTypeOK, Notified, WaitersOn
<1>3. ASSUME NEW u \in Threads, Waiting(u)', u \notin woken'
      PROVE  ~Ready(u)'
  <2>1. u # t /\ th'[u] = th[u] /\ Waiting(u)
    BY <1>1, <1>3 DEF Waiting
  <2>2. u \notin woken /\ th[u].ch \in Chans \ {c}
    BY <1>3, <2>1 DEF IInv, ChannelTypeOK, ThreadState, Notified, WaitersOn
  <2>3. ~Ready(u)
    BY <2>1, <2>2 DEF IInv, NoLostWakeup
  <2> QED
    BY <2>1, <2>2, <2>3 DEF Ready, SendReady, RecvReady
<1> QED
  BY <1>2, <1>3 DEF NoLostWakeup

\* The end of send, once there is room or the channel is closed.
LEMMA FinishSendKeeps ==
    ASSUME IInv, NEW s \in Senders, NEW c \in Chans, calls[s] < MaxSends,
           SendReady(c), FinishSend(s, c), UNCHANGED <<closed, cancelled>>
    PROVE  IInv' /\ [Fifo!FNext]_<<q, closed, cancelled>>
<1> s \in Threads
  BY DEF Threads
<1>1. CASE closed[c] /\ Returns(s) /\ woken' = woken \ {s} /\ UNCHANGED q
  BY <1>1, ReturnKeeps
<1>2. CASE /\ ~closed[c] /\ q' = [q EXCEPT ![c] = Append(@, Item(s))]
           /\ Returns(s) /\ woken' = (woken \cup Notified(c)) \ {s}
  <2>1. /\ q \in [Chans -> Seq(Items)] /\ Item(s) \in Items
        /\ Len(q[c]) \in Nat /\ Len(q[c]) < Capacity
    BY <1>2, ItemIsItem DEF IInv, ChannelTypeOK, SendReady
  <2>2. /\ q' \in [Chans -> Seq(Items)] /\ Len(q'[c]) = Len(q[c]) + 1
        /\ \A d \in Chans \ {c} : q'[d] = q[d]
    BY <1>2, <2>1
  <2>3. CapacityKept'
    <3>1. Len(q'[c]) <= Capacity
      BY <2>1, <2>2
    <3>2. \A d \in Chans \ {c} : Len(q'[d]) <= Capacity
      BY <2>2 DEF IInv, CapacityKept
    <3> QED
      BY <3>1, <3>2 DEF CapacityKept
  <2>4. woken' \subseteq Threads /\ NoLostWakeup'
    BY <1>2, <2>2, TransferWakes
  <2>5. ChannelTypeOK' /\ Placed'
    BY <1>2, <2>2, <2>4, ReturnTypes DEF IInv, ChannelTypeOK
  <2>6. Fifo!Put(c, Item(s))
    BY <1>2, <2>1 DEF Fifo!Put
  <2> QED
    BY <2>1, <2>3, <2>4, <2>5, <2>6 DEF IInv, Fifo!FNext
<1> QED
  BY <1>1, <1>2 DEF FinishSend

\* The end of receive, once there is an item or the channel is closed.
LEMMA FinishReceiveKeeps ==
    ASSUME IInv, NEW r \in Receivers, NEW c \in Chans,
           FinishReceive(r, c), UNCHANGED <<closed, cancelled>>
    PROVE  IInv' /\ [Fifo!FNext]_<<q, closed, cancelled>>
<1> r \in Threads /\ r \notin Senders
  BY DEF Threads
<1>1. CASE GivesNothing(c) /\ Returns(r) /\ woken' = woken \ {r} /\ UNCHANGED q
  BY <1>1, ReturnKeeps
<1>2. CASE /\ ~GivesNothing(c) /\ q' = [q EXCEPT ![c] = Tail(@)]
           /\ Returns(r) /\ woken' = (woken \cup Notified(c)) \ {r}
  <2>1. q \in [Chans -> Seq(Items)] /\ q[c] # <<>> /\ ~cancelled[c]
    BY <1>2 DEF IInv, ChannelTypeOK, GivesNothing
  <2>2. /\ q' \in [Chans -> Seq(Items)] /\ Len(q'[c]) < Len(q[c])
        /\ \A d \in Chans \ {c} : q'[d] = q[d]
    BY <1>2, <2>1
  <2>3. CapacityKept'
    BY <2>1, <2>2 DEF IInv, CapacityKept
  <2>4. woken' \subseteq Threads /\ NoLostWakeup'
    BY <1>2, <2>2, TransferWakes
  <2>5. ChannelTypeOK' /\ Placed'
    BY <1>2, <2>2, <2>4, ReturnTypes DEF IInv, ChannelTypeOK
  <2>6. Fifo!Take(c)
    BY <1>2, <2>1 DEF Fifo!Take
  <2> QED
    BY <2>3, <2>4, <2>5, <2>6 DEF IInv, Fifo!FNext
<1> QED
  BY <1>1, <1>2 DEF FinishReceive
-----------------------------------------------------------------------------
\* The steps that leave every channel's closed and cancelled flags alone.
LEMMA EnterSendKeeps ==
    ASSUME IInv, NEW s \in Senders, NEW c \in Chans, NEW timed \in BOOLEAN,
           calls[s] < MaxSends, EnterSend(s, c, timed), UNCHANGED <<closed, cancelled>>
    PROVE  IInv' /\ [Fifo!FNext]_<<q, closed, cancelled>>
<1> s \in Threads
  BY DEF Threads
<1>1. CASE SendReady(c) /\ FinishSend(s, c)
  BY <1>1, FinishSendKeeps
<1>2. CASE /\ ~SendReady(c) /\ Moves(s, "waitSend", c, timed)
           /\ UNCHANGED <<q, woken>>
  <2>1. "waitSend" \in Places
    BY DEF Places
  <2> QED
    BY <1>2, <2>1, MoveKeeps
<1> QED
  BY <1>1, <1>2 DEF EnterSend

LEMMA EnterReceiveKeeps ==
    ASSUME IInv, NEW r \in Receivers, NEW c \in Chans, NEW timed \in BOOLEAN,
           EnterReceive(r, c, timed), UNCHANGED <<closed, cancelled>>
    PROVE  IInv' /\ [Fifo!FNext]_<<q, closed, cancelled>>
<1> r \in Threads
  BY DEF Threads
<1>1. CASE RecvReady(c) /\ FinishReceive(r, c)
  BY <1>1, FinishReceiveKeeps
<1>2. CASE /\ ~RecvReady(c) /\ Moves(r, "waitRecv", c, timed)
           /\ UNCHANGED <<q, woken>>
  <2>1. "waitRecv" \in Places
    BY DEF Places
  <2> QED
    BY <1>2, <2>1, MoveKeeps
<1> QED
  BY <1>1, <1>2 DEF EnterReceive

LEMMA SenderStepKeeps ==
    ASSUME IInv, NEW s \in Senders, SenderStep(s)
    PROVE  IInv' /\ [Fifo!FNext]_<<q, closed, cancelled>>
<1> s \in Threads
  BY DEF Threads
<1>1. CASE \E c \in Chans, timed \in BOOLEAN : ChannelSend(s, c, timed)
  BY <1>1, EnterSendKeeps DEF ChannelSend, CanSend
<1>2. ASSUME NEW c \in Chans, TrySend(s, c)
      PROVE  IInv' /\ [Fifo!FNext]_<<q, closed, cancelled>>
  <2>1. UNCHANGED <<q, closed, cancelled, woken>> /\ calls[s] < MaxSends
    BY <1>2 DEF TrySend, CanSend
  <2>2. CASE Returns(s)
    BY <2>1, <2>2, ReturnKeeps
  <2>3. CASE Moves(s, "trySend", c, TRUE)
    <3>1. "trySend" \in Places
      BY DEF Places
    <3> QED
      BY <2>1, <2>3, <3>1, MoveKeeps
  <2> QED
    BY <1>2, <2>2, <2>3 DEF TrySend
<1>3. CASE TrySendGoesOn(s)
  <2>1. th[s].ch \in Chans /\ calls[s] < MaxSends
    BY <1>3 DEF TrySendGoesOn, IInv, ChannelTypeOK, ThreadState, Placed
  <2> QED
    BY <1>3, <2>1, EnterSendKeeps DEF TrySendGoesOn
<1> QED
  BY <1>1, <1>2, <1>3 DEF SenderStep

LEMMA ReceiverStepKeeps ==
    ASSUME IInv, NEW r \in Receivers, ReceiverStep(r)
    PROVE  IInv' /\ [Fifo!FNext]_<<q, closed, cancelled>>
<1> r \in Threads /\ r \notin Senders
  BY DEF Threads
<1> {"tryRecv", "select", "selected"} \subseteq Places
  BY DEF Places
<1>1. th[r].ch \in Chans /\ th[r].timed \in BOOLEAN
  BY DEF IInv, ChannelTypeOK, ThreadState
<1>2. CASE \E c \in Chans, timed \in BOOLEAN : ChannelReceive(r, c, timed)
  BY <1>2, EnterReceiveKeeps DEF ChannelReceive
<1>3. CASE \E c \in Chans : TryReceive(r, c)
  BY <1>3, ReturnKeeps, MoveKeeps DEF TryReceive
<1>4. CASE TryReceiveGoesOn(r)
  BY <1>1, <1>4, EnterReceiveKeeps DEF TryReceiveGoesOn
<1>5. CASE \E timed \in BOOLEAN : ChannelSelect(r, timed)
  <2>1. 1 \in Chans
    BY DEF Chans
  <2> QED
    BY <1>5, <2>1, MoveKeeps DEF ChannelSelect
<1>6. CASE SelectPeek(r)
  <2>1. MoreChannels(th[r].ch) => th[r].ch + 1 \in Chans
    BY <1>1 DEF Chans, MoreChannels
  <2> QED
    BY <1>1, <1>6, <2>1, MoveKeeps DEF SelectPeek
<1>7. CASE SelectGivesUp(r)
  <2>1. 1 \in Chans
    BY DEF Chans
  <2> QED
    BY <1>7, <2>1, ReturnKeeps, MoveKeeps DEF SelectGivesUp
<1> QED
  BY <1>2, <1>3, <1>4, <1>5, <1>6, <1>7 DEF ReceiverStep

LEMMA ResumeKeeps ==
    ASSUME IInv, NEW t \in Threads, Resume(t)
    PROVE  IInv' /\ [Fifo!FNext]_<<q, closed, cancelled>>
<1>1. /\ Waiting(t) /\ th[t].ch \in Chans /\ UNCHANGED <<closed, cancelled>>
      /\ th[t].at = "waitSend" => t \in Senders /\ calls[t] < MaxSends
      /\ th[t].at = "waitRecv" => t \in Receivers /\ t \notin Senders
  BY DEF Resume, IInv, ChannelTypeOK, ThreadState, Placed
<1>2. CASE Ready(t) /\ th[t].at = "waitSend" /\ FinishSend(t, th[t].ch)
  BY <1>1, <1>2, FinishSendKeeps DEF Ready
<1>3. CASE th[t].at = "waitRecv" /\ FinishReceive(t, th[t].ch)
  BY <1>1, <1>3, FinishReceiveKeeps
<1>4. CASE Returns(t) /\ woken' = woken \ {t} /\ UNCHANGED q
  <2>1. t \in Senders => calls[t] < MaxSends
    BY <1>1 DEF Waiting
  <2> QED
    BY <1>1, <1>4, <2>1, ReturnKeeps
<1>5. CASE ~Ready(t) /\ woken' = woken \ {t} /\ UNCHANGED <<q, th, calls>>
  BY <1>1, <1>5 DEF IInv, ChannelTypeOK, Placed, CapacityKept, NoLostWakeup,
                    Waiting, Ready, SendReady, RecvReady
<1> QED
  BY <1>1, <1>2, <1>3, <1>4, <1>5 DEF Resume, Waiting

\* Closing or cancelling a channel notifies every thread waiting on it.
LEMMA CloseKeeps ==
    ASSUME IInv, NEW c \in Chans, ChannelClose(c) \/ ChannelCancel(c)
    PROVE  IInv' /\ [Fifo!FNext]_<<q, closed, cancelled>>
<1>1. /\ UNCHANGED <<q, th, calls>> /\ woken' = woken \cup Notified(c)
      /\ closed' = [closed EXCEPT ![c] = TRUE]
      /\ cancelled' = cancelled \/ cancelled' = [cancelled EXCEPT ![c] = TRUE]
  BY DEF ChannelClose, ChannelCancel
<1>2. ChannelTypeOK' /\ Placed' /\ CapacityKept'
  BY <1>1 DEF IInv, ChannelTypeOK, Placed, CapacityKept, Notified, WaitersOn
<1>3. NoLostWakeup'
  BY <1>1 DEF IInv, ChannelTypeOK, ThreadState, NoLostWakeup, Waiting, Ready, SendReady, RecvReady,
              Notified, WaitersOn
<1>4. Fifo!FNext
  BY DEF ChannelClose, ChannelCancel, Fifo!FNext, Fifo!Close, Fifo!Cancel
<1> QED
  BY <1>2, <1>3, <1>4 DEF IInv

\* Every step keeps the inductive invariant and is a step of BoundedFifo or changes
\* none of its variables.
LEMMA NextKeeps == IInv /\ [ChannelNext]_channelVars => IInv' /\ [Fifo!FNext]_<<q, closed, cancelled>>
<1> SUFFICES ASSUME IInv, [ChannelNext]_channelVars
             PROVE  IInv' /\ [Fifo!FNext]_<<q, closed, cancelled>>
  OBVIOUS
<1>1. CASE \E s \in Senders : SenderStep(s)
  BY <1>1, SenderStepKeeps
<1>2. CASE \E r \in Receivers : ReceiverStep(r)
  BY <1>2, ReceiverStepKeeps
<1>3. CASE \E t \in Threads : Resume(t)
  BY <1>3, ResumeKeeps
<1>4. CASE \E c \in Chans : ChannelClose(c) \/ ChannelCancel(c)
  BY <1>4, CloseKeeps
<1>5. CASE UNCHANGED channelVars
  BY <1>5 DEF channelVars, IInv, ChannelTypeOK, Placed, CapacityKept, NoLostWakeup,
              Waiting, Ready, SendReady, RecvReady
<1> QED
  BY <1>1, <1>2, <1>3, <1>4, <1>5 DEF ChannelNext

LEMMA InitHolds == ChannelInit => IInv /\ Fifo!FInit
<1> SUFFICES ASSUME ChannelInit PROVE IInv /\ Fifo!FInit
  OBVIOUS
<1>1. AtRest \in ThreadState /\ AtRest.at = "idle"
  BY DEF AtRest, At, ThreadState, Places, Chans
<1>2. ChannelTypeOK /\ CapacityKept
  BY <1>1 DEF ChannelInit, ChannelTypeOK, CapacityKept
<1>3. Placed /\ NoLostWakeup
  BY <1>1 DEF ChannelInit, Placed, NoLostWakeup, Waiting
<1> QED
  BY <1>2, <1>3 DEF IInv, ChannelInit, Fifo!FInit
-----------------------------------------------------------------------------
\* The inductive invariant holds of every run of the channels.
THEOREM Invariance == ChannelSpec => []IInv
<1>1. ChannelInit => IInv
  BY InitHolds
<1>2. IInv /\ [ChannelNext]_channelVars => IInv'
  BY NextKeeps
<1> QED
  BY <1>1, <1>2, PTL DEF ChannelSpec

\* Every variable keeps its type, for any threads, channels and capacity.
THEOREM TypeCorrect == ChannelSpec => []ChannelTypeOK
<1>1. IInv => ChannelTypeOK
  BY DEF IInv
<1> QED
  BY <1>1, Invariance, PTL

\* No interleaving of sends, probes and wake-ups overfills a channel.
THEOREM CapacityHolds == ChannelSpec => []CapacityKept
<1>1. IInv => CapacityKept
  BY DEF IInv
<1> QED
  BY <1>1, Invariance, PTL

\* No thread waits, un-notified, for something that has already happened.
THEOREM WakeupsKept == ChannelSpec => []NoLostWakeup
<1>1. IInv => NoLostWakeup
  BY DEF IInv
<1> QED
  BY <1>1, Invariance, PTL

\* The threaded channels implement the bounded FIFO queues of BoundedFifo.
THEOREM ImplementsFifo == ChannelSpec => RefinesFifo
<1>1. ChannelInit => Fifo!FInit
  BY InitHolds
<1>2. IInv /\ [ChannelNext]_channelVars => [Fifo!FNext]_(Fifo!fvars)
  BY NextKeeps DEF Fifo!fvars
<1> QED
  BY <1>1, <1>2, Invariance, PTL DEF ChannelSpec, RefinesFifo, Fifo!FSpec
=============================================================================
