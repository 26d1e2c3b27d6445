-------------------------- MODULE ClassicalFeedback --------------------------
(***************************************************************************)
(* The classical feedback fabric (protocols.py, ClassicalFeedbackFabric):  *)
(* messages with a latency, a timeout and explicit retries, the            *)
(* happens-before edges between them, and the gate that a remote           *)
(* correction passes when its message is delivered.  Times are whole       *)
(* numbers; node names, payloads and the event log are left out.           *)
(***************************************************************************)
EXTENDS Naturals, Sequences, FiniteSets

CONSTANTS Latencies,    \* the latencies a message may have
          Timeout,      \* the longest flight
          MaxRetries,   \* max_retries
          MaxMessages,  \* bound on the messages sent and re-sent
          MaxSendTime,  \* bound on the send times a client asks for
          MaxAdded      \* bound on the edges a client adds

ASSUME FeedbackAssumption == /\ Latencies \subseteq Nat
                             /\ Timeout \in Nat \ {0}
                             /\ MaxRetries \in Nat
                             /\ MaxMessages \in Nat
                             /\ MaxSendTime \in Nat /\ MaxAdded \in Nat

VARIABLES clock,        \* the fabric's clock
          messages,     \* the messages in the order they were created
          causalEdges,        \* happens_before
          added         \* history: the edges of add_happens_before

feedbackVars == <<clock, messages, causalEdges, added>>
-----------------------------------------------------------------------------
MessageIds == 1..Len(messages)

\* of: the message this one re-sends, 0 for none.   delivered: deliver_time is set.
States  == {"SENT", "DELIVERED", "TIMED_OUT", "DROPPED"}
Message == [state : States, sendTime : Nat, latency : Latencies, attempts : Nat,
            dependsOn : SUBSET (1..MaxMessages), of : 0..MaxMessages,
            delivered : BOOLEAN, deliverTime : Nat]

Later(a, b) == IF a >= b THEN a ELSE b
Arrival(m) == messages[m].sendTime + messages[m].latency

Sent(at, latency, attempts, deps, of) ==
    [state |-> "SENT", sendTime |-> at, latency |-> latency, attempts |-> attempts,
     dependsOn |-> deps, of |-> of, delivered |-> FALSE, deliverTime |-> 0]

SetState(m, s) == messages' = [messages EXCEPT ![m].state = s]
-----------------------------------------------------------------------------
FeedbackInit == /\ clock = 0
                /\ messages = <<>>
                /\ causalEdges = {}
                /\ added = {}

\* mutant: a dependency only has to be known
AlwaysMet(deps) == TRUE

\* Every message the new one depends on is DELIVERED now.
DependenciesMet(deps) == \A d \in deps : messages[d].state = "DELIVERED"

AnyTime(at) == TRUE          \* mutant: a send time before the clock is accepted
NotInThePast(at) == at >= clock

\* send: at the clock's time or later.
Send(deps, latency, at) ==
    /\ Len(messages) < MaxMessages
    /\ DependenciesMet(deps) /\ NotInThePast(at)
    /\ messages' = Append(messages, Sent(at, latency, 1, deps, 0))
    /\ causalEdges' = causalEdges \cup {<<d, Len(messages) + 1>> : d \in deps}
    /\ UNCHANGED <<clock, added>>

Receivable(m) == messages[m].state = "SENT"

\* receive: a flight longer than the timeout is given up, any other is delivered, and
\* the clock moves to when that happens.
TimesOut(m) ==
    /\ Receivable(m) /\ messages[m].latency > Timeout
    /\ SetState(m, "TIMED_OUT")
    /\ clock' = Later(clock, messages[m].sendTime + Timeout)
    /\ UNCHANGED <<causalEdges, added>>

DeliveryTime(m) == Later(clock, Arrival(m))

Deliver(m) ==
    /\ Receivable(m) /\ messages[m].latency <= Timeout
    /\ clock' = DeliveryTime(m)
    /\ messages' = [messages EXCEPT ![m].state = "DELIVERED", ![m].delivered = TRUE,
                                    ![m].deliverTime = DeliveryTime(m)]
    /\ UNCHANGED <<causalEdges, added>>

MayRetry(m) == messages[m].state = "TIMED_OUT"

OneMore(m) == messages[m].attempts > MaxRetries + 1     \* mutant: off by one

\* retry: the budget is counted along a chain of re-sends.
Exhausted(m) == messages[m].attempts > MaxRetries

Retry(m, latency) ==
    /\ MayRetry(m) /\ ~Exhausted(m) /\ Len(messages) < MaxMessages
    /\ messages' = Append(messages, Sent(clock, latency, messages[m].attempts + 1,
                                         messages[m].dependsOn, m))
    /\ causalEdges' = causalEdges \cup {<<m, Len(messages) + 1>>}
    /\ UNCHANGED <<clock, added>>

RetryGivesUp(m) == /\ MayRetry(m) /\ Exhausted(m)
                   /\ SetState(m, "DROPPED")
                   /\ UNCHANGED <<clock, causalEdges, added>>

\* drop: in any state, DELIVERED too.
Drop(m) == /\ SetState(m, "DROPPED")
           /\ UNCHANGED <<clock, causalEdges, added>>

\* add_happens_before: any two known messages.
AddHappensBefore(a, b) ==
    /\ a # b /\ Cardinality(added) < MaxAdded
    /\ causalEdges' = causalEdges \cup {<<a, b>>} /\ added' = added \cup {<<a, b>>}
    /\ UNCHANGED <<clock, messages>>

\* assert_ready lets the correction that waits for m run.
IsReady(m) == messages[m].state = "DELIVERED"

\* check_acyclic: no set of messages in which each has a successor.
CheckAcyclic == \A S \in (SUBSET MessageIds) \ {{}} :
                    \E a \in S : \A b \in S : <<a, b>> \notin causalEdges
-----------------------------------------------------------------------------
FeedbackNext == \/ \E deps \in SUBSET MessageIds, latency \in Latencies, at \in 0..MaxSendTime :
                       Send(deps, latency, at)
                \/ \E m \in MessageIds : \/ TimesOut(m) \/ Deliver(m) \/ RetryGivesUp(m) \/ Drop(m)
                                         \/ \E latency \in Latencies : Retry(m, latency)
                \/ \E a, b \in MessageIds : AddHappensBefore(a, b)

FeedbackSpec == FeedbackInit /\ [][FeedbackNext]_feedbackVars
-----------------------------------------------------------------------------
\* Messages and edges hold what the code puts there; the clock has reached every event.
TypeOK == /\ clock \in Nat
          /\ messages \in Seq(Message) /\ Len(messages) <= MaxMessages
          /\ causalEdges \subseteq MessageIds \X MessageIds /\ added \subseteq causalEdges
          /\ \A m \in MessageIds : messages[m].delivered => messages[m].deliverTime <= clock

\* A correction never runs ahead of a classical bit: when assert_ready lets m's correction
\* through, m has arrived within the timeout, and everything m depends on, re-sent or not,
\* had been delivered before m was sent, whatever the order of the receive calls. The edges
\* of send and retry follow time and creation, so that check_acyclic can fail only because
\* of an edge that add_happens_before put the other way.
ReadyIsCausal ==
    /\ \A m \in MessageIds : IsReady(m) =>
          /\ messages[m].deliverTime >= Arrival(m) /\ messages[m].latency <= Timeout
          /\ \A d \in messages[m].dependsOn : /\ messages[d].delivered
                                             /\ messages[d].deliverTime <= messages[m].sendTime
    /\ \A e \in causalEdges \ added :
          e[1] < e[2] /\ messages[e[1]].sendTime <= messages[e[2]].sendTime
    /\ CheckAcyclic \/ \E e \in added : e[1] > e[2]

\* A message and the one that re-sends it are never in flight together, and a chain of
\* re-sends is no longer than max_retries allows (retry, receive).
RetriesFollow ==
    \A m \in MessageIds : /\ messages[m].attempts <= MaxRetries + 1
                          /\ LET o == messages[m].of
                             IN  o # 0 => /\ messages[m].attempts = messages[o].attempts + 1
                                          /\ ~messages[o].delivered
                                          /\ messages[m].sendTime >= messages[o].sendTime + Timeout

\* Corrections follow their bits, and re-sends follow what they replace (send,
\* receive, retry, assert_ready).
DeliveryIsCausal == ReadyIsCausal /\ RetriesFollow
=============================================================================
