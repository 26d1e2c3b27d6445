----------------------------- MODULE BoundedFifo -----------------------------
(***************************************************************************)
(* What a fabric Channel promises, without threads, waits or timeouts:     *)
(* bounded first-in first-out queues.  A closed queue takes nothing more   *)
(* and can be drained; a cancelled one neither takes nor gives.            *)
(***************************************************************************)
EXTENDS Naturals, Sequences

CONSTANTS Chans, Items, Capacity

VARIABLES q, closed, cancelled

fvars == <<q, closed, cancelled>>

FInit == /\ q = [c \in Chans |-> <<>>]
         /\ closed = [c \in Chans |-> FALSE]
         /\ cancelled = [c \in Chans |-> FALSE]

Put(c, x) == /\ ~closed[c] /\ Len(q[c]) < Capacity
             /\ q' = [q EXCEPT ![c] = Append(@, x)]
             /\ UNCHANGED <<closed, cancelled>>

Take(c) == /\ ~cancelled[c] /\ q[c] # <<>>
           /\ q' = [q EXCEPT ![c] = Tail(@)]
           /\ UNCHANGED <<closed, cancelled>>

Close(c) == closed' = [closed EXCEPT ![c] = TRUE] /\ UNCHANGED <<q, cancelled>>

Cancel(c) == /\ closed' = [closed EXCEPT ![c] = TRUE]
             /\ cancelled' = [cancelled EXCEPT ![c] = TRUE]
             /\ UNCHANGED q

FNext == \E c \in Chans : \/ \E x \in Items : Put(c, x)
                          \/ Take(c) \/ Close(c) \/ Cancel(c)

FSpec == FInit /\ [][FNext]_fvars
=============================================================================
