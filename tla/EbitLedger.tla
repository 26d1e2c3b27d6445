------------------------------ MODULE EbitLedger ------------------------------
(***************************************************************************)
(* The entanglement inventory of protocols.py (EbitLedger) and the three   *)
(* protocols that use it up: teleport, remote_cnot, entanglement_swap.     *)
(*                                                                         *)
(* A call that raises without changing the ledger is no step.  The epoch   *)
(* of a call is whatever its caller says: nothing makes it advance.  The   *)
(* simulated circuits always pass their own checks, so a protocol differs  *)
(* from another by the ebits it takes; owners and notes are left out.      *)
(***************************************************************************)
EXTENDS Naturals, Sequences, FiniteSets

CONSTANTS Nodes,       \* where the halves of a pair live
          MaxEpoch,    \* bound on epochs and expiries
          MaxFid,      \* fidelities 0..MaxFid stand for [0,1]
          MaxRequests, \* bound on the pairs requested of the link layer
          MaxEbits     \* bound on the records

ASSUME LedgerAssumption ==
    /\ IsFiniteSet(Nodes)
    /\ MaxEpoch \in Nat /\ MaxFid \in Nat /\ MaxRequests \in Nat /\ MaxEbits \in Nat

VARIABLES records,     \* the ebits in creation order
          uses,        \* history: how many protocol runs consumed each ebit
          origin       \* the provenance of each ebit: what it was swapped from

lvars == <<records, uses, origin>>
-----------------------------------------------------------------------------
States  == {"REQUESTED", "GENERATING", "HERALDED", "RESERVED",
            "CONSUMED", "EXPIRED", "FAILED", "RELEASED"}
Usable  == {"HERALDED", "RESERVED"}
Epochs  == 0..MaxEpoch
Fids    == 0..MaxFid

EBIT_TRANSITIONS ==
    [s \in States |->
        CASE s = "REQUESTED"  -> {"GENERATING", "FAILED", "EXPIRED"}
          [] s = "GENERATING" -> {"HERALDED", "FAILED", "EXPIRED"}
          [] s = "HERALDED"   -> {"RESERVED", "CONSUMED", "RELEASED", "EXPIRED"}
          [] s = "RESERVED"   -> {"CONSUMED", "RELEASED", "EXPIRED"}
          [] OTHER            -> {}]

Terminal == {s \in States : EBIT_TRANSITIONS[s] = {}}

Ebit == [ends : {p \in SUBSET Nodes : Cardinality(p) = 2}, expiry : Epochs,
         fidelity : Fids, state : States]

Ids == 1..Len(records)

\* A pair's origin: the link layer, or two ebits and the fidelity they gave it.
Link == [from |-> {}, fidelity |-> 0]

Live(e, epoch) == epoch <= records[e].expiry

WeakerOf(x, y) == IF x <= y THEN x ELSE y
-----------------------------------------------------------------------------
Init == records = <<>> /\ uses = <<>> /\ origin = <<>>

\* _transition of one record to a state the table admits.
Transition(e, new) ==
    /\ new \in EBIT_TRANSITIONS[records[e].state]
    /\ records' = [records EXCEPT ![e].state = new]
    /\ UNCHANGED <<uses, origin>>

Request(a, b, epoch, expiry, fidelity) ==
    /\ a # b /\ expiry >= epoch
    /\ Len(records) < MaxEbits /\ Cardinality({e \in Ids : origin[e] = Link}) < MaxRequests
    /\ records' = Append(records, [ends |-> {a, b}, expiry |-> expiry,
                                   fidelity |-> fidelity, state |-> "REQUESTED"])
    /\ uses' = Append(uses, 0) /\ origin' = Append(origin, Link)

Generate(e) == Transition(e, "GENERATING")
Herald(e)   == Transition(e, "HERALDED")

\* herald with a measured fidelity: it is stored before the transition is tested, so
\* that a herald that is refused leaves it behind.
HeraldMeasured(e, fidelity) ==
    /\ records' = [records EXCEPT
           ![e].fidelity = fidelity,
           ![e].state = IF "HERALDED" \in EBIT_TRANSITIONS[@] THEN "HERALDED" ELSE @]
    /\ UNCHANGED <<uses, origin>>

Reserve(e, epoch) == /\ records[e].state = "HERALDED" /\ Live(e, epoch)
                     /\ Transition(e, "RESERVED")

Release(e)   == Transition(e, "RELEASED")
Fail(e)      == Transition(e, "FAILED")
ExpireOne(e) == Transition(e, "EXPIRED")

\* expire without an id: every record past its expiry that is not terminal.
ExpireAll(epoch) ==
    /\ records' = [e \in Ids |->
           IF ~Live(e, epoch) /\ records[e].state \notin Terminal
           THEN [records[e] EXCEPT !.state = "EXPIRED"] ELSE records[e]]
    /\ UNCHANGED <<uses, origin>>

Consumable(e, epoch) == records[e].state \in Usable /\ Live(e, epoch)

HeldReservation(r) ==       \* mutant: a reservation outlives its use
    IF r.state = "RESERVED" THEN r ELSE [r EXCEPT !.state = "CONSUMED"]

Consumed(r) == [r EXCEPT !.state = "CONSUMED"]

\* consume, called directly or by a protocol that takes the ebits in set es.
ConsumeEach(es) == /\ records' = [e \in Ids |-> IF e \in es THEN Consumed(records[e])
                                                           ELSE records[e]]
                   /\ uses' = [e \in Ids |-> IF e \in es THEN uses[e] + 1 ELSE uses[e]]
                   /\ UNCHANGED origin

Consume(e, epoch)    == Consumable(e, epoch) /\ ConsumeEach({e})
Teleport(e, epoch)   == Consumable(e, epoch) /\ ConsumeEach({e})
RemoteCnot(e, epoch) == Consumable(e, epoch) /\ ConsumeEach({e})
-----------------------------------------------------------------------------
(* entanglement_swap                                                       *)

\* Two usable pairs that share exactly the middle node.
Swappable(x, y) == /\ records[x].state \in Usable /\ records[y].state \in Usable
                   /\ Cardinality(records[x].ends \cap records[y].ends) = 1

SameEnds(x, y) == records[x].ends    \* mutant: the new pair is registered on A and B
FarEnds(x, y) == (records[x].ends \cup records[y].ends)
                     \ (records[x].ends \cap records[y].ends)

OnlyFirst(x, y) == {x}      \* mutant: one of the two pairs survives the swap
BothInputs(x, y) == {x, y}

\* The swapped pair, heralded with the weaker fidelity and the given expiry.
Swap(x, y, epoch, expiry) ==
    LET fidelity == WeakerOf(records[x].fidelity, records[y].fidelity)
        spent    == BothInputs(x, y)
    IN  /\ Swappable(x, y) /\ Live(x, epoch) /\ Live(y, epoch) /\ epoch <= expiry
        /\ Len(records) < MaxEbits
        /\ records' = Append([e \in Ids |-> IF e \in spent THEN Consumed(records[e])
                                                           ELSE records[e]],
                             [ends |-> FarEnds(x, y), expiry |-> expiry,
                              fidelity |-> fidelity, state |-> "HERALDED"])
        /\ uses' = Append([e \in Ids |-> IF e \in spent THEN uses[e] + 1 ELSE uses[e]], 0)
        /\ origin' = Append(origin, [from |-> {x, y}, fidelity |-> fidelity])

\* Without an expiry the new pair gets the earlier one of the two.
SwapDefault(x, y, epoch) ==
    Swap(x, y, epoch, WeakerOf(records[x].expiry, records[y].expiry))

\* The second pair has expired: the first is consumed before the call raises.
SwapSecondExpired(x, y, epoch) == /\ Swappable(x, y) /\ Live(x, epoch) /\ ~Live(y, epoch)
                                  /\ ConsumeEach({x})

\* The given expiry precedes the epoch: both are consumed before the call raises.
SwapBadExpiry(x, y, epoch, expiry) ==
    /\ Swappable(x, y) /\ Live(x, epoch) /\ Live(y, epoch) /\ epoch > expiry
    /\ ConsumeEach({x, y})
-----------------------------------------------------------------------------
OfOne(e) ==
    \/ Generate(e) \/ Herald(e) \/ Release(e) \/ Fail(e) \/ ExpireOne(e)
    \/ \E epoch \in Epochs : \/ Reserve(e, epoch) \/ Consume(e, epoch)
                             \/ Teleport(e, epoch) \/ RemoteCnot(e, epoch)

OfTwo(x, y) ==
    \E epoch \in Epochs :
        \/ SwapDefault(x, y, epoch) \/ SwapSecondExpired(x, y, epoch)
        \/ \E expiry \in Epochs : \/ Swap(x, y, epoch, expiry)
                                  \/ SwapBadExpiry(x, y, epoch, expiry)

Next ==
    \/ \E a, b \in Nodes, epoch, expiry \in Epochs, f \in Fids :
          Request(a, b, epoch, expiry, f)
    \/ \E epoch \in Epochs : ExpireAll(epoch)
    \/ \E e \in Ids : OfOne(e)
    \/ \E e \in Ids, f \in Fids : HeraldMeasured(e, f)
    \/ \E x, y \in Ids : OfTwo(x, y)

Spec == Init /\ [][Next]_lvars
-----------------------------------------------------------------------------
TypeOK == /\ records \in Seq(Ebit) /\ Len(records) <= MaxEbits
          /\ uses \in Seq(Nat) /\ Len(uses) = Len(records)
          /\ origin \in Seq([from : SUBSET (1..MaxEbits), fidelity : Fids])
          /\ Len(origin) = Len(records)

\* An ebit "can be consumed exactly once": whatever reservations, expiries, direct
\* consumptions and half-failed swaps went before, no ebit has served two protocol
\* runs, and the ledger calls an ebit CONSUMED exactly when one has used it.
SpentOnce == \A e \in Ids : /\ uses[e] <= 1
                            /\ uses[e] = 1 <=> records[e].state = "CONSUMED"

Swapped == {e \in Ids : origin[e] # Link}

\* A swapped pair stands for the two pairs it was made from: they are older, used up,
\* met at one node and leave their far ends to it, and no other pair was made from them.
Lineage ==
    \A e \in Swapped :
        LET from == origin[e].from
        IN  /\ \E x, y \in from : /\ from = {x, y} /\ x # y /\ x < e /\ y < e
                                  /\ records[e].ends = (records[x].ends \cup records[y].ends)
                                       \ (records[x].ends \cap records[y].ends)
            /\ \A x \in from : records[x].state = "CONSUMED"
            /\ \A d \in Swapped \ {e} : origin[d].from \cap from = {}

\* The books balance: every ebit ever used was used by one protocol, and every swapped
\* pair is paid for with two used ones (EbitLedger.consume, entanglement_swap).
EbitsAccounted == SpentOnce /\ Lineage

\* The usable pairs with one end in S and the other outside.
Across(S) == {e \in Ids : /\ records[e].state \in Usable
                          /\ Cardinality(records[e].ends \cap S) = 1}

\* Entanglement across any cut of the nodes comes from the link layer alone: the ledger
\* counts more usable pairs across a cut only when a requested pair has been heralded.
NoFreeEntanglement ==
    [][\A S \in SUBSET Nodes :
           Cardinality(Across(S)') > Cardinality(Across(S)) =>
               \E e \in Ids : /\ records[e].state = "GENERATING"
                              /\ records'[e].state = "HERALDED"]_lvars

\* A swapped pair's fidelity is "the weaker of the two inputs, never the better".
NeverTheBetter == \A e \in Swapped : records[e].fidelity <= origin[e].fidelity
=============================================================================
