---------------------------- MODULE ApduSession ----------------------------
(* The request framing of br_apdu (brvm.c): reassembly of a command's         *)
(* fragments, the replay guard on state-changing commands and the transaction *)
(* counter. The host is external: it sends one request at a time, a message's *)
(* fragments in order, and starts the message again, under the same           *)
(* transaction id, when it is refused, loses an answer or restarts; or it     *)
(* gives the message up. A payload is the sequence of the fragments it was    *)
(* made of, <<transaction, number>>. UPDATE has a staging area of its own     *)
(* (BrvmStore).                                                               *)
EXTENDS Integers, Sequences

CONSTANTS Messages,        \* what the host may send: records [cmd, size]
          MaxFragments,    \* fragments the reassembly buffer holds
          MaxTx            \* bound: transaction ids
ASSUME ApduAssumption == MaxFragments \in Nat \ {0} /\ MaxTx \in Nat
                         /\ Messages \subseteq [cmd : STRING, size : Nat \ {0}]
StateChanging == {"INIT", "LOAD", "EXEC", "INPUT", "RESET"}

VARIABLES buffer, fragmentTx, nextSeq,   \* the reassembly of the machine
          lastTx,                        \* last_txid
          message, tx, sent,             \* the host: its message, its id, fragments sent
          executed,                      \* the last command that reached its handler
          applied                        \* transaction ids of the successful state changes
apduVars == <<buffer, fragmentTx, nextSeq, lastTx, message, tx, sent, executed, applied>>

Idle == [cmd |-> "none", size |-> 0]
Nothing == [cmd |-> "none", size |-> 0, payload |-> <<>>, tx |-> 0]
ApduInit ==
    /\ buffer = <<>> /\ fragmentTx = 0 /\ nextSeq = 0 /\ lastTx = 0
    /\ message = Idle /\ tx = 0 /\ sent = 0
    /\ executed = Nothing /\ applied = <<>>

\* A new message goes out under a new transaction id.
Begin ==
    /\ message = Idle /\ tx < MaxTx
    /\ \E m \in Messages : message' = m
    /\ tx' = tx + 1 /\ sent' = 0
    /\ UNCHANGED <<buffer, fragmentTx, nextSeq, lastTx, executed, applied>>

GiveUp ==
    /\ message # Idle /\ message' = Idle /\ sent' = 0
    /\ UNCHANGED <<buffer, fragmentTx, nextSeq, lastTx, tx, executed, applied>>

Fragment == <<tx, sent>>
More == sent + 1 < message.size
Reassembles == More \/ buffer # <<>>
\* What a fragment must be to join the reassembly.
AnyNumber == IF buffer = <<>> THEN sent = 0 ELSE tx = fragmentTx         \* mutant
InPlace == IF buffer = <<>> THEN sent = 0 ELSE tx = fragmentTx /\ sent = nextSeq
Accepted == InPlace /\ Len(buffer) < MaxFragments

DropBuffer == buffer' = <<>> /\ nextSeq' = 0

\* The answer is an error: the reassembly is dropped, the host starts again.
RefuseFragment ==
    /\ message # Idle /\ Reassembles /\ ~Accepted
    /\ DropBuffer /\ sent' = 0
    /\ UNCHANGED <<fragmentTx, lastTx, message, tx, executed, applied>>

\* The host got the answer, or lost it and starts the message again.
Answered(n) == sent' \in {n, 0}

TakeFragment ==
    /\ message # Idle /\ More /\ Accepted
    /\ buffer' = Append(buffer, Fragment) /\ nextSeq' = sent + 1 /\ fragmentTx' = tx
    /\ Answered(sent + 1)
    /\ UNCHANGED <<lastTx, message, tx, executed, applied>>

\* The last fragment, or the only one, completes the command.
Replayed == message.cmd \in StateChanging /\ tx <= lastTx
Whole == Append(buffer, Fragment)
Over == message' = Idle /\ sent' = 0
Restart == message' = message /\ sent' = 0

Complete ==
    /\ message # Idle /\ ~More /\ (Reassembles => Accepted)
    /\ DropBuffer
    /\ IF Replayed
       THEN Over /\ UNCHANGED <<lastTx, executed, applied>>
       ELSE /\ executed' = [cmd |-> message.cmd, size |-> message.size, payload |-> Whole,
                            tx |-> tx]
            /\ \E ok \in BOOLEAN :
                  /\ message.cmd \in {"INIT", "RESET"} => ok
                  /\ IF ok /\ message.cmd \in StateChanging
                     THEN lastTx' = tx /\ applied' = Append(applied, tx)
                     ELSE UNCHANGED <<lastTx, applied>>
            /\ Over \/ Restart
    /\ UNCHANGED <<fragmentTx, tx>>

ApduNext == Begin \/ GiveUp \/ RefuseFragment \/ TakeFragment \/ Complete
ApduSpec == ApduInit /\ [][ApduNext]_apduVars
-----------------------------------------------------------------------------
(* Properties.                                                               *)

\* A command that reaches its handler has exactly the payload its sender gave
\* it, whatever was sent, refused, abandoned or repeated before, and a
\* state-changing command takes effect once, in the order of the transaction
\* ids (br_apdu).
WholeAndOnce ==
    /\ executed.payload = [i \in 1 .. executed.size |-> <<executed.tx, i - 1>>]
    /\ \A i \in 1 .. Len(applied) - 1 : applied[i] < applied[i + 1]
=============================================================================
