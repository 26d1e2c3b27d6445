--------------------------- MODULE InstallRegister ---------------------------
(***************************************************************************)
(* What the dual-slot, dual-image store of BOTTLE ROCKET promises: one     *)
(* register that a restart reads.  It moves forward atomically, a power    *)
(* loss can only take it back to a value nobody was promised, and an       *)
(* acknowledged update is never taken back.                                *)
(***************************************************************************)
EXTENDS Naturals

CONSTANTS Values,        \* what a restart can find: records with ver, txid
          Blank          \* the value of an empty store

VARIABLES installed,     \* what a restart loads now
          recallable,    \* what a restart may load after a power loss instead
          promised       \* the last value acknowledged to a client

avars == <<installed, recallable, promised>>

\* w is v or a later state of the store than v.
NotOlder(w, v) == w.txid >= v.txid /\ w.ver >= v.ver

AInit == installed = Blank /\ recallable = {} /\ promised = Blank

\* The register takes a later value; until it is hardened the old one may return.
Put == /\ \E w \in Values : NotOlder(w, installed) /\ installed' = w
       /\ recallable' = recallable \cup {installed}
       /\ UNCHANGED promised

\* The value becomes power-safe, and may be acknowledged in the same step.
Harden == /\ recallable' = {}
          /\ promised' \in {promised, installed}
          /\ UNCHANGED installed

\* A power loss: any value that was not hardened away may be the one found.
Lose == /\ installed' \in recallable \cup {installed}
        /\ recallable' = {}
        /\ UNCHANGED promised

ANext == Put \/ Harden \/ Lose

ASpec == AInit /\ [][ANext]_avars

\* An acknowledged value is never lost: all a restart can find is at least as late.
PromiseKept == \A v \in recallable \cup {installed} : NotOlder(v, promised)
=============================================================================
