--------------------------- MODULE BrvmStoreFaults ---------------------------
(***************************************************************************)
(* BrvmStore with the faults and legal calls that its promises do not      *)
(* survive, each admitted on its own by the constant Admit.                *)
(***************************************************************************)
EXTENDS BrvmStore

CONSTANTS Admit,     \* a subset of {"SyncFail", "SaveState", "GenWrap"}
          a, b       \* two images, the second a later version

MCVersion == [i \in {a, b} |-> IF i = a THEN 1 ELSE 2]

\* sync_parent fails after the rename: posix_write reports failure although the new
\* file is in place.
SaveUnsynced  == "SyncFail" \in Admit /\ pc = "saveSync" /\ AbortSave
ImageUnsynced == "SyncFail" \in Admit /\ pc = "imageSync" /\ AbortImage

\* brctl save-state: a fresh VM is saved without recovering first.
SaveState == /\ "SaveState" \in Admit /\ pc = "down"
             /\ StartSave(FreshVM, "savestate", Blank)
             /\ UNCHANGED <<disk, older, stage, acked, expected>>

\* Service 5 at the limit of the counter wraps it to zero.
CommitWraps == /\ "GenWrap" \in Admit /\ pc = "idle" /\ vm.gen = MaxGen
               /\ vm' = [vm EXCEPT !.gen = 0]
               /\ UNCHANGED <<disk, older, stage, pc, job, acked, expected>>

FaultyNext == Next \/ SaveUnsynced \/ ImageUnsynced \/ SaveState \/ CommitWraps

FaultySpec == Init /\ [][FaultyNext]_vars
=============================================================================
