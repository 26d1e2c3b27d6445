--------------------------- MODULE CheckpointStore ---------------------------
(***************************************************************************)
(* Checkpoints and recovery transactions over classical state              *)
(* (resilience.py, CheckpointStore and RecoveryTransaction).  A checkpoint *)
(* keeps a reference to its payload and a checksum per block: the client   *)
(* may change the payload after the save.  A checksum stands for the text  *)
(* it is of, the canonical JSON of the payload, which different contents   *)
(* may share: a number and a string as keys, a tuple and a list, an object *)
(* and a string with its repr.  A damaged checksum is one no text has.  A  *)
(* transaction has a journal of prior values, the live values, and the     *)
(* quantum keys it touched, which can only be registered; a value that is  *)
(* refused because it holds quantum state changes nothing and is left out. *)
(***************************************************************************)
EXTENDS Naturals, Sequences

CONSTANTS Ids,            \* checkpoint ids
          Classical,      \* contents of a classical block
          Text(_),        \* _canon: the canonical text of a content
          MaxBlocks       \* bound on the blocks of a payload

ASSUME CheckpointAssumption == MaxBlocks \in Nat \ {0}

VARIABLES payload,        \* the client's object: a sequence of block contents
          store,          \* CheckpointStore.store
          loaded,         \* what the last load returned
          saved           \* history: the payload as it was at the save

checkpointVars == <<payload, store, loaded, saved>>
-----------------------------------------------------------------------------
Quantum  == "QSTATE"                    \* a block that holds quantum state
Payloads == UNION {[1..n -> Classical \cup {Quantum}] : n \in 1..MaxBlocks}
Checksums(p) == [i \in DOMAIN p |-> [of |-> Text(p[i]), damaged |-> FALSE]]
Matches(content, checksum) == checksum.of = Text(content) /\ ~checksum.damaged
Missing  == [kind |-> "missing"]

IsQuantumPayload(p) == \E i \in DOMAIN p : p[i] = Quantum

CheckpointInit == /\ payload \in [1..1 -> Classical]
                  /\ store = [id \in Ids |-> Missing]
                  /\ loaded = Missing
                  /\ saved = [id \in Ids |-> Missing]

Admissible(kind, known) == IF kind = "prep" THEN known ELSE ~IsQuantumPayload(payload)

\* save: an id that is saved again loses the checkpoint it had.
Save(id, kind, known) ==
    /\ Admissible(kind, known)
    /\ store' = [store EXCEPT ![id] = [kind |-> kind, blocks |-> Checksums(payload)]]
    /\ saved' = [saved EXCEPT ![id] = [kind |-> kind, known |-> known, payload |-> payload]]
    /\ UNCHANGED <<payload, loaded>>

\* The client changes the object every checkpoint refers to.
Change(p) == payload' = p /\ UNCHANGED <<store, loaded, saved>>

\* corrupt: one block's checksum.
Corrupt(id, i) ==
    /\ store[id] # Missing /\ i \in DOMAIN store[id].blocks
    /\ store' = [store EXCEPT ![id].blocks[i].damaged = TRUE]
    /\ UNCHANGED <<payload, loaded, saved>>

\* mutant: zip alone, which stops at the shorter one
Zipped(blocks) == \A i \in DOMAIN payload \cap DOMAIN blocks : Matches(payload[i], blocks[i])

\* verify: the payload's blocks as they are now, against the checksums of the save.
Verified(blocks) == /\ Len(payload) = Len(blocks)
                    /\ \A i \in DOMAIN payload : Matches(payload[i], blocks[i])

\* load returns the referenced payload, or raises.
Load(id) == /\ store[id] # Missing /\ Verified(store[id].blocks)
            /\ loaded' = [kind |-> "loaded", id |-> id, value |-> payload]
            /\ UNCHANGED <<payload, store, saved>>

CheckpointNext == \/ \E p \in Payloads : Change(p)
                  \/ \E id \in Ids : \/ Load(id)
                                     \/ \E i \in 1..MaxBlocks : Corrupt(id, i)
                                     \/ \E kind \in {"ir", "prep"}, known \in BOOLEAN :
                                            Save(id, kind, known)

CheckpointSpec == CheckpointInit /\ [][CheckpointNext]_checkpointVars
-----------------------------------------------------------------------------
\* A load that succeeds returns a payload with the text of the one that was saved, block
\* by block, though the object is the client's and the checksums may have been damaged: the
\* very contents, where no others share their text. And what was saved held quantum state
\* only if its preparation was declared known.
LoadedIsSaved ==
    [][loaded' # loaded =>
          LET s == saved[loaded'.id]
          IN  /\ Len(loaded'.value) = Len(s.payload)
              /\ \A i \in DOMAIN s.payload : Text(loaded'.value[i]) = Text(s.payload[i])
              /\ IsQuantumPayload(s.payload) => s.kind = "prep" /\ s.known]_checkpointVars
-----------------------------------------------------------------------------
(* RecoveryTransaction.                                                      *)

CONSTANTS Keys, Values

VARIABLES state, journal, quantum, live,
          first           \* history: the first call that touched each key

transactionVars == <<state, journal, quantum, live, first>>
Absent == "None"            \* Python's None, which a key without a value is journalled as
Unset == "unset"          \* the key is in no dictionary
NoCall == [op |-> "none"]

ASSUME TransactionAssumption == Unset \notin Values

ValueOf(k) == IF live[k] = Unset THEN Absent ELSE live[k]

TransactionInit == /\ state = "OPEN"
                   /\ journal = [k \in Keys |-> Unset] /\ live = journal
                   /\ first = [k \in Keys |-> NoCall]
                   /\ quantum = [k \in Keys |-> "none"]

LastPrior(k, prior) == prior          \* mutant: the journal entry is overwritten

\* _journal.setdefault
FirstPrior(k, prior) == IF journal[k] = Unset THEN prior ELSE journal[k]

Touch(call, k, prior, value) ==
    /\ state = "OPEN"
    /\ journal' = [journal EXCEPT ![k] = FirstPrior(k, prior)]
    /\ live' = [live EXCEPT ![k] = value]
    /\ first' = [first EXCEPT ![k] = IF @ = NoCall THEN call ELSE @]
    /\ UNCHANGED <<state, quantum>>

\* begin records its snapshot this way; the recorded value becomes the live one, even
\* after a write.
RecordClassical(k, prior) == Touch([op |-> "record", prior |-> prior], k, prior, prior)

Write(k, v) == Touch([op |-> "write"], k, ValueOf(k), v)

\* register_quantum: in any state; the last declaration for a key counts.
RegisterQuantum(k, known) ==
    /\ quantum' = [quantum EXCEPT ![k] = known]
    /\ UNCHANGED <<state, journal, live, first>>

Commit == /\ state = "OPEN" /\ state' = "COMMITTED"
          /\ UNCHANGED <<journal, quantum, live, first>>

AnyKnown == \E k \in Keys : quantum[k] = "known"      \* mutant: one known key is enough
NoUnknown == \A k \in Keys : quantum[k] # "unknown"

Refuse == /\ state = "OPEN" /\ ~NoUnknown
          /\ state' = "REFUSED"
          /\ UNCHANGED <<journal, quantum, live, first>>

Rollback == /\ state = "OPEN" /\ NoUnknown
            /\ state' = "ROLLED_BACK"
            /\ live' = [k \in Keys |-> IF journal[k] = Unset THEN live[k] ELSE journal[k]]
            /\ UNCHANGED <<journal, quantum, first>>

TransactionNext == \/ \E k \in Keys, v \in Values : RecordClassical(k, v) \/ Write(k, v)
                   \/ \E k \in Keys, known \in {"known", "unknown"} : RegisterQuantum(k, known)
                   \/ Commit \/ Refuse \/ Rollback

TransactionSpec == TransactionInit /\ [][TransactionNext]_transactionVars
-----------------------------------------------------------------------------
\* What rollback can restore of a key: the prior value its first call declared; None when
\* that call was a write, which tells the transaction nothing of the value outside, whatever
\* is recorded afterwards; and nothing of a key it never touched.
Restorable(k) == CASE first[k].op = "none"   -> Unset
                   [] first[k].op = "record" -> first[k].prior
                   [] first[k].op = "write"  -> Absent

\* A rollback is all or nothing: it gives every key what can be restored of it, however
\* often it was written and recorded since, or, when one of the quantum keys is unknown, it
\* leaves every write in place; and once the transaction has ended nothing it wrote changes
\* again.
RollbackIsAllOrNothing ==
    [][/\ state' = "ROLLED_BACK" /\ state = "OPEN" =>
              /\ \A k \in Keys : quantum[k] # "unknown"
              /\ \A k \in Keys : live'[k] = Restorable(k)
       /\ state' = "REFUSED" \/ state # "OPEN" => live' = live]_transactionVars

\* What recovery gives back is what it was given: a payload with the text of the one that
\* was saved, the values declared before the transaction wrote (CheckpointStore.load,
\* RecoveryTransaction.rollback).
RecoveryIsFaithful == LoadedIsSaved /\ RollbackIsAllOrNothing
=============================================================================
